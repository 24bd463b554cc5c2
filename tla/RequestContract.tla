--------------------------- MODULE RequestContract ---------------------------
(***************************************************************************)
(* What the LDAP session promises its callers about each of their          *)
(* requests: at most two copies of it are ever executed, one answer is     *)
(* given, and a success is only reported of a request that was executed.   *)
(* It promises nothing of a request it reports as refused or failed: that  *)
(* one may have been executed, or may be later.                            *)
(***************************************************************************)
CONSTANT Requests
VARIABLES executed, \* the copies the server has executed
          result    \* what the caller was told of each request

vars == <<executed, result>>

Copies  == Requests \X {1, 2}
Answers == {"ok", "refused", "failed"}

Init == executed = {} /\ result = [r \in Requests |-> "none"]

Execute(c) == executed' = executed \union {c} /\ UNCHANGED result

Reply(r, answer) == /\ result[r] = "none"
                    /\ answer = "ok" => \E n \in {1, 2} : <<r, n>> \in executed
                    /\ result' = [result EXCEPT ![r] = answer]
                    /\ UNCHANGED executed

Next == \/ \E c \in Copies : Execute(c)
        \/ \E r \in Requests, answer \in Answers : Reply(r, answer)

Spec == Init /\ [][Next]_vars
==============================================================================
