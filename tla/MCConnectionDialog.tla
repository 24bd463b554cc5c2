-------------------------- MODULE MCConnectionDialog --------------------------
(***************************************************************************)
(* Both models of the connection dialog, one behaviour being of one of     *)
(* them: clicks, timer and answers of ConnectionDialog do not look at the  *)
(* settings, of which StoredConnections needs no more than its stage to    *)
(* know that a click is being answered.                                    *)
(*                                                                         *)
(* Three forms for two files: two connections of one name with different   *)
(* secrets, and one whose name is the name of the first one's file.        *)
(***************************************************************************)
EXTENDS ConnectionDialog, StoredConnections, TLC

\* Three equal bytes at the front make a text shorter.
MCCompress(w) ==
    IF Len(w) >= 3 /\ w[1] = w[2] /\ w[2] = w[3]
    THEN <<BitsOfByte, w[1]>> \o SubSeq(w, 4, Len(w))
    ELSE <<NoBits, NoBits>> \o w

MCUncompress(z) ==
    IF z[1] = BitsOfByte THEN <<z[2], z[2], z[2]>> \o SubSeq(z, 3, Len(z))
                         ELSE SubSeq(z, 3, Len(z))

MCChecksum(w) == <<IF w = <<>> THEN NoBits ELSE w[1], IF w = <<>> THEN NoBits ELSE w[Len(w)]>>
MCHash(w) == [i \in 1 .. 20 |-> IF i <= Len(w) THEN w[i] ELSE BitsOfByte]

Key == <<{1}, {}, {1}, {1}, {}, {1}, {}, {}>>
Short == <<{1}, {}>>
Long == <<{1}, {1}, {1}, {}, {1}, {1}, {}, {}, {1}, {}>>
MCTextsKept == {<<>>, Short, Long}

MCNames == {"a", "a.ini"}
MCFiles == {"a.ini", "a.ini.ini"}
MCFileOf == "a" :> "a.ini" @@ "a.ini" :> "a.ini.ini"

Draft(name, tls, user, password) ==
    [key \in Keys |->
        CASE key = "name" -> name
          [] key = "baseDN" -> "base"
          [] key = "useTLS" -> tls
          [] key = "username" -> user
          [] key = "password" -> password
          [] OTHER -> Default(key)]

MCRandoms == {[key \in Secrets |-> IF key = "username" THEN b ELSE Xor(b, {1})] : b \in Byte}

MCDrafts == {Draft("a", TRUE, Long, Short), Draft("a", FALSE, Short, <<>>),
             Draft("a.ini", TRUE, Short, Long)}

------------------------------------------------------------------------------

VARIABLE part   \* which part of the dialog a behaviour is of

MCInit == DialogInit /\ StoredInit /\ part \in {"waiting", "settings"}

MCNext ==
    \/ part = "waiting" /\ DialogNext /\ UNCHANGED <<storedVars, part>>
    \/ part = "settings" /\ StoredNext /\ UNCHANGED <<dialogVars, part>>

MCSpec ==
    /\ MCInit /\ [][MCNext]_<<dialogVars, storedVars, part>>
    /\ WF_dialogVars(Tick) /\ WF_dialogVars(OnConnectionCompleted)
==============================================================================
