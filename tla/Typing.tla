-------------------------------- MODULE Typing --------------------------------
(***************************************************************************)
(* A text as it is typed into the editor of a cell, sign by sign: any text  *)
(* of some form, which the modules of this kind then check, read, store and *)
(* show.  A sign is a number: a byte, or a part of a text that the code     *)
(* takes as a whole.                                                        *)
(***************************************************************************)
EXTENDS Naturals, Sequences

CONSTANT
    \* Form -> [head, tail : the fixed parts of the word, letters : the signs
    \* typed between them, max : how many (a bound of the model)]
    Forms

ASSUME FormsAssumption ==
    \A f \in DOMAIN Forms :
        /\ Forms[f].head \in Seq(Nat) /\ Forms[f].tail \in Seq(Nat)
        /\ Forms[f].letters \subseteq Nat

VARIABLES
    form,   \* which form the word has
    typed   \* what is typed between its head and its tail

typingVars == <<form, typed>>

word == Forms[form].head \o typed \o Forms[form].tail

TypingInit == form \in DOMAIN Forms /\ typed = <<>>

Insert(c) ==
    /\ c \in Forms[form].letters
    /\ Len(typed) < Forms[form].max
    /\ typed' = Append(typed, c)
    /\ UNCHANGED form

Erase ==
    /\ typed # <<>>
    /\ typed' = SubSeq(typed, 1, Len(typed) - 1)
    /\ UNCHANGED form

TypingNext == (\E c \in Forms[form].letters : Insert(c)) \/ Erase

TypingSpec == TypingInit /\ [][TypingNext]_typingVars
===============================================================================
