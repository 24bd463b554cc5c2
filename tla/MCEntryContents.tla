---------------------------- MODULE MCEntryContents ----------------------------
\* Two attributes, one of them in two spellings; lists of up to two values.
EXTENDS EntryContents

CONSTANTS cn, mail, p, b

MCNames     == {cn, mail}
MCSpellings == {"cn", "CN", "mail"}
MCFold      == [s \in MCSpellings |-> IF s = "mail" THEN mail ELSE cn]
MCLists     == {<<>>, <<b, p>>}
===============================================================================
