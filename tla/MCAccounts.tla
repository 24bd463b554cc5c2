---- MODULE MCAccounts ----
\* Classes in an order the server may give, and in two spellings.
EXTENDS Accounts, TLC

MCFold == "user" :> "user" @@ "User" :> "user" @@ "group" :> "group" @@
          "top" :> "top" @@ "container" :> "container"

MCClassLists == {<<"top", "user">>, <<"user", "top">>, <<"top", "User">>,
                 <<"top", "group">>, <<"container", "user">>}

Interchangeable == Permutations(Users)
===========================
