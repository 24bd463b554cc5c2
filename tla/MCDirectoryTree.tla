---- MODULE MCDirectoryTree ----
(* Two entries below the base, and one below the first of them. *)
EXTENDS DirectoryTree, TLC

CONSTANTS people, ann, bob

MCAbove == people :> Base @@ bob :> Base @@ ann :> people
================================
