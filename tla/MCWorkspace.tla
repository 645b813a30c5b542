------------------------------ MODULE MCWorkspace ------------------------------
(* Workspace on few of everything; what has a symbol of a set's is any of it. *)
EXTENDS Workspace, TLC

MCSymmetry ==
    Permutations(Panes) \union Permutations(Tabs) \union Permutations(Workspaces)
        \union Permutations(Clients)
=============================================================================
