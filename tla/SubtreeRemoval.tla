--------------------------- MODULE SubtreeRemoval ---------------------------
(* What a recursive removal promises, whatever its implementation does with  *)
(* open directories and retries: it takes away leaves of one subtree, one at *)
(* a time, and it reports success only when the subtree is gone.             *)
EXTENDS FatFs

VARIABLES
  tree,     \* the volume
  target,   \* the directory being removed
  busy,     \* a removal is going on
  result    \* what the removal that ended last returned, "" during a removal

vars == <<tree, target, busy, result>>

Leaves == {p \in Subtree(tree, target) \ {<<>>} : Children(tree, p) = {} /\ ~ tree[p].rdo}

Init == ~ busy /\ result = ""

Begin(p) ==
  /\ ~ busy /\ busy'
  /\ IsDir(tree, p)
  /\ target' = p
  /\ result' = ""
  /\ UNCHANGED tree

RemoveLeaf == \E p \in Leaves : tree' = Without(tree, p)

Work ==
  /\ busy /\ busy'
  /\ RemoveLeaf
  /\ UNCHANGED <<target, result>>

End ==
  /\ busy /\ ~ busy'
  /\ RemoveLeaf \/ UNCHANGED tree
  /\ result' # ""
  /\ result' = "FR_OK" => Subtree(tree', target) = {}
  /\ UNCHANGED target

Next == Work \/ End \/ \E p \in DOMAIN tree : Begin(p)

Spec == Init /\ [][Next]_vars /\ [](busy => <> ~ busy)

=============================================================================
