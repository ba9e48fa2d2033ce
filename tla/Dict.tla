-------------------------------- MODULE Dict --------------------------------
(***************************************************************************)
(* The operations of a Python dict that the caches of ecnl use.  A dict is *)
(* a function whose domain is the set of its present keys.                 *)
(***************************************************************************)

EmptyDict == [x \in {} |-> x]

\* d[k] = v
Put(d, k, v) == [x \in DOMAIN d \union {k} |-> IF x = k THEN v ELSE d[x]]

\* d.pop(k, None); `del d[k]' where k is known to be present.
Del(d, k) == [x \in DOMAIN d \ {k} |-> d[x]]
=============================================================================
