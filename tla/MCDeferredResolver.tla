------------------------- MODULE MCDeferredResolver -------------------------
(* TLC instance of DeferredResolver: three tags under four spellings, the  *)
(* default threshold, and a window that is full exactly at the threshold.  *)
EXTENDS DeferredResolver, TLC

CONSTANTS sql, email, audit

MCCapability == {sql, email, audit}
MCAllCapabilities == {sql, email}
MCRawTag == {"sql", " SQL", "email", " "}
MCNormalize ==
  [r \in MCRawTag |-> CASE r \in {"sql", " SQL"} -> sql
                        [] r = "email" -> email
                        [] OTHER -> NoTag]
MCSymmetry == Permutations(Goroutine)
MCIntent == {NoIntent, "send the report"}
MCFallback == [i \in MCIntent |-> IF i = NoIntent THEN {} ELSE {audit}]
=============================================================================
