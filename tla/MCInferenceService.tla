-------------------------- MODULE MCInferenceService --------------------------
(***************************************************************************)
(* A small instance of the inference service for TLC.                      *)
(***************************************************************************)
EXTENDS InferenceService, TLC

CONSTANTS port, dim, url, v1, v2, q1, q2, d1, d2, a1, a2, a3, b1, default, acme

\* The environment has each setting or not; the first file sets up to two, the
\* second one.
Line == [key : {dim, url}, value : {Unset, v1, v2}]

AllEnvironments == [{port, dim, url} -> {Unset, v1, v2}]
AllFiles == {<<f, g>> : f \in UNION {[1 .. n -> Line] : n \in 0 .. 2},
                        g \in UNION {[1 .. n -> Line] : n \in 0 .. 1}}

Defaults == (port :> Unset) @@ (dim :> Unset) @@ (url :> v1)

OfDoc == (a1 :> d1) @@ (a2 :> d1) @@ (a3 :> d1) @@ (b1 :> d2)

\* a1 and b1 have one content, and share a vector row.
Percent == (a1 :> 50) @@ (a2 :> 30) @@ (a3 :> 10) @@ (b1 :> 50)

Tenants == [d \in {d1, d2} |-> default]

Words(k, s, t) == [text |-> "words", topK |-> k, minSimilarity |-> s, tenant |-> t]

\* By default; the best of a tenant; a tenant without documents; what is refused.
AllBodies == {Words(0, 0, NoTenant), Words(1, 30, default), Words(-1, -1, acme)}
        \cup {[Words(0, 0, NoTenant) EXCEPT !.text = x] : x \in {"malformed", "empty", "blank"}}
=============================================================================
