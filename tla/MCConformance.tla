----------------------------- MODULE MCConformance -----------------------------
(* A small instance of Conformance for TLC: one catalog of three snapshots,   *)
(* another with one, both listing the same component.                         *)
EXTENDS Conformance

CONSTANTS auds, svcs, comp

MCOrder == <<auds, svcs>>
MCListing == (auds :> {comp}) @@ (svcs :> {comp})
MCLength == (auds :> 3) @@ (svcs :> 1)

Each(docs, names) == {<<d, n>> : d \in docs, n \in names}
MCFlawed ==
    {M, <<"manifest.sig">>, <<"privacy">>, <<"descriptor", auds>>, <<"policy", auds>>,
     <<"latest", auds>>, <<"latest.sig", auds>>, <<"sibling", auds, 1>>, <<"sibling", auds, 2>>,
     <<"sibling", auds, 3>>, <<"sibling.sig", auds, 2>>, <<"snapshot", auds, 1>>,
     <<"snapshot", auds, 2>>, <<"snapshot", auds, 3>>, <<"entry", auds, comp>>, <<"dest", comp>>}
MCFlaws == UNION {Each({d}, FlawNames(d)) : d \in MCFlawed}
MCFlawSets ==
    {fs \in {{f, g} : f, g \in MCFlaws} :
       \A f, g \in fs : f[1] = g[1] /\ {f[2], g[2]} \subseteq Statuses => f = g} \cup {{}}
================================================================================
