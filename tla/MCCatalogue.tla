---------------------------- MODULE MCCatalogue ----------------------------
(* Every inventory of up to MaxObjects objects out of a few. *)
EXTENDS CatalogueProperties, TLC

CONSTANTS s1, s2,         \* stores
          d1, d2,         \* digests
          srv,            \* a server
          F, G, T, V,     \* two described families, the parse of 3, a VAE's
          MaxObjects

\* 1 and 2 are two publishers' files of one name, 3 that name alone, 4 a
\* component's.
MCModel == 1..4
MCFamily == {F, G, T, V}
MCServerName == {srv}
MCParsed == 1 :> T @@ 2 :> T @@ 3 :> T @@ 4 :> V
MCKeys == 1 :> {1, 3} @@ 2 :> {2, 3} @@ 3 :> {3} @@ 4 :> {4}
NoMap == [i \in {} |-> i]

Plain(s, ns, d, f) == [store |-> s, names |-> ns, digest |-> d, family |-> f,
                       component |-> FALSE, base |-> NoFamily]
Part(s, ns, d, f, b) == [store |-> s, names |-> ns, digest |-> d, family |-> f,
                         component |-> TRUE, base |-> b]

SomeObjects ==
  {Plain(s1, <<1>>, d1, F), Plain(s2, <<2>>, NoDigest, G),
   Plain(s2, <<3>>, NoDigest, NoFamily), Plain(s1, <<2, 3>>, d2, F),
   Plain(s2, <<1>>, d1, NoFamily), Plain(s2, <<>>, d1, G),
   Part(s1, <<4>>, d2, V, F), Part(s2, <<4, 3>>, NoDigest, V, NoFamily),
   Part(s2, <<>>, d2, NoFamily, G), Part(s1, <<3>>, d1, NoFamily, NoFamily)}

MCInventories == UNION {[1..n -> SomeObjects] : n \in 0..MaxObjects}

MCListings == {{}, {<<srv, 3>>}, {<<srv, 1>>, <<srv, 4>>}}
=============================================================================
