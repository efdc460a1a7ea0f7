------------------------------ MODULE MCOffer ------------------------------
(***************************************************************************)
(* A server of one model, one that fixes its window at load and a remote   *)
(* runtime, against requests with and without a window.                    *)
(***************************************************************************)
EXTENDS Offer

CONSTANTS plain, loading, far, nearFar,  \* hosts
          near, lemon, away,             \* their names
          F, G, m, n, d1,                \* families, names, a remote's server
          MaxAliases                     \* aliases a snapshot holds

MCHost       == {plain, loading, far, nearFar}
MCServer     == {near, lemon, away}
\* nearFar is a server of this machine under the remote's name.
MCNameOf     == [h \in MCHost |-> CASE h = plain -> near [] h = loading -> lemon
                                    [] OTHER -> away]
MCProfiles   == [h \in MCHost |-> {"chat", "image"}]
MCDefault    == [p \in {"chat", "image"} |-> IF p = "chat" THEN 4 ELSE 0]

A(server, family, name, profiles, maximum, effective) ==
  [server |-> server, family |-> family, name |-> name, servable |-> TRUE,
   profiles |-> profiles, maximum |-> maximum, effective |-> effective]

\* No length, a maximum, an effective length that ties with the remote's and
\* one above its maximum, on each kind of server.
Pool == {A(near, F, m, Unreported, 0, 0),
         A(near, F, n, Unreported, 3, 0),
         A(near, G, m, {"image"}, 0, 0),
         A(lemon, F, m, Unreported, 3, 2),
         A(lemon, F, n, Unreported, 3, 0),
         A(away, F, m, Unreported, 2, 0),
         A(away, F, n, Unreported, 2, 3),
         A(away, G, m, Unreported, 0, 0),
         [A(near, F, n, Unreported, 1, 0) EXCEPT !.servable = FALSE]}

MCInventories == UNION {kSubset(k, Pool) : k \in 0..MaxAliases}

MCConfigurations == {{plain, loading, far}, {plain, nearFar}, {loading, far}}

R(profile, placement, reserve) ==
  [profile |-> profile, placement |-> placement, reserve |-> reserve]

MCRequests == {R("chat", "any", 3), R("chat", "local", 0), R("chat", "hosted", 1),
               R("image", "any", 0), R("chat", "elsewhere", 0), R("chat", "any", -1)}

O(family, name, context, source, unknown) ==
  [family |-> family, names |-> {name}, servers |-> {d1}, context |-> context,
   source |-> source, unknown |-> unknown]

OfferPool == {O(F, m, 2, "maximum", {}), O(F, n, 2, "effective", {}),
              O(F, m, 0, "unknown", {n}), O(G, m, 0, "none", {}),
              O(G, n, 4, "default", {})}

MCAnswers ==
  {[kind |-> "failed", offers |-> {}], [kind |-> "unknown_method", offers |-> {}]}
  \cup [kind : {"offered"}, offers : UNION {kSubset(k, OfferPool) : k \in 0..2}]
=============================================================================
