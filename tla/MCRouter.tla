------------------------------ MODULE MCRouter ------------------------------
(* Small instances of the router for TLC. *)
EXTENDS RouterProperties, TLC

CONSTANTS a, b, h, x, b2,      \* hosts: two local, one hosted, one graph-only,
                               \* and a hosted one that bears b's name
          sa, sb, sh, sx,      \* their names
          F, G, chat, embed

MCHost == {a, b, h, x, b2}
MCServerName == {sa, sb, sh, sx}
MCModel == 1..3
MCFamily == {F, G}
MCProfile == {chat, embed}
MCNameOf == a :> sa @@ b :> sb @@ h :> sh @@ x :> sx @@ b2 :> sb
MCServable == {a, b, h, b2}
MCHosted == {h, b2}
MCHostProfiles == a :> {chat} @@ b :> {chat, embed} @@ h :> {chat}
                  @@ x :> {} @@ b2 :> {chat}
MCScoped == {a}
\* a's declaration names model 1 for chat and model 2 for embed alone.
MCDeclared == [i \in MCHost |-> [m \in MCModel |->
                 IF i # a THEN {} ELSE IF m = 2 THEN {embed} ELSE {chat}]]
\* 1 and 2 are two builds of F; 3 parses to nothing.
MCParsed == 1 :> F @@ 2 :> F @@ 3 :> NoFamily

NoOwn == [names |-> {}, of |-> [m \in MCModel |-> {}]]
Down == [lists |-> FALSE, installed |-> <<>>, reports |-> FALSE,
         resident |-> <<>>, metadata |-> NoOwn]
Lists(installed, resident, own) ==
  [lists |-> TRUE, installed |-> installed, reports |-> TRUE,
   resident |-> resident, metadata |-> own]
Mute(installed) == [Lists(installed, <<>>, NoOwn) EXCEPT !.reports = FALSE]
Own(m, ps) == [names |-> {m}, of |-> [NoOwn.of EXCEPT ![m] = ps]]

\* Nothing held, and an inventory whose descriptor gives model 3 family F and
\* holds a G no server lists.
NothingHeld == [declared |-> [m \in MCModel |-> NoFamily],
                spelling |-> [f \in MCFamily |-> NoModel]]
SomeHeld == [declared |-> 3 :> F @@ 1 :> NoFamily @@ 2 :> NoFamily,
             spelling |-> F :> 3 @@ G :> 3]

Requested(m, p, allowed, fresh, audited) ==
  [model |-> m, profile |-> p, allowed |-> allowed, fresh |-> fresh,
   audited |-> audited]

-----------------------------------------------------------------------------
(* Few hosts and observations, for interleavings *)

RaceLists == {<<a, h>>, <<b>>}
RaceHeld == {NothingHeld}
RaceObservations ==
  a :> {Lists(<<1>>, <<1>>, NoOwn)} @@ h :> {Lists(<<1>>, <<>>, NoOwn)}
  @@ b :> {Lists(<<1>>, <<>>, NoOwn)}
  @@ x :> {Down} @@ b2 :> {Down}
RaceRequests == {Requested(1, chat, <<sh, sb>>, FALSE, TRUE),
                 Requested(1, chat, NoAllowance, TRUE, FALSE)}

-----------------------------------------------------------------------------
(* One caller, many inventories and requests, for decisions *)

WideLists == {<<a, b, h>>, <<b2, a, x>>, <<x>>}
WideHeld == {NothingHeld, SomeHeld}
WideObservations ==
  a :> {Down, Lists(<<1, 2>>, <<>>, NoOwn), Mute(<<2, 1>>)}
  @@ b :> {Down, Mute(<<2>>), Lists(<<2, 1, 3>>, <<>>, Own(2, {embed})),
           Lists(<<2, 3>>, <<1, 3>>, Own(1, {embed}))}
  @@ h :> {Down, Lists(<<2, 1>>, <<>>, NoOwn)}
  @@ x :> {Lists(<<3, 2>>, <<>>, NoOwn)}
  @@ b2 :> {Lists(<<2>>, <<>>, NoOwn)}
WideRequests ==
  {Requested(3, embed, NoAllowance, TRUE, FALSE)} \cup
  {Requested(m, p, allowed, FALSE, FALSE) :
     m \in {1, 3}, p \in MCProfile,
     allowed \in {NoAllowance, <<>>, <<sh, sb>>, <<sb, sa>>}}

-----------------------------------------------------------------------------
(* One caller and Poll, every kind of request, a server that comes and goes *)

LiveObservations ==
  a :> {Lists(<<1>>, <<>>, NoOwn)} @@ h :> {Lists(<<1>>, <<>>, NoOwn)}
  @@ b :> {Down, Lists(<<1>>, <<1>>, NoOwn)} @@ x :> {Down} @@ b2 :> {Down}
LiveRequests == RaceRequests \cup {Requested(1, chat, NoAllowance, TRUE, TRUE)}

Symmetry == Permutations(Caller)
=============================================================================
