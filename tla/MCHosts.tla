------------------------------- MODULE MCHosts -------------------------------
(***************************************************************************)
(* Small servers of every kind for Hosts to read.                          *)
(***************************************************************************)
EXTENDS Hosts, TLC

-----------------------------------------------------------------------------
(* A remote runtime that reports a name twice, drops it and changes it *)

A(name, profs, maximum, effective, servable) ==
  [name |-> name, profiles |-> profs, maximum |-> maximum, effective |-> effective,
   servable |-> servable]

MCRuntimes ==
  {[aliases |-> <<A("m", {"embed"}, 8, 4, TRUE), A("m", {"chat", "video"}, 8, 0, TRUE)>>,
    hosts |-> {"a"}],
   [aliases |-> <<A("n", {}, 0, 0, TRUE), A("n", {"chat"}, 2, 6, TRUE),
                  A("m", {"chat"}, 4, 0, FALSE), A("n", {"chat"}, -1, 0, TRUE)>>,
    hosts |-> {"a", "b"}],
   [aliases |-> <<A("m", {"video"}, 0, 0, TRUE), A("n", {"embed"}, 6, 6, TRUE),
                  A("m", {"embed"}, 0, 2, TRUE)>>, hosts |-> {}]}

-----------------------------------------------------------------------------
(* Providers of each kind of wire, with a credential and without, and some *)
(* whose base is no URL                                                     *)

P(wire, credential) ==
  [wire |-> wire, parses |-> TRUE, target |-> "home", credential |-> credential]

NoUrl(p) == [p EXCEPT !.parses = FALSE, !.target = ""]

MCIds == {<<>>, <<"m", "">>}

MCProviders ==
  {P(wire, credential) : wire \in {"openai-compatible", "anthropic-messages",
                                   "elevenlabs-stream", "fal-queue", "unheard-of"},
                         credential \in {None, "key"}}
  \cup {P("oa-remote@1", "key")}
  \cup {NoUrl(P(wire, credential)) : wire \in {"openai-compatible", "elevenlabs-stream", "fal-queue"},
                                     credential \in {None, "key"}}

-----------------------------------------------------------------------------
(* Lemonade with a checkpoint two models share or that is another's id, an  *)
(* id listed twice, clouds, and models loaded by either name, by a name not *)
(* listed, or not at all                                                    *)

L(id, checkpoint, cloud, downloaded, maximum, length, planned) ==
  [id |-> id, checkpoint |-> checkpoint, cloud |-> cloud, downloaded |-> downloaded,
   max |-> maximum, length |-> length, planned |-> planned]

Local(id, checkpoint, maximum, planned) == L(id, checkpoint, FALSE, TRUE, maximum, 0, planned)

Offered ==
  {Local("a", "c", 8, 4), Local("b", "c", 8, 9), Local("a", None, 4, 2), Local("d", "b", 0, 3),
   L("a", "c", TRUE, TRUE, 6, 5, 0), L("c", None, TRUE, TRUE, 6, 7, 0),
   L("e", None, FALSE, FALSE, 4, 0, 2)}

\* Entries of one id are one entry, listed again.
Agree(ms) == \A i, j \in DOMAIN ms : ms[i].id = ms[j].id => ms[i] = ms[j]

MCListings ==
  {ms \in {<<x, y>> : x, y \in Offered}
          \cup {<<Local("f", None, 8, 4), x, y>> : x, y \in Offered} : Agree(ms)}

H(main, all) == [main |-> main, all |-> all]
Up(loaded, size) == [loaded |-> loaded, size |-> size]

MCHealths ==
  {H(None, <<>>),
   H("a", "a" :> Up(TRUE, 2)),
   H(None, "c" :> Up(TRUE, 6) @@ "e" :> Up(FALSE, 3)),
   H(None, "a" :> Up(TRUE, 3) @@ "c" :> Up(TRUE, 6)),
   H("d", "d" :> Up(TRUE, 16) @@ "z" :> Up(TRUE, 5) @@ "b" :> Up(TRUE, -1))}

-----------------------------------------------------------------------------
(* Local servers, each in two states *)

MCKinds == "llm" :> {"chat"} @@ "vlm" :> {"chat"} @@ "embeddings" :> {"embed"}

MCAbilities == "completion" :> "chat" @@ "embedding" :> "embed" @@ "image" :> "image"

M(name, type, loaded, maximum, able) ==
  [name |-> name, type |-> type, loaded |-> loaded, max |-> maximum, able |-> able]

S(kind, ms, devices) == [kind |-> kind, models |-> ms, devices |-> devices]

D(total, free) == [total |-> total, free |-> free]

MCServers ==
  {S("lmstudio", <<M("m", "llm", TRUE, 8, None), M("n", "embeddings", FALSE, 0, None),
                   M("o", "tts", TRUE, 4, None), M("m", "tts", FALSE, 2, None)>>, <<>>),
   S("lmstudio", <<M("m", "embeddings", FALSE, 4, None), M("p", "vlm", TRUE, 2, None)>>, <<>>),
   S("ollama", <<M("m", "", TRUE, 8, {"completion", "tools"}), M("n", "", FALSE, 0, None)>>, <<>>),
   S("ollama", <<M("m", "", FALSE, 4, None), M("n", "", TRUE, 2, {"embedding", "image"}),
                 M("p", "", TRUE, 1, {})>>, <<>>),
   S("comfyui", <<M("vae/x", "vae", FALSE, 0, None), M("unet/x", "unet", FALSE, 0, None)>>,
     <<D(8, 8), D(4, 6)>>),
   S("comfyui", <<M("vae/y", "vae", FALSE, 0, None), M("unet/x", "unet", FALSE, 0, None)>>,
     <<D(8, 4), D(4, 1)>>),
   S("comfyui", <<>>, <<D(8, 4)>>),
   S("openai", <<M("m", "", TRUE, 8, None)>>, <<>>), S("openai", <<>>, <<>>),
   S("piper", <<>>, <<>>)}

-----------------------------------------------------------------------------
(* Servers that hold nothing, or more than one thing *)

I(id, instance, identifier, key) ==
  [id |-> id, instance_id |-> instance, identifier |-> identifier, key |-> key]

MCHolders ==
  {[kind |-> kind, held |-> held] :
     kind \in {"lmstudio", "ollama", "lemonade", "comfyui", "piper"},
     held \in {<<>>, <<I("m:1", "x", "", "m"), I("", "m:2", "y", "m"), I("", "", "", "m")>>,
               <<I("", "", "n:1", "n"), I("o:1", "", "", "o")>>}}

-----------------------------------------------------------------------------
(* Records of every product, and declarations with colons in their names *)

Records(fields) == {Absent, Unreadable, Malformed} \cup fields

MCAddresses == {"127.0.0.1", "::1", "10.0.0.9", "0.0.0.0", "::"}

MCAnyAddress == [four |-> "0.0.0.0", six |-> "::"]

\* Probes do not look at each other's records: two vary at a time.
Quiet == [ollama |-> Absent, lmstudio |-> <<Absent, Absent>>, desktop |-> Absent,
          plugin |-> FALSE, foundry |-> Absent]

MCEnvironments ==
  {[Quiet EXCEPT !.ollama = o, !.foundry = f] :
     o \in {Absent} \cup [scheme : {None, "http", "https", "ftp"},
                          host : {None, "0.0.0.0", "::", "box", "a b"},
                          port : {None, 0, 1, 65536}],
     f \in {Absent, Malformed} \cup [scheme : {"http"}, port : {0, 52403}]}
  \cup
  {[Quiet EXCEPT !.lmstudio = <<a, b>>, !.desktop = d, !.plugin = p, !.ollama = o] :
     a, b \in Records({[port |-> n, host |-> h] : n \in {0, 65535}, h \in {"::", "10.0.0.9", "box", None}}),
     d \in Records([ai : {None, FALSE}, tcp : {None, TRUE}]),
     p \in BOOLEAN, o \in {Absent, [scheme |-> None, host |-> None, port |-> None]}}

\* An entry of one empty word is an empty name.
Entries == {<<"m">>, <<"chat", "m">>, <<"embed", "m">>, <<"embed", "n", "7b">>,
            <<"qwen", "7b">>, <<"chat", "">>, <<"">>}

MCDeclarations ==
  {[entries |-> es, profiles |-> ps] :
     es \in {<<>>} \cup {<<a>> : a \in Entries} \cup {<<a, b>> : a, b \in Entries}
              \cup {<<a, b, c>> : a, b, c \in Entries},
     ps \in {<<"chat">>, <<"chat", "embed">>}}

-----------------------------------------------------------------------------
(* A residency source that fails, one that knows of no holder and one that   *)
(* knows of two; a model loaded nowhere, twice on one host, on two hosts     *)

MCSources == {[fails |-> TRUE, rows |-> <<>>], [fails |-> FALSE, rows |-> <<>>],
              [fails |-> FALSE, rows |-> <<"p", "p">>]}

On(host, name, loaded) == [family |-> "f", host |-> host, name |-> name, resident |-> loaded]

MCFound == {{On("a", "m", TRUE), On("a", "n", TRUE), On("b", "m", FALSE)},
            {On("a", "m", TRUE), On("b", "n", TRUE)}}

MCRequests ==
  {[op |-> o, fresh |-> f, placement |-> "any", reserve |-> 0] :
     o \in {"models", "residency", "route", "offer"}, f \in BOOLEAN}
  \cup {[op |-> "offer", fresh |-> TRUE, placement |-> p, reserve |-> n] :
          p \in {"any", "elsewhere"}, n \in {-1, 0}}
  \cup {[op |-> "load", fresh |-> FALSE, placement |-> "", reserve |-> 0]}
=============================================================================
