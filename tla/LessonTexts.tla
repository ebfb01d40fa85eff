------------------------------ MODULE LessonTexts ------------------------------
(***************************************************************************)
(* A small language for model-checking the gate: word lists, what the curated *)
(* ecosystem adds, and the drafts a provider writes in it.                   *)
(***************************************************************************)
EXTENDS Integers, Sequences, FiniteSets

Verifying == {"verify", "trace"}
Failing == {"deny", "mutate"}
Qualifying == {"draft", "testnet"}
Postures == {"spec", "official"}
Placeholders == {"lorem"}
StockProbes == {"recap"}
VagueProbes == {"why"}
DomainWords == {"note"}
Stopwords == {"the", "verify", "trace", "deny", "mutate", "draft", "testnet", "spec",
                "official", "docs", "note", "plan", "build", "ship"}
Markers == {"Sources:"}

Ecosystems == {"plain", "curated", "generic"}
ByEcosystem(value) == [e \in Ecosystems |-> value]
Sources == ByEcosystem({"docs"})
Required == ByEcosystem({"note"})
Blocked == ByEcosystem({"rival"})
RoleWords == ByEcosystem([i \in 0..2 |-> <<{"plan"}, {"build"}, {"ship"}>>[i + 1]])
Curated == {"curated"}
SourceSentence == ByEcosystem(<<"Sources:", "docs", "spec", "official">>)
NuanceSentence ==
  ByEcosystem(<<"Limits:", "verify", "trace", "deny", "mutate", "draft", "testnet">>)
RoleSentence == ByEcosystem([i \in 0..2 |-> <<<<"plan">>, <<"build">>, <<"ship">>>>[i + 1]])
Checklist == ByEcosystem(<<"Checklist:">>)
Artifact == ByEcosystem(<<"artifact">>)
CodeLens ==
  ByEcosystem([i \in 0..2 |->
    <<<<"code", "plan">>, <<"code", "build">>, <<"code", "ship">>>>[i + 1]])
WhyAddition == <<"because", "matters">>
BridgeAddition == <<"practice", "map">>

MinExplainer == 2
MinWhy == 2
MinBridge == 2
MinQuestion == 3
LastLesson == 2
PriorLimit == 4
ShingleSize == 2
CodeFloor == 3
TitleLimit == 4
QuestionLimit == 6
SummaryLimit == 20
CodeLimit == 6

Gate == INSTANCE LessonGate

\* A lesson that passes in every place, on a topic of its own.
Sound(topic) ==
  [t |-> <<topic>>,
   e |-> <<topic, "docs", "spec", "official", "verify", "trace", "deny", "mutate", "draft",
           "testnet", "note", "plan", "build", "ship">>,
   s |-> <<"code">>, w |-> <<topic, "matters">>, j |-> <<topic, "lab">>, f |-> <<"next">>,
   q |-> <<"the", "why", topic, "note">>, a |-> <<"right">>, ci |-> 7,
   b |-> <<<<"w1">>, <<"w2">>, <<"w3">>>>, bf |-> <<<<"f1">>, <<"f2">>, <<"f3">>>>]

\* Short and without source, nuance or role: sound once the curated additions are made.
Bare == [Sound("bare") EXCEPT !.e = <<"bare", "note">>, !.w = <<>>, !.j = <<"lab">>]

Drafts ==
  [alpha |-> Sound("alpha"), beta |-> Sound("beta"),
   \* with a blank among the wrong answers
   gamma |-> [Sound("gamma") EXCEPT !.b = <<<<>>, <<"w1">>, <<"w2">>, <<"w3">>>>],
   \* asks alpha's question again
   delta |-> [Sound("delta") EXCEPT !.q = <<"why", "the", "alpha", "note">>],
   bare |-> Bare]

Names == DOMAIN Drafts

Request(ecosystem) == [ecosystem |-> ecosystem, compares |-> FALSE, wantsCode |-> FALSE]

Topics == {"plain", "curated"}
Normal(topic, place, name) == Gate!Normalize(Request(topic), place, Drafts[name])
=============================================================================
