------------------------- MODULE MCTutorArtifactCache -------------------------
(* TutorArtifactCache with two lessons, four good contexts and every kind of  *)
(* refusal, for TLC.                                                         *)
EXTENDS TutorArtifactCache, TLC

MCSources == "address" :> {"zip-0316"} @@ "request" :> {"zip-0321"}
MCAnchors == "address" :> {"receiver", "network"} @@ "request" :> {"zatoshi", "required"}
MCText == "address" :> <<"receiver", "network">> @@ "request" :> <<"zatoshi", "required">>
MCCheckpoint == "address" :> <<"why">> @@ "request" :> <<"when">>

Context(lesson, version, mode, prompt, output) ==
  [lesson |-> lesson, version |-> version, mode |-> mode, prompt |-> prompt, output |-> output]

(* Four good contexts, of which the first two have one key, and one for each  *)
(* way to be outside the boundary.                                           *)
MCContextList ==
  <<Context("address", "v1", "hint", <<"p", "nul">>, <<>>),
    Context("address", "v1", "hint", <<"p">>, <<"nul">>),
    Context("request", "v1", "hint", <<"p">>, <<>>),
    Context("address", "v1", "hint", <<"p">>, <<>>),
    Context("address", "v0", "hint", <<"p">>, <<>>),
    Context("address", "v1", "quiz", <<"p">>, <<>>),
    Context("address", "v1", "hint", <<>>, <<>>),
    Context("address", "v1", "hint", <<"p", "p", "p">>, <<>>),
    Context("address", "v1", "hint", <<"p">>, <<"o", "o", "o">>),
    Context("unknown", "v1", "hint", <<"p">>, <<>>)>>

MCContexts == {MCContextList[i] : i \in DOMAIN MCContextList}

Artifact(lesson, text, cites) ==
  [lesson |-> lesson, version |-> "v1", mode |-> "hint", answer |-> text, cites |-> cites,
   next |-> <<"next">>, origin |-> "Provider"]

MCCandidates ==
  {Artifact("address", <<"network", "receiver">>, {"zip-0316"}),
   Artifact("request", <<"required", "zatoshi">>, {"zip-0321"}),
   Artifact("address", <<"network", "receiver">>, {"zip-0316", "blog"}),
   Artifact("address", <<"network">>, {"zip-0316"}),
   Artifact("address", <<"network", "receiver", "overview">>, {"zip-0316"}),
   Artifact("address", <<"network", "receiver", "network", "receiver">>, {"zip-0316"}),
   [Artifact("address", <<"network", "receiver">>, {"zip-0316"}) EXCEPT !.next = <<>>]}

(* The digests are in the order of that list. *)
MCRank ==
  [k \in Keys |-> CHOOSE i \in DOMAIN MCContextList :
     /\ KeyOf(MCContextList[i]) = k
     /\ \A j \in 1..(i - 1) : KeyOf(MCContextList[j]) # k]

(* Calls are only compared. *)
Symmetry == Permutations(Calls)
===============================================================================
