----------------------------- MODULE MCChatTurns -----------------------------
(* Instances of ChatTurns for TLC. *)
EXTENDS ChatTurns, TLC

CONSTANTS alice, c1, c2

OneUser   == {alice}
OneChat   == {c1}
TwoChats  == {c1, c2}
AllAlice1 == (c1 :> alice)
AllAlice2 == (c1 :> alice) @@ (c2 :> alice)
NoFaults  == {}
AllFaults == RepoCalls

Interchangeable ==
    Permutations(Workers) \cup Permutations(Requests) \cup Permutations(Chats)
=============================================================================
