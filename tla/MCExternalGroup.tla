--------------------------- MODULE MCExternalGroup ---------------------------
(***************************************************************************)
(* Instances of ExternalGroup: a group of two that may grow to three.      *)
(***************************************************************************)
EXTENDS ExternalGroup

Leaf(id, caps) ==
    [id |-> id, key |-> <<id, 0>>, caps |-> caps, cred |-> "basic", creds |-> {"basic"}]

MCCredentialType == {"basic"}

Extensions(caps, names) ==
    [caps |-> caps, senders |-> [i \in DOMAIN names |-> [id |-> names[i], cred |-> "basic"]]]

MCFirstInfo == [epoch |-> 0, ext |-> Extensions(FALSE, <<"other", "server">>),
                confirmed |-> <<>>, tree |-> <<Leaf("a", TRUE), Leaf("b", FALSE)>>,
                tag |-> <<"tag", 0>>]

MCJoiners == {Leaf("c", TRUE)}

Add == [type |-> "Add", source |-> "KeyPackage", valid |-> TRUE, leaf |-> Leaf("d", TRUE)]

RemoveLeaf(i) == [type |-> "Remove", valid |-> TRUE, target |-> i]

Senders(names, caps) ==
    [type |-> "GroupContextExtensions", valid |-> TRUE, ext |-> Extensions(caps, names)]

ReInit == [type |-> "ReInit", valid |-> TRUE]

Psk == [type |-> "Psk", valid |-> TRUE, psk |-> "psk"]

Custom == [type |-> "Custom", valid |-> TRUE]

Setup(encrypt, path, cache, jitter, proposals, values, maxLog, maxFaults) ==
    [encrypt |-> encrypt, path |-> path, cache |-> cache, jitter |-> jitter,
     proposals |-> proposals, values |-> values, maxLog |-> maxLog, maxFaults |-> maxFaults]

ByReference == {Add, RemoveLeaf(2), Senders(<<"server">>, TRUE)}

Exchange == <<RemoveLeaf(2), Add, Senders(<<"server">>, FALSE)>>

MCSetups ==
    {Setup(FALSE, FALSE, TRUE, <<>>, ByReference, {<<>>, <<ReInit>>}, 3, 0),
     Setup(FALSE, FALSE, TRUE, <<>>, {Add}, {<<>>}, 4, 0),
     Setup(FALSE, FALSE, TRUE, <<>>, {Add}, {<<>>}, 3, 1),
     Setup(FALSE, TRUE, FALSE, <<>>, {Senders(<<"server">>, TRUE)}, {<<>>, Exchange}, 3, 1),
     Setup(TRUE, FALSE, TRUE, <<>>, {Psk, Custom}, {<<>>, Exchange}, 3, 0)}

MCJitter == {Setup(FALSE, FALSE, TRUE, <<1>>, {}, {<<>>}, 2, 0)}
=============================================================================
