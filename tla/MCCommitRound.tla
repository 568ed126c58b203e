--------------------------- MODULE MCCommitRound ---------------------------
(***************************************************************************)
(* Small groups and small sets of proposals for CommitRound.               *)
(***************************************************************************)
EXTENDS CommitRound

Leaf(id, key, caps) ==
    [id |-> id, key |-> key, caps |-> caps, cred |-> "basic", creds |-> {"basic"}]

Both(leaf) == [leaf EXCEPT !.creds = {"basic", "x509"}]

X509(leaf) == [leaf EXCEPT !.creds = {"basic", "x509"}, !.cred = "x509"]

Member(i) == [kind |-> "Member", index |-> i]

Outsider(kind) == [kind |-> kind, index |-> 0]

AddOf(ref, sender, leaf, valid) ==
    [type |-> "Add", ref |-> ref, sender |-> sender, byRef |-> TRUE, leaf |-> leaf,
     valid |-> valid, source |-> "KeyPackage", notAfter |-> 1]

UpdateOf(ref, i, leaf) ==
    [type |-> "Update", ref |-> ref, sender |-> Member(i), byRef |-> TRUE, leaf |-> leaf,
     valid |-> TRUE, source |-> "Update"]

RemoveOf(ref, sender, i) ==
    [type |-> "Remove", ref |-> ref, sender |-> sender, byRef |-> TRUE, target |-> i]

Other(type, ref, sender, valid, psk, e) ==
    [type |-> type, ref |-> ref, sender |-> sender, byRef |-> TRUE, valid |-> valid,
     psk |-> psk, ext |-> [caps |-> e, senders |-> <<>>]]

Value(p) == [p EXCEPT !.byRef = FALSE, !.sender = Outsider("NewMemberCommit")]

A == Leaf("a", "ka", TRUE)
B == Leaf("b", "kb", TRUE)
C == Leaf("c", "kc", FALSE)
D == Leaf("d", "kd", TRUE)

Full == {[byRef |-> TRUE, indexed |-> TRUE]}

Scenario(t, proposals, values, builds, times) ==
    [tree |-> t, proposals |-> proposals, values |-> values, builds |-> builds, times |-> times]

Three == <<A, B, C>>

\* Adds, updates and removes.
MCMembership ==
    {AddOf(1, Member(1), D, TRUE),
     AddOf(2, Outsider("External"), Leaf("d", "kd2", TRUE), TRUE),
     AddOf(3, Outsider("NewMemberProposal"), Leaf("e", "ke", TRUE), FALSE),
     UpdateOf(4, 1, Leaf("a", "ka2", TRUE)),
     UpdateOf(5, 3, Leaf("c", "kb", FALSE)),
     UpdateOf(6, 3, Leaf("b", "kb2", TRUE)),
     UpdateOf(7, 2, Leaf("b", "ka", TRUE)),
     RemoveOf(8, Member(2), 3),
     RemoveOf(9, Outsider("External"), 3),
     RemoveOf(10, Member(1), 2)}

MCMembershipValues ==
    {<<>>,
     <<Value(RemoveOf(20, Member(1), 2))>>,
     <<Value(RemoveOf(21, Member(1), 3)), Value(AddOf(22, Member(1), Leaf("c", "kc2", TRUE), TRUE))>>,
     <<Value(AddOf(23, Member(1), D, TRUE))>>}

\* The rest: extensions that not every leaf supports, re-initialization, PSKs
\* and custom proposals, with a member that lacks the capability.
Psk(ref, id, valid) == Other("Psk", ref, Member(1), valid, id, FALSE)

Gce(ref, valid, e) == Other("GroupContextExtensions", ref, Member(1), valid, 0, e)

ReInit(ref, valid) == Other("ReInit", ref, Member(2), valid, 0, FALSE)

Custom(ref) == Other("Custom", ref, Member(2), TRUE, 0, FALSE)

MCGroup ==
    {Gce(1, TRUE, TRUE), Gce(2, TRUE, FALSE), Gce(3, FALSE, TRUE),
     ReInit(4, TRUE), ReInit(5, TRUE), ReInit(6, FALSE),
     Psk(7, 1, TRUE), Psk(8, 1, TRUE), Psk(9, 2, FALSE), Custom(10),
     AddOf(11, Outsider("External"), Leaf("e", "ke", FALSE), TRUE),
     UpdateOf(12, 3, Leaf("c", "kc2", TRUE)),
     RemoveOf(13, Member(1), 3)}

MCGroupValues ==
    {<<>>, <<Value(Psk(20, 1, TRUE))>>, <<Value(ReInit(21, TRUE))>>,
     <<Value(Gce(22, TRUE, TRUE))>>, <<Value(Custom(23))>>,
     <<Value(RemoveOf(24, Member(1), 3))>>}

\* Credential types: a member that supports basic credentials only and members
\* that support both; external senders with an X.509 credential; a key package
\* that expires between the two times of a commit; a leaf of the wrong source.
Senders(ref) ==
    [Gce(ref, TRUE, FALSE) EXCEPT !.ext.senders = <<[id |-> "s", cred |-> "x509"]>>]

MCCredentials ==
    {UpdateOf(1, 1, Both(Leaf("a", "ka2", TRUE))),
     UpdateOf(2, 2, Leaf("b", "kb2", FALSE)),
     UpdateOf(3, 2, X509(Leaf("b", "kb3", FALSE))),
     [UpdateOf(4, 3, Both(Leaf("c", "kc2", TRUE))) EXCEPT !.source = "KeyPackage"],
     AddOf(5, Outsider("External"), X509(D), TRUE),
     [AddOf(6, Outsider("NewMemberProposal"), Both(Leaf("e", "ke", TRUE)), TRUE) EXCEPT !.notAfter = 2],
     AddOf(7, Member(2), Leaf("e", "ke2", FALSE), TRUE),
     Senders(8),
     RemoveOf(9, Member(2), 1)}

MCCredentialValues ==
    {<<>>,
     <<Value(Senders(20))>>,
     <<Value(RemoveOf(21, Member(2), 1)), Value(AddOf(22, Member(2), X509(D), TRUE))>>,
     <<Value([AddOf(23, Member(2), Both(Leaf("e", "ke3", TRUE)), TRUE) EXCEPT !.notAfter = 2])>>,
     <<Value(Gce(24, TRUE, TRUE)), Value(AddOf(25, Member(2), Leaf("e", "ke4", FALSE), TRUE))>>}

\* Membership in a full tree and in one with a blank in the middle; credentials;
\* the rest.
MCScenarios ==
    {Scenario(Three, MCMembership, MCMembershipValues, Full, {1}),
     Scenario(<<A, Blank, B, D>>, MCMembership, MCMembershipValues, Full, {1}),
     Scenario(<<A, Both(B), Both(C)>>, MCCredentials, MCCredentialValues, Build, {1, 2}),
     Scenario(Three, MCGroup, MCGroupValues, Full, {1})}

\* A member is removed and updates itself, while another updates itself.
MCUpdateOfRemoved ==
    {Scenario(Three,
              {UpdateOf(1, 1, Leaf("a", "ka2", TRUE)), UpdateOf(2, 3, Leaf("c", "kc2", FALSE)),
               RemoveOf(3, Member(1), 3)},
              {<<>>}, Full, {1})}

MCExternals == {D, Leaf("b", "kb3", TRUE)}

MCCredentialType == {"basic", "x509"}
=============================================================================
