----------------------------- MODULE MCPushService -----------------------------
EXTENDS PushService, TLC

CONSTANTS Alice, Bob, email, mailbox, d1, d2

MCOwner == [i \in Ids |-> i[1]]

Own == [known |-> TRUE, member_of |-> {}, access_to |-> <<>>]

MCOwnToken == {Own}

\* A shared mailbox, a group the account is a member of, an unknown account.
MCTokens == {Own, [known |-> TRUE, member_of |-> {Bob}, access_to |-> <<>>],
             [known |-> TRUE, member_of |-> {}, access_to |-> (Bob :> {email})], NoToken}

MCNothing == {}
MCEmail == {{email}}
MCEmailMailbox == {{email, mailbox}}
=============================================================================
