----------------------------- MODULE MCChatRoom -----------------------------
(* ChatRoom for TLC: one friend and one group. *)
EXTENDS ChatRoom

MCFriends == {1}
MCGroups == {2}

=============================================================================
