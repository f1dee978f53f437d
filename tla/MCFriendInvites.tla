--------------------------- MODULE MCFriendInvites ---------------------------
\* A small instance of FriendInvites: two users, either of whom may be host
\* or guest, two invites that draw the same code, and two joins, which may be
\* the same guest's from two pages. One user comes from the ranked queue.
EXTENDS FriendInvites, TLC

CONSTANTS a, b, c1

MCUsers == {a, b}
MCLeavers == {a}
MCCodes == {c1}
=============================================================================
