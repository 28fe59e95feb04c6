------------------------------- MODULE Sockets -------------------------------
(***************************************************************************)
(* Sessions together with the WebSockets that are opened on their access   *)
(* tokens: JWTAuthMiddleware of config/middleware.py and the first check   *)
(* of ChatConsumer.connect.                                                *)
(*                                                                         *)
(* An HTTP request presents its access token every time, and               *)
(* JWTAuthentication also asks whether the user is active (SignedIn).  A   *)
(* socket presents it once, at the handshake, which asks for a token that  *)
(* is not expired and for a user row, and for nothing else.                *)
(***************************************************************************)
EXTENDS Sessions

CONSTANT Connections

VARIABLE sockets    \* sockets[c]: the user whose socket c is, or NoUser

socketVars == <<registered, active, deleted, owner, alive, outstanding, detached, blacklisted,
                access, request, loggedOut, wiped, sockets>>

\* get_user_from_token, then connect for a room that the user takes part in.
Handshake(c, t) ==
    /\ sockets[c] = NoUser
    /\ t \in access
    /\ owner[t] \in registered
    /\ sockets' = [sockets EXCEPT ![c] = owner[t]]
    /\ UNCHANGED vars

\* The client, or the end of the process, closes the socket; nothing else does.
Close(c) ==
    /\ sockets[c] # NoUser
    /\ sockets' = [sockets EXCEPT ![c] = NoUser]
    /\ UNCHANGED vars

SocketsInit == Init /\ sockets = [c \in Connections |-> NoUser]

SocketsNext ==
    \/ Next /\ UNCHANGED sockets
    \/ \E c \in Connections : Close(c) \/ \E t \in Tokens : Handshake(c, t)

SocketsSpec == SocketsInit /\ [][SocketsNext]_socketVars

\* Time passes: an access token reaches its exp claim, and a refresh token its.
FairSocketsSpec ==
    /\ SocketsSpec
    /\ \A t \in Tokens : /\ WF_socketVars(ExpireAccess(t) /\ UNCHANGED sockets)
                         /\ WF_socketVars(ExpireRefresh(t) /\ UNCHANGED sockets)

-----------------------------------------------------------------------------
(* Properties. *)

Opens(c, u) == sockets[c] = NoUser /\ sockets'[c] = u

\* A user who is, from some time on, no longer active opens no more sockets
\* in the end: the handshake lets him in on what access tokens he has or gets
\* by refreshing, but he gets no new refresh token, and those he has expire.
\* Active users log in, and open sockets, for as long as they like.
InactiveOpensNoMore ==
    \A u \in Users :
        <>[](u \notin active) => <>[][\A c \in Connections : ~Opens(c, u)]_socketVars
=============================================================================
