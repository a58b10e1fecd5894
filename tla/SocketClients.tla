---------------------------- MODULE SocketClients ---------------------------
(***************************************************************************)
(* The two websocket clients of the host's protocol side by side: that of  *)
(* the browser kernel and that of a served page.  They share no state;     *)
(* what is required of one is required of the other.                       *)
(***************************************************************************)
EXTENDS WireClient, PageTransport

\* A call resolves with the answer to its own request, in the browser kernel and in a
\* page (bridge.ts:137-193, transport.js:186-237): over reconnects, several sockets,
\* answers out of order, and reloads that start the ids at 1 again.
OwnReply == RightReply /\ PageRightReply

\* A call waits exactly while one entry of its connection's pending map holds it, and no
\* entry survives a drop, a close or a reload (bridge.ts:162-172, transport.js:163-169).
NoEntryLeft == PendingExact /\ PagePendingExact

\* A call gets its own answer, and exactly the calls that wait have an entry, on every
\* socket of the kernel and in every page (bridge.ts:137-193, transport.js:163-237).
CallsExact == OwnReply /\ NoEntryLeft

\* While a socket is open the host holds for it exactly the subscriptions the client
\* wants, also after a reconnect (bridge.ts:96-101, transport.js:174-185).
HostKnows == HostAgrees /\ PageHostAgrees

\* Every call (there are finitely many) ends, by an answer, an error or a disconnect;
\* except one that waited for the `ready` of a socket that did not open
\* (bridge.ts:85-89,175), and one whose `error` frame reached a page, which reads only
\* replies (transport.js:186-205).
Settled == <>[](NoneWaits /\ PageNoneWaits)
=============================================================================
