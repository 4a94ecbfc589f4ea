------------------------------ MODULE OrderFeed ------------------------------
(***************************************************************************)
(* How the events of OrderNotices reach a client: the rooms of             *)
(* TradesGateway, and the messages useWebSocket.ts sends to enter them.    *)
(* A client is a program with a socket in the namespace of the gateway.    *)
(***************************************************************************)
EXTENDS OrderNotices

CONSTANT Clients

VARIABLES
  rooms,       \* the rooms each socket is in
  subscribed,  \* the clients that have asked for the orders on their present connection
  last         \* the last emission: type, who was subscribed then, and what reached each socket

vars == <<row, disputed, req, word, rooms, subscribed, last>>

Trade(o) == <<"trade", o>>
User(u) == <<"user", u>>
OrdersRoom == <<"orders">>
AdminsRoom == <<"admins">>

Init ==
  /\ NoticeInit
  /\ rooms = [c \in Clients |-> {}]
  /\ subscribed = {}
  /\ last = [type |-> "none", subscribed |-> {}, heard |-> [c \in Clients |-> {}]]

-----------------------------------------------------------------------------
(* TradesGateway.  A message without a handler is dropped.                 *)

handlers == {"join-trade", "leave-trade", "trade-message", "get-room-users"}

SetRooms(c, in) ==
  /\ rooms' = [rooms EXCEPT ![c] = in]
  /\ UNCHANGED <<noticeVars, last>>

\* Any user id goes with a trade.  The id of an order is known once its row is committed.
handleJoinTrade(c) ==
  /\ \E o \in Orders, u \in Users :
       row[o] # NoRow /\ SetRooms(c, rooms[c] \cup {Trade(o), User(u)})
  /\ UNCHANGED subscribed

\* The user's room is not left.
handleLeaveTrade(c) ==
  /\ \E o \in Orders : SetRooms(c, rooms[c] \ {Trade(o)})
  /\ UNCHANGED subscribed

\* Sends "join" or "leave" with the name of the room.
subscribeToOrders(c) ==
  /\ SetRooms(c, IF "join" \in handlers THEN rooms[c] \cup {OrdersRoom} ELSE rooms[c])
  /\ subscribed' = subscribed \cup {c}
unsubscribeFromOrders(c) ==
  /\ SetRooms(c, IF "leave" \in handlers THEN rooms[c] \ {OrdersRoom} ELSE rooms[c])
  /\ subscribed' = subscribed \ {c}

\* A socket that reconnects is in no room, and its client does not join any again by itself.
Reconnect(c) ==
  /\ SetRooms(c, {})
  /\ subscribed' = subscribed \ {c}

\* What an event n of order o brings to a socket.
Emitted(c, o, n) ==
  (IF {Trade(o), OrdersRoom} \cap rooms[c] # {} THEN {n.type} ELSE {})
    \cup (IF {User(u) : u \in n.to} \cap rooms[c] # {} THEN {"notification"} ELSE {})
    \cup (IF n.type = "DISPUTE_CREATED" /\ AdminsRoom \in rooms[c]
          THEN {"dispute-created"} ELSE {})

\* Notify, with its emission.
Emit(w) ==
  LET n == Notice(req[w]) IN
  /\ Notify(w)
  /\ last' = [type |-> n.type, subscribed |-> subscribed,
              heard |-> [c \in Clients |-> Emitted(c, req[w].order, n)]]
  /\ UNCHANGED <<rooms, subscribed>>

Next ==
  \/ \E w \in Workers : (Silent(w) /\ UNCHANGED <<rooms, subscribed, last>>) \/ Emit(w)
  \/ \E c \in Clients :
       \/ handleJoinTrade(c) \/ handleLeaveTrade(c) \/ Reconnect(c)
       \/ subscribeToOrders(c) \/ unsubscribeFromOrders(c)

Spec == Init /\ [][Next]_vars

-----------------------------------------------------------------------------
\* What docs/WEBSOCKET.md:147-148 and 166-169 promise: a new order is sent to the common room
\* of the orders, where the clients that follow the list hear of it and refresh the list.
NewOrdersAreHeard ==
  last.type = "ORDER_CREATED" =>
    \A c \in last.subscribed : "ORDER_CREATED" \in last.heard[c]
=============================================================================
