--------------------------- MODULE Clients_proofs ---------------------------
(***************************************************************************)
(* Proofs about the two specifications of what the browsers see: Realtime, *)
(* the presence on the invigilator's dashboard, and Autosave, the exam page*)
(* of the candidate.  They share no variable.                              *)
(***************************************************************************)
EXTENDS Autosave, Realtime, FiniteSetTheorems, TLAPS

(***************************************************************************)
(* Realtime: types, and the registry of connections.                       *)
(***************************************************************************)
Members(sq) == {sq[i] : i \in DOMAIN sq}
Repeats(sq) == \E i, j \in DOMAIN sq : sq[i] = sq[j] /\ i # j

\* A connection that leaves the registry leaves one place less, and nothing else.
LEMMA WithoutRemoves ==
    ASSUME NEW S, NEW sq \in Seq(S), ~Repeats(sq), NEW s
    PROVE  /\ Without(sq, s) \in Seq(S) /\ ~Repeats(Without(sq, s))
           /\ Members(Without(sq, s)) = Members(sq) \ {s}
           /\ Len(Without(sq, s)) = IF s \in Members(sq) THEN Len(sq) - 1 ELSE Len(sq)
<1>1. CASE s \notin Members(sq) BY <1>1 DEF Without, Members
<1>2. CASE s \in Members(sq)
  <2>. DEFINE at == CHOOSE i \in DOMAIN sq : sq[i] = s
              w == [i \in 1 .. Len(sq) - 1 |-> IF i < at THEN sq[i] ELSE sq[i + 1]]
  <2>1. at \in DOMAIN sq /\ sq[at] = s BY <1>2 DEF Members
  <2>2. Without(sq, s) = w BY <1>2 DEF Without, Members
  <2>3. at \in 1 .. Len(sq) /\ Len(sq) \in Nat BY <2>1
  <2>. HIDE DEF at
  <2>4. w \in Seq(S) /\ Len(w) = Len(sq) - 1 /\ DOMAIN w = 1 .. Len(sq) - 1 BY <2>3
  <2>5. ~Repeats(w) BY <2>3, <2>4 DEF Repeats
  <2>6. ASSUME NEW i \in DOMAIN w PROVE w[i] \in Members(sq) \ {s}
    BY <2>1, <2>3, <2>4 DEF Repeats, Members
  <2>7. ASSUME NEW x \in Members(sq) \ {s} PROVE x \in Members(w)
    <3>1. PICK i \in DOMAIN sq : sq[i] = x /\ i # at BY <2>1 DEF Members
    <3>2. CASE i < at BY <2>3, <2>4, <3>1, <3>2 DEF Members
    <3>3. CASE i > at
      <4>1. i - 1 \in DOMAIN w /\ w[i - 1] = sq[i] BY <2>3, <2>4, <3>1, <3>3
      <4>. QED BY <3>1, <4>1 DEF Members
    <3>4. i < at \/ i > at BY <2>3, <3>1
    <3>. QED BY <3>2, <3>3, <3>4
  <2>. HIDE DEF w
  <2>8. Members(w) = Members(sq) \ {s} BY <2>6, <2>7 DEF Members
  <2>. QED BY <1>2, <2>2, <2>4, <2>5, <2>8
<1>. QED BY <1>1, <1>2

\* One more connection, the youngest.
LEMMA AppendAdds ==
    ASSUME NEW S, NEW sq \in Seq(S), ~Repeats(sq), NEW s \in S \ Members(sq)
    PROVE  /\ Append(sq, s) \in Seq(S) /\ ~Repeats(Append(sq, s))
           /\ Members(Append(sq, s)) = Members(sq) \cup {s}
           /\ Len(Append(sq, s)) = Len(sq) + 1
<1>. DEFINE w == Append(sq, s)
<1>1. /\ w \in Seq(S) /\ Len(w) = Len(sq) + 1 /\ DOMAIN sq = 1 .. Len(sq)
      /\ \A i \in DOMAIN w : w[i] = IF i = Len(sq) + 1 THEN s ELSE sq[i]
  OBVIOUS
<1>2. DOMAIN w = DOMAIN sq \cup {Len(sq) + 1} /\ Len(sq) + 1 \notin DOMAIN sq BY <1>1
<1>. HIDE DEF w
<1>3. ~Repeats(w) BY <1>1, <1>2 DEF Repeats, Members
<1>4. Members(w) = Members(sq) \cup {s} BY <1>1, <1>2 DEF Members
<1>. QED BY <1>1, <1>3, <1>4 DEF w

\* The open connections that no set counts, and those that were made and are no more.
Uncounted == {s \in Sockets : Open(s) /\ s \notin Members(age[socket[s].node])}
Ended == {s \in Sockets : socket[s].state \in {"gone", "closed"}}
Counted == Cardinality(Uncounted) <= Cardinality(Ended)

\* The registered connections of a node are open ones, and never more than allowed (one
\* more if none is allowed).  They are all the open ones, if more than one is allowed;
\* otherwise each connection that was not counted replaced another.
Registry ==
    /\ \A n \in Nodes :
          /\ age[n] \in Seq(Sockets) /\ ~Repeats(age[n])
          /\ Len(age[n]) <= MaxConnections \/ Len(age[n]) <= 1
          /\ \A s \in Sockets : s \in Members(age[n]) => Open(s) /\ socket[s].node = n
          /\ MaxConnections > 1 =>
               \A s \in Sockets : Open(s) /\ socket[s].node = n => s \in Members(age[n])
    /\ Counted

LEMMA UncountedFinite ==
    /\ IsFiniteSet(Uncounted) /\ IsFiniteSet(Ended)
    /\ Cardinality(Uncounted) \in Nat /\ Cardinality(Ended) \in Nat
<1>1. PICK U, E : U = Uncounted /\ E = Ended OBVIOUS
<1>2. U \in SUBSET Sockets /\ E \in SUBSET Sockets BY <1>1 DEF Uncounted, Ended
<1>3. IsFiniteSet(U) /\ IsFiniteSet(E) BY <1>2, RealtimeAssumption, FS_Subset
<1>. QED BY <1>1, <1>3, FS_CardinalityType

\* No more connections go uncounted, and none of the ended ones comes back.
LEMMA CountedKept ==
    ASSUME Counted, Uncounted' \subseteq Uncounted, Ended \subseteq Ended'
    PROVE  Counted'
<1>1. PICK U, E, V, F : U = Uncounted /\ E = Ended /\ V = Uncounted' /\ F = Ended' OBVIOUS
<1>2. F \in SUBSET Sockets BY <1>1 DEF Ended
<1>3. IsFiniteSet(U) /\ IsFiniteSet(F) BY <1>1, <1>2, UncountedFinite, RealtimeAssumption, FS_Subset
<1>4. V \in SUBSET U /\ E \in SUBSET F BY <1>1
<1>5. IsFiniteSet(V) /\ Cardinality(V) <= Cardinality(U) BY <1>3, <1>4, FS_Subset
<1>6. IsFiniteSet(E) /\ Cardinality(E) <= Cardinality(F) BY <1>3, <1>4, FS_Subset
<1>7. /\ Cardinality(U) \in Nat /\ Cardinality(E) \in Nat
      /\ Cardinality(V) \in Nat /\ Cardinality(F) \in Nat
  BY <1>3, <1>5, <1>6, FS_CardinalityType
<1>8. Cardinality(U) <= Cardinality(E) BY <1>1 DEF Counted
<1>9. Cardinality(V) <= Cardinality(F) BY <1>5, <1>6, <1>7, <1>8
<1>. QED BY <1>1, <1>9 DEF Counted

\* One more connection goes uncounted, and one more has ended.
LEMMA CountedGrows ==
    ASSUME Counted, NEW s \in Sockets, NEW y \in Sockets,
           Uncounted' \subseteq Uncounted \cup {s}, Ended \cup {y} \subseteq Ended', y \notin Ended
    PROVE  Counted'
<1>1. PICK U, E, V, F : U = Uncounted /\ E = Ended /\ V = Uncounted' /\ F = Ended' OBVIOUS
<1>2. F \in SUBSET Sockets BY <1>1 DEF Ended
<1>3. IsFiniteSet(U) /\ IsFiniteSet(E) /\ IsFiniteSet(F)
  BY <1>1, <1>2, UncountedFinite, RealtimeAssumption, FS_Subset
<1>4. /\ IsFiniteSet(U \cup {s})
      /\ Cardinality(U \cup {s}) = IF s \in U THEN Cardinality(U) ELSE Cardinality(U) + 1
  BY <1>3, FS_AddElement
<1>5. y \notin E BY <1>1
<1>6. Cardinality(E \cup {y}) = Cardinality(E) + 1 BY <1>3, <1>5, FS_AddElement
<1>7. V \in SUBSET (U \cup {s}) /\ (E \cup {y}) \in SUBSET F BY <1>1
<1>8. IsFiniteSet(V) /\ Cardinality(V) <= Cardinality(U \cup {s}) BY <1>4, <1>7, FS_Subset
<1>9. Cardinality(E \cup {y}) <= Cardinality(F) BY <1>3, <1>7, FS_Subset
<1>10. /\ Cardinality(U) \in Nat /\ Cardinality(E) \in Nat
       /\ Cardinality(V) \in Nat /\ Cardinality(F) \in Nat
  BY <1>3, <1>8, FS_CardinalityType
<1>11. Cardinality(U) <= Cardinality(E) BY <1>1 DEF Counted
<1>12. Cardinality(V) <= Cardinality(F)
  BY <1>4, <1>6, <1>8, <1>9, <1>10, <1>11
<1>. QED BY <1>1, <1>12 DEF Counted

\* The registry says nothing of other variables.
LEMMA RegistryUnchanged == Registry /\ UNCHANGED <<socket, age>> => Registry'
<1>. SUFFICES ASSUME Registry, UNCHANGED <<socket, age>> PROVE Registry' OBVIOUS
<1>1. Uncounted' \subseteq Uncounted /\ Ended \subseteq Ended' BY DEF Uncounted, Ended, Open
<1>2. Counted' BY <1>1, CountedKept DEF Registry
<1>. QED BY <1>2 DEF Registry, Open

\* What the handlers write into a context is a context.
LEMMA ContextTypes ==
    /\ NoSocket \in Socket
    /\ \A c \in Socket :
         /\ Authorized(c) \in Socket /\ Join(c) \in Socket
         /\ Authorized(c).state = c.state /\ Authorized(c).node = c.node
         /\ Join(c).state = c.state /\ Join(c).node = c.node
         /\ [c EXCEPT !.state = "gone", !.joined = FALSE] \in Socket
         /\ \A p \in BOOLEAN :
              /\ [c EXCEPT !.joined = p] \in Socket /\ [c EXCEPT !.pending = p] \in Socket
              /\ [NoSocket EXCEPT !.state = "closed", !.pending = p] \in Socket
<1>1. NoSocket \in Socket BY DEF NoSocket, Socket, Nodes
<1>2. ASSUME NEW c \in Socket
      PROVE  /\ Authorized(c) \in Socket /\ Authorized(c).state = c.state
             /\ Authorized(c).node = c.node
  BY DEF Socket, Authorized
<1>3. ASSUME NEW c \in Socket
      PROVE  Join(c) \in Socket /\ Join(c).state = c.state /\ Join(c).node = c.node
  BY DEF Socket, Join
<1>4. ASSUME NEW c \in Socket
      PROVE  /\ [c EXCEPT !.state = "gone", !.joined = FALSE] \in Socket
             /\ \A p \in BOOLEAN :
                  [c EXCEPT !.joined = p] \in Socket /\ [c EXCEPT !.pending = p] \in Socket
  BY DEF Socket
<1>5. \A p \in BOOLEAN : [NoSocket EXCEPT !.state = "closed", !.pending = p] \in Socket
  BY <1>1 DEF Socket
<1>. QED BY <1>1, <1>2, <1>3, <1>4, <1>5

\* A handler that changes nothing of a connection that its registration depends on.
LEMMA ContextChange ==
    ASSUME Registry, socket \in [Sockets -> Socket], UNCHANGED age,
           NEW s \in Sockets, NEW c \in Socket, socket' = [socket EXCEPT ![s] = c],
           c.state = socket[s].state, c.node = socket[s].node
    PROVE  Registry' /\ socket' \in [Sockets -> Socket]
<1>1. \A z \in Sockets : socket'[z].state = socket[z].state /\ socket'[z].node = socket[z].node
  OBVIOUS
<1>2. Uncounted' \subseteq Uncounted /\ Ended \subseteq Ended'
  BY <1>1 DEF Uncounted, Ended, Open
<1>3. Counted' BY <1>2, CountedKept DEF Registry
<1>. QED BY <1>1, <1>3 DEF Registry, Open

\* A connection is unregistered.
LEMMA Unregistering ==
    ASSUME Registry, socket \in [Sockets -> Socket], age \in [Nodes -> Seq(Sockets)],
           NEW s \in Sockets, NEW c \in Socket, socket' = [socket EXCEPT ![s] = c],
           c.state \in {"gone", "closed"},
           age' = [age EXCEPT ![socket[s].node] = Without(@, s)]
    PROVE  /\ Registry' /\ socket' \in [Sockets -> Socket] /\ age' \in [Nodes -> Seq(Sockets)]
<1>. DEFINE n == socket[s].node
<1>1. n \in Nodes BY DEF Socket
<1>2. /\ Without(age[n], s) \in Seq(Sockets) /\ ~Repeats(Without(age[n], s))
      /\ Members(Without(age[n], s)) = Members(age[n]) \ {s}
      /\ Len(Without(age[n], s)) <= Len(age[n]) /\ Len(Without(age[n], s)) \in Nat
  BY <1>1, WithoutRemoves DEF Registry
<1>3. \A k \in Nodes : Len(age[k]) \in Nat BY DEF Registry
<1>4. age' \in [Nodes -> Seq(Sockets)] /\ age'[n] = Without(age[n], s)
      /\ \A k \in Nodes \ {n} : age'[k] = age[k]
  BY <1>1, <1>2
<1>5. ASSUME NEW k \in Nodes
      PROVE  /\ age'[k] \in Seq(Sockets) /\ ~Repeats(age'[k])
             /\ Len(age'[k]) <= MaxConnections \/ Len(age'[k]) <= 1
             /\ Members(age'[k]) = Members(age[k]) \ {s}
  <2>1. CASE k = n
    <3>1. Len(age[n]) <= MaxConnections \/ Len(age[n]) <= 1 BY <1>1 DEF Registry
    <3>2. Len(age[n]) \in Nat /\ MaxConnections \in Nat BY <1>1, <1>3, RealtimeAssumption
    <3>3. age'[k] = Without(age[n], s) BY <1>4, <2>1
    <3>. HIDE DEF n
    <3>4. Len(age'[k]) <= MaxConnections \/ Len(age'[k]) <= 1 BY <1>2, <3>1, <3>2, <3>3
    <3>. QED BY <1>2, <2>1, <3>3, <3>4
  <2>2. CASE k # n
    <3>1. s \notin Members(age[k]) BY <2>2 DEF Registry
    <3>. QED BY <1>4, <2>2, <3>1 DEF Registry
  <2>. QED BY <2>1, <2>2
<1>6. \A z \in Sockets : socket'[z] = IF z = s THEN c ELSE socket[z] OBVIOUS
<1>7. ASSUME NEW k \in Nodes, NEW z \in Sockets
      PROVE  /\ z \in Members(age'[k]) => socket'[z].state = "open" /\ socket'[z].node = k
             /\ MaxConnections > 1 /\ socket'[z].state = "open" /\ socket'[z].node = k
                  => z \in Members(age'[k])
  BY <1>5, <1>6 DEF Registry, Open
<1>8. Counted'
  <2>1. ASSUME NEW z \in Uncounted' PROVE z \in Uncounted
    <3>1. z \in Sockets /\ z # s /\ socket'[z] = socket[z] /\ Open(z)
      BY <1>6, <2>1 DEF Uncounted, Open
    <3>2. socket[z].node \in Nodes /\ z \notin Members(age'[socket[z].node])
      BY <2>1, <3>1 DEF Uncounted, Socket
    <3>. QED BY <1>5, <3>1, <3>2 DEF Uncounted
  <2>2. Ended \subseteq Ended' BY <1>6 DEF Ended
  <2>. QED BY <2>1, <2>2, CountedKept DEF Registry
<1>. QED BY <1>4, <1>5, <1>7, <1>8 DEF Registry, Open

\* What travels from the nodes to the dashboard.
Channels ==
    /\ health \in [Nodes -> {"HEALTHY", "DEGRADED"}]
    /\ subscribed \in BOOLEAN /\ ready \in BOOLEAN
    /\ bus \in Seq(Event) /\ dash \in Dash /\ missed \subseteq Nodes

LEMMA DashTypes ==
    ASSUME NEW d \in Dash
    PROVE  /\ \A status \in {"ONLINE", "OFFLINE"} : Shown(d, status) \in Dash
           /\ \A n \in Nodes, b \in BOOLEAN : Noticed(d, n, b) \in Dash
           /\ \A st \in {"down", "connected", "joined"} : [d EXCEPT !.state = st] \in Dash
           /\ \A b \in BOOLEAN : [d EXCEPT !.state = "connected", !.degraded = b] \in Dash
BY DEF Dash, Shown, Noticed

\* A page that is loaded anew: on its old connection it was in the room before.
LEMMA LoadTypes ==
    ASSUME dash \in Dash, DashLoads
    PROVE  /\ dash' \in Dash /\ dash'.presence = "UNSET"
           /\ dash'.state = "down"
              \/ (dash.state = "joined" /\ dash'.state = "connected" /\ dash'.degraded = dash.degraded)
<1>1. CASE dash' = [state |-> "down", degraded |-> FALSE, presence |-> "UNSET"]
  BY ONLY <1>1 DEF Dash
<1>2. CASE dash.state = "joined" /\ dash' = [dash EXCEPT !.state = "connected", !.presence = "UNSET"]
  BY ONLY dash \in Dash, <1>2 DEF Dash
<1>. QED BY <1>1, <1>2 DEF DashLoads

LEMMA LostTypes ==
    ASSUME NEW events \in Seq(Event)
    PROVE  /\ Lost(events) \in Seq(Event) /\ Len(Lost(events)) = Len(events)
           /\ \A i \in DOMAIN events : ~Lost(events)[i].latest
<1>1. \A e \in Event : [e EXCEPT !.latest = FALSE] \in Event BY DEF Event
<1>2. DOMAIN events = 1 .. Len(events) /\ Len(events) \in Nat OBVIOUS
<1>3. \A i \in DOMAIN events : events[i] \in Event BY <1>2
<1>4. Lost(events) = [i \in 1 .. Len(events) |-> [events[i] EXCEPT !.latest = FALSE]]
  BY <1>2 DEF Lost
<1>5. \A i \in DOMAIN events : ~[events[i] EXCEPT !.latest = FALSE].latest BY <1>3 DEF Event
<1>6. \A i \in DOMAIN events : Lost(events)[i] = [events[i] EXCEPT !.latest = FALSE]
  BY <1>2, <1>4
<1>7. Lost(events) \in [1 .. Len(events) -> Event] BY <1>1, <1>2, <1>3, <1>4
<1>8. Lost(events) \in Seq(Event) /\ Len(Lost(events)) = Len(events) BY <1>2, <1>7
<1>. QED BY <1>5, <1>6, <1>8

LEMMA BroadcastTypes ==
    ASSUME Channels, NEW n \in Nodes, NEW status \in {"ONLINE", "OFFLINE"},
           Broadcast(n, status), UNCHANGED redisSub
    PROVE  Channels'
<1>. DEFINE e == [status |-> status, latest |-> TRUE]
<1>1. e \in Event BY DEF Event
<1>2. health' \in [Nodes -> {"HEALTHY", "DEGRADED"}] BY DEF Broadcast, Channels
<1>3. dash' \in Dash
  <2>1. \A d \in Dash : Shown(d, status) \in Dash /\ Noticed(d, n, TRUE) \in Dash BY DashTypes
  <2>. QED BY <2>1 DEF Broadcast, Channels
<1>4. bus' \in {bus, Append(bus, e), Lost(bus)} BY DEF Broadcast
<1>5. bus' \in Seq(Event)
  <2>1. bus \in Seq(Event) BY DEF Channels
  <2>2. Append(bus, e) \in Seq(Event) BY <1>1, <2>1
  <2>3. Lost(bus) \in Seq(Event) BY <2>1, LostTypes
  <2>. QED BY <1>4, <2>1, <2>2, <2>3
<1>6. missed' \subseteq Nodes BY DEF Broadcast, Channels
<1>. QED BY <1>2, <1>3, <1>5, <1>6 DEF Channels, redisSub

\* A new connection, in the place of the oldest one when the user has too many: counted
\* with the others, or by itself in a set that is lost.
LEMMA Connecting ==
    ASSUME Registry, socket \in [Sockets -> Socket], age \in [Nodes -> Seq(Sockets)],
           NEW s \in Sockets, NEW n \in Nodes, Connect(s, n)
    PROVE  /\ Registry' /\ socket' \in [Sockets -> Socket] /\ age' \in [Nodes -> Seq(Sockets)]
           /\ socket'[s] = [NoSocket EXCEPT !.state = "open", !.node = n]
           /\ \A z \in Sockets \ {s} :
                 socket'[z] = socket[z] \/ (Open(z) /\ socket'[z] = Unregistered(z))
<1>. DEFINE full == Len(age[n]) >= MaxConnections /\ age[n] # <<>>
            oldest == Head(age[n])
            connected == [NoSocket EXCEPT !.state = "open", !.node = n]
            rest == IF full THEN Without(age[n], oldest) ELSE age[n]
            lost == full /\ rest = <<>>
            counting == IF lost THEN <<>> ELSE Append(rest, s)
<1>1. /\ age[n] \in Seq(Sockets) /\ ~Repeats(age[n]) /\ Len(age[n]) \in Nat
      /\ Len(age[n]) <= MaxConnections \/ Len(age[n]) <= 1
      /\ s \notin Members(age[n]) /\ MaxConnections \in Nat
  BY RealtimeAssumption DEF Registry, Connect, Open
<1>2. full => oldest \in Sockets /\ oldest # s /\ oldest \in Members(age[n])
  BY <1>1 DEF Members
<1>3. /\ rest \in Seq(Sockets) /\ ~Repeats(rest) /\ s \notin Members(rest) /\ Len(rest) \in Nat
      /\ Len(rest) + 1 <= MaxConnections \/ Len(rest) + 1 <= 1
      /\ Members(rest) = IF full THEN Members(age[n]) \ {oldest} ELSE Members(age[n])
      /\ full => Len(rest) + 1 = Len(age[n])
  <2>1. CASE full
    <3>1. rest = Without(age[n], oldest) BY <2>1
    <3>. HIDE DEF rest, oldest
    <3>. QED BY <1>1, <1>2, <2>1, <3>1, WithoutRemoves
  <2>2. CASE ~full
    <3>1. rest = age[n] BY <2>2
    <3>2. Len(age[n]) < MaxConnections \/ Len(age[n]) = 0 BY <1>1, <2>2
    <3>. HIDE DEF rest, full
    <3>. QED BY <1>1, <2>2, <3>1, <3>2
  <2>. QED BY <2>1, <2>2
<1>4. age' = [age EXCEPT ![n] = counting] BY DEF Connect
<1>5. connected \in Socket /\ connected.state = "open" /\ connected.node = n
  BY DEF NoSocket, Socket
<1>6. \A z \in Sockets : /\ Unregistered(z) \in Socket /\ Unregistered(z).state = "gone"
                         /\ Unregistered(z).node = socket[z].node
  BY DEF Unregistered, Socket
<1>7. \A z \in Sockets : socket'[z] = IF z = s THEN connected
                                      ELSE IF full /\ z = oldest THEN Unregistered(z) ELSE socket[z]
  BY <1>2 DEF Connect
<1>8. socket' \in [Sockets -> Socket] BY <1>2, <1>5, <1>6 DEF Connect
<1>9. lost => MaxConnections <= 1 /\ Members(age[n]) = {oldest}
  <2>. SUFFICES ASSUME lost PROVE MaxConnections <= 1 /\ Members(age[n]) = {oldest} OBVIOUS
  <2>1. full /\ rest = <<>> /\ Len(rest) = 0 /\ Members(rest) = {} BY DEF Members
  <2>2. MaxConnections <= 1 BY <1>1, <1>3, <2>1
  <2>. HIDE DEF full, rest, oldest
  <2>3. Members(age[n]) = {oldest} BY <1>2, <1>3, <2>1
  <2>. QED BY <2>2, <2>3
<1>. HIDE DEF rest, oldest, full, connected
<1>10. /\ Append(rest, s) \in Seq(Sockets) /\ ~Repeats(Append(rest, s))
       /\ Members(Append(rest, s)) = Members(rest) \cup {s}
       /\ Len(Append(rest, s)) = Len(rest) + 1
  BY <1>3, AppendAdds
<1>11. /\ counting \in Seq(Sockets) /\ ~Repeats(counting)
       /\ Len(counting) <= MaxConnections \/ Len(counting) <= 1
       /\ Members(counting) = IF lost THEN {} ELSE Members(rest) \cup {s}
  <2>1. CASE lost
    <3>1. counting = <<>> BY <2>1
    <3>. HIDE DEF counting, lost
    <3>2. /\ <<>> \in Seq(Sockets) /\ ~Repeats(<<>>) /\ Members(<<>>) = {} /\ Len(<<>>) <= 1
      BY DEF Repeats, Members
    <3>. QED BY <2>1, <3>1, <3>2
  <2>2. CASE ~lost
    <3>1. counting = Append(rest, s) BY <2>2
    <3>. HIDE DEF counting, lost
    <3>. QED BY <1>3, <1>10, <2>2, <3>1
  <2>. QED BY <2>1, <2>2
<1>. HIDE DEF counting, lost
<1>12. age' \in [Nodes -> Seq(Sockets)] /\ age'[n] = counting
       /\ \A k \in Nodes \ {n} : age'[k] = age[k]
  BY <1>4, <1>11
<1>13. ASSUME NEW k \in Nodes, NEW z \in Sockets
       PROVE  /\ z \in Members(age'[k]) => socket'[z].state = "open" /\ socket'[z].node = k
              /\ MaxConnections > 1 /\ socket'[z].state = "open" /\ socket'[z].node = k
                   => z \in Members(age'[k])
  <2>1. /\ z \in Members(age[k]) => socket[z].state = "open" /\ socket[z].node = k
        /\ MaxConnections > 1 /\ socket[z].state = "open" /\ socket[z].node = k
             => z \in Members(age[k])
    BY DEF Registry, Open
  <2>2. full => socket[oldest].node = n BY <1>2 DEF Registry
  <2>3. MaxConnections > 1 => ~lost BY <1>1, <1>9
  <2>4. CASE k = n
    BY <1>2, <1>3, <1>5, <1>6, <1>7, <1>11, <1>12, <2>1, <2>2, <2>3, <2>4
  <2>5. CASE k # n
    <3>1. socket[s].state # "open" BY DEF Connect
    <3>. QED BY <1>2, <1>5, <1>6, <1>7, <1>12, <2>1, <2>2, <2>5, <3>1
  <2>. QED BY <2>4, <2>5
<1>14. \A k \in Nodes : /\ age'[k] \in Seq(Sockets) /\ ~Repeats(age'[k])
                        /\ Len(age'[k]) <= MaxConnections \/ Len(age'[k]) <= 1
  <2>1. \A k \in Nodes \ {n} : /\ age'[k] \in Seq(Sockets) /\ ~Repeats(age'[k])
                               /\ Len(age'[k]) <= MaxConnections \/ Len(age'[k]) <= 1
    BY <1>12 DEF Registry
  <2>. QED BY <1>11, <1>12, <2>1
<1>15. \A z \in Sockets \ {s} :
         socket'[z] = socket[z] \/ (Open(z) /\ socket'[z] = Unregistered(z))
  BY <1>2, <1>7 DEF Registry
<1>16. Counted'
  <2>1. ASSUME NEW z \in Uncounted', z # s PROVE z \in Uncounted
    <3>1. z \in Sockets /\ socket'[z] = socket[z] /\ Open(z) /\ (full => z # oldest)
      BY <1>6, <1>7, <1>15, <2>1 DEF Uncounted, Open
    <3>2. socket[z].node \in Nodes /\ z \notin Members(age'[socket[z].node])
      BY <2>1, <3>1 DEF Uncounted, Socket
    <3>3. CASE socket[z].node = n
      <4>1. lost => z \notin Members(age[n]) BY <1>9, <3>1 DEF lost
      <4>2. ~lost => z \notin Members(age[n]) BY <1>3, <1>11, <1>12, <3>1, <3>2, <3>3
      <4>. QED BY <3>1, <3>3, <4>1, <4>2 DEF Uncounted
    <3>4. CASE socket[z].node # n BY <1>12, <3>1, <3>2, <3>4 DEF Uncounted
    <3>. QED BY <3>3, <3>4
  <2>2. Ended \subseteq Ended'
    <3>1. socket[s].state = "none" BY DEF Connect
    <3>. QED BY <1>15, <3>1 DEF Ended, Open
  <2>3. CASE ~lost
    <3>1. s \notin Uncounted' BY <1>5, <1>7, <1>11, <1>12, <2>3 DEF Uncounted
    <3>. QED BY <2>1, <2>2, <3>1, CountedKept DEF Registry
  <2>4. CASE lost
    <3>1. PICK y \in Sockets : y = oldest BY <1>2, <2>4 DEF lost
    <3>2. y # s /\ Open(y) /\ socket'[y].state = "gone"
      BY <1>2, <1>6, <1>7, <2>4, <3>1 DEF lost, Registry
    <3>3. y \notin Ended /\ y \in Ended' BY <3>2 DEF Ended, Open
    <3>. QED BY <2>1, <2>2, <3>3, CountedGrows DEF Registry
  <2>. QED BY <2>3, <2>4
<1>17. Registry' BY <1>13, <1>14, <1>16 DEF Registry, Open
<1>18. socket'[s] = connected BY <1>7
<1>. QED BY <1>8, <1>12, <1>15, <1>17, <1>18 DEF connected

Typed == /\ Registry /\ socket \in [Sockets -> Socket] /\ age \in [Nodes -> Seq(Sockets)]
         /\ Channels

\* The context of s after a heartbeat.
Beaten(s) ==
    LET resumes == socket[s].presence = "OFFLINE" /\ socket[s].sessionId
    IN  [socket[s] EXCEPT !.attemptId = TRUE, !.said = @ \/ resumes,
                          !.presence = IF resumes THEN "ONLINE" ELSE @]

\* The context of s after its subscription was decided.
Decided(s, allowed) ==
    LET c == [socket[s] EXCEPT !.pending = FALSE]
    IN  IF ~allowed THEN c ELSE Join(IF Alive(s) THEN Authorized(c) ELSE c)

\* The handlers that change one context and no registration.
LEMMA HandlerTypes ==
    ASSUME Typed, NEW s \in Sockets
    PROVE  /\ Subscribe(s) \/ Unsubscribe(s) => Typed'
           /\ Heartbeat(s) => Typed'
           /\ \A allowed \in BOOLEAN : Authorize(s, allowed) => Typed'
           /\ \A allowed \in BOOLEAN : RevocationSweep(s, allowed) => Typed'
           /\ PresenceSweep(s) => Typed'
<1>0. socket[s] \in Socket /\ socket[s].node \in Nodes BY DEF Typed, Socket
<1>. USE DEF Typed
<1>1. ASSUME Subscribe(s) \/ Unsubscribe(s) PROVE Typed'
  <2>1. CASE Subscribe(s)
    <3>. DEFINE c == [socket[s] EXCEPT !.pending = TRUE]
    <3>1. c \in Socket /\ c.state = socket[s].state /\ c.node = socket[s].node
      BY <1>0 DEF Socket
    <3>2. socket' = [socket EXCEPT ![s] = c] /\ UNCHANGED age BY <2>1 DEF Subscribe
    <3>3. Registry' /\ socket' \in [Sockets -> Socket] BY <3>1, <3>2, ContextChange
    <3>. QED BY <2>1, <3>3 DEF Subscribe, broadcasting, redisSub, Channels
  <2>2. CASE Unsubscribe(s)
    <3>. DEFINE c == [socket[s] EXCEPT !.joined = FALSE]
    <3>1. c \in Socket /\ c.state = socket[s].state /\ c.node = socket[s].node
      BY <1>0 DEF Socket
    <3>2. socket' = [socket EXCEPT ![s] = c] /\ UNCHANGED age BY <2>2 DEF Unsubscribe
    <3>3. Registry' /\ socket' \in [Sockets -> Socket] BY <3>1, <3>2, ContextChange
    <3>. QED BY <2>2, <3>3 DEF Unsubscribe, broadcasting, redisSub, Channels
  <2>. QED BY <1>1, <2>1, <2>2
<1>2. ASSUME Heartbeat(s) PROVE Typed'
  <2>1. /\ Beaten(s) \in Socket /\ Beaten(s).state = socket[s].state
        /\ Beaten(s).node = socket[s].node
    BY <1>0 DEF Socket, Beaten
  <2>2. socket' = [socket EXCEPT ![s] = Beaten(s)] /\ UNCHANGED age
    BY <1>2 DEF Heartbeat, Beaten
  <2>3. Registry' /\ socket' \in [Sockets -> Socket] BY <2>1, <2>2, ContextChange
  <2>4. Channels'
    <3>1. UNCHANGED redisSub /\ (Broadcast(socket[s].node, "ONLINE") \/ UNCHANGED broadcasting)
      BY <1>2 DEF Heartbeat
    <3>2. CASE Broadcast(socket[s].node, "ONLINE") BY <1>0, <3>1, <3>2, BroadcastTypes
    <3>3. CASE UNCHANGED broadcasting BY <3>1, <3>3 DEF broadcasting, redisSub, Channels
    <3>. QED BY <3>1, <3>2, <3>3
  <2>. QED BY <1>2, <2>3, <2>4 DEF Heartbeat
<1>3. ASSUME NEW allowed \in BOOLEAN, Authorize(s, allowed) PROVE Typed'
  <2>1. /\ Decided(s, allowed) \in Socket /\ Decided(s, allowed).state = socket[s].state
        /\ Decided(s, allowed).node = socket[s].node
    <3>. DEFINE c == [socket[s] EXCEPT !.pending = FALSE]
    <3>1. c \in Socket /\ c.state = socket[s].state /\ c.node = socket[s].node
      BY <1>0 DEF Socket
    <3>. HIDE DEF c
    <3>2. Decided(s, allowed) = IF ~allowed THEN c ELSE Join(IF Alive(s) THEN Authorized(c) ELSE c)
      BY DEF Decided, c
    <3>. DEFINE d == IF Alive(s) THEN Authorized(c) ELSE c
    <3>3. d \in Socket /\ d.state = c.state /\ d.node = c.node
      <4>1. Authorized(c) \in Socket /\ Authorized(c).state = c.state /\ Authorized(c).node = c.node
        BY <3>1, ContextTypes
      <4>. QED BY <3>1, <4>1
    <3>4. Decided(s, allowed) = IF ~allowed THEN c ELSE Join(d) BY <3>2
    <3>. HIDE DEF d
    <3>5. Join(d) \in Socket /\ Join(d).state = d.state /\ Join(d).node = d.node
      BY <3>3, ContextTypes
    <3>. QED BY <3>1, <3>3, <3>4, <3>5
  <2>2. socket' = [socket EXCEPT ![s] = Decided(s, allowed)] /\ UNCHANGED age
    BY <1>3 DEF Authorize, Decided
  <2>3. Registry' /\ socket' \in [Sockets -> Socket] BY <2>1, <2>2, ContextChange
  <2>. QED BY <1>3, <2>3 DEF Authorize, broadcasting, redisSub, Channels
<1>4. ASSUME NEW allowed \in BOOLEAN, RevocationSweep(s, allowed) PROVE Typed'
  <2>. DEFINE c == IF allowed THEN Authorized(socket[s]) ELSE [socket[s] EXCEPT !.joined = FALSE]
  <2>1. c \in Socket /\ c.state = socket[s].state /\ c.node = socket[s].node
    <3>1. /\ Authorized(socket[s]) \in Socket /\ Authorized(socket[s]).state = socket[s].state
          /\ Authorized(socket[s]).node = socket[s].node
      BY <1>0, ContextTypes
    <3>2. CASE allowed BY <3>1, <3>2
    <3>3. CASE ~allowed BY <1>0, <3>3 DEF Socket
    <3>. QED BY <3>2, <3>3
  <2>2. socket' = [socket EXCEPT ![s] = c] /\ UNCHANGED age BY <1>4 DEF RevocationSweep
  <2>3. Registry' /\ socket' \in [Sockets -> Socket] BY <2>1, <2>2, ContextChange
  <2>. QED BY <1>4, <2>3 DEF RevocationSweep, broadcasting, redisSub, Channels
<1>5. ASSUME PresenceSweep(s) PROVE Typed'
  <2>. DEFINE c == [socket[s] EXCEPT !.presence = "OFFLINE", !.said = FALSE]
  <2>1. c \in Socket /\ c.state = socket[s].state /\ c.node = socket[s].node
    BY <1>0 DEF Socket
  <2>2. socket' = [socket EXCEPT ![s] = c] /\ UNCHANGED age BY <1>5 DEF PresenceSweep
  <2>3. Registry' /\ socket' \in [Sockets -> Socket] BY <2>1, <2>2, ContextChange
  <2>4. Channels' BY <1>0, <1>5, BroadcastTypes DEF PresenceSweep
  <2>. QED BY <1>5, <2>3, <2>4 DEF PresenceSweep
<1>. QED BY <1>1, <1>2, <1>3, <1>4, <1>5

LEMMA TypedStep == Typed /\ [RealtimeNext]_realtimeVars => Typed'
<1>. SUFFICES ASSUME Typed, [RealtimeNext]_realtimeVars PROVE Typed' OBVIOUS
<1>. USE DEF Typed
<1>1. ASSUME NEW s \in Sockets, NEW n \in Nodes, Connect(s, n) PROVE Typed'
  BY <1>1, Connecting DEF Connect, broadcasting, redisSub, Channels
<1>2. ASSUME NEW s \in Sockets, Terminate(s) PROVE Typed'
  <2>1. /\ Unregistered(s) \in Socket /\ Unregistered(s).state = "gone"
        /\ socket' = [socket EXCEPT ![s] = Unregistered(s)]
    BY <1>2 DEF Unregistered, Socket, Terminate
  <2>2. age' = [age EXCEPT ![socket[s].node] = Without(@, s)] BY <1>2 DEF Terminate
  <2>3. Registry' /\ socket' \in [Sockets -> Socket] /\ age' \in [Nodes -> Seq(Sockets)]
    BY <2>1, <2>2, Unregistering
  <2>. QED BY <1>2, <2>3 DEF Terminate, broadcasting, redisSub, Channels
<1>3. ASSUME NEW s \in Sockets, Close(s) PROVE Typed'
  <2>. DEFINE c == [NoSocket EXCEPT !.state = "closed", !.pending = socket[s].pending]
  <2>1. socket[s] \in Socket /\ socket[s].pending \in BOOLEAN /\ socket[s].node \in Nodes
    BY DEF Socket
  <2>2. c \in Socket /\ c.state = "closed" BY <2>1, ContextTypes DEF NoSocket
  <2>3. /\ socket' = [socket EXCEPT ![s] = c]
        /\ age' = [age EXCEPT ![socket[s].node] = Without(@, s)]
        /\ UNCHANGED redisSub
        /\ Broadcast(socket[s].node, "OFFLINE") \/ UNCHANGED broadcasting
    BY <1>3 DEF Close
  <2>. HIDE DEF c
  <2>4. Registry' /\ socket' \in [Sockets -> Socket] /\ age' \in [Nodes -> Seq(Sockets)]
    BY <2>2, <2>3, Unregistering
  <2>5. CASE Broadcast(socket[s].node, "OFFLINE") BY <2>1, <2>3, <2>4, <2>5, BroadcastTypes
  <2>6. CASE UNCHANGED broadcasting BY <2>3, <2>4, <2>6 DEF broadcasting, redisSub, Channels
  <2>. QED BY <2>3, <2>5, <2>6
<1>4. ASSUME Receive PROVE Typed'
  <2>1. bus \in Seq(Event) /\ bus # <<>> /\ dash \in Dash BY <1>4 DEF Receive, Channels
  <2>2. Head(bus) \in Event /\ Tail(bus) \in Seq(Event) BY <2>1
  <2>3. Head(bus).status \in {"ONLINE", "OFFLINE"} BY <2>2 DEF Event
  <2>4. Shown(dash, Head(bus).status) \in Dash BY <2>1, <2>3, DashTypes
  <2>5. Registry' BY <1>4, RegistryUnchanged DEF Receive
  <2>. QED BY <1>4, <2>2, <2>4, <2>5 DEF Receive, Channels, Nodes, redisSub
<1>5. ASSUME NEW n \in Nodes, SubscriberFails(n) \/ SubscriberReady(n) PROVE Typed'
  <2>1. \A b \in BOOLEAN : Noticed(dash, n, b) \in Dash BY DashTypes DEF Channels
  <2>2. Registry' BY <1>5, RegistryUnchanged DEF SubscriberFails, SubscriberReady
  <2>3. CASE SubscriberFails(n) BY <2>1, <2>2, <2>3 DEF SubscriberFails, Channels
  <2>4. CASE SubscriberReady(n) BY <2>1, <2>2, <2>4 DEF SubscriberReady, Channels
  <2>. QED BY <1>5, <2>3, <2>4
<1>6. ASSUME DashConnects \/ DashJoins \/ DashDisconnects PROVE Typed'
  <2>1. Told \in BOOLEAN BY DEF Told, Channels, Dash
  <2>2. dash' \in Dash
    BY <1>6, <2>1, DashTypes DEF DashConnects, DashJoins, DashDisconnects, Channels
  <2>3. Registry' BY <1>6, RegistryUnchanged DEF DashConnects, DashJoins, DashDisconnects
  <2>. QED BY <1>6, <2>2, <2>3 DEF DashConnects, DashJoins, DashDisconnects, redisSub, Channels
<1>7. ASSUME DashLoads PROVE Typed'
  <2>1. Registry' BY <1>7, RegistryUnchanged DEF DashLoads
  <2>2. dash' \in Dash BY <1>7, LoadTypes DEF Channels
  <2>. QED BY <1>7, <2>1, <2>2 DEF DashLoads, redisSub, Channels
<1>8. CASE UNCHANGED realtimeVars
  <2>1. Registry' BY <1>8, RegistryUnchanged DEF realtimeVars
  <2>. QED BY <1>8, <2>1 DEF realtimeVars, Channels
<1>. QED BY <1>1, <1>2, <1>3, <1>4, <1>5, <1>6, <1>7, <1>8, HandlerTypes DEF RealtimeNext

(***************************************************************************)
(* Realtime: what a context says about its connection.                     *)
(***************************************************************************)
\* Only a registered connection is in a room; a presence belongs to an attempt of a
\* session; a connection that is not alive has neither.
ContextHolds(c) ==
    /\ c.joined => c.state = "open"
    /\ c.presence # "UNSET" => c.attemptId /\ c.sessionId
    /\ c.state \in {"none", "closed"} => ~c.sessionId /\ c.presence = "UNSET"
ContextsHold == \A s \in Sockets : ContextHolds(socket[s])

LEMMA ContextsStep == Typed /\ ContextsHold /\ [RealtimeNext]_realtimeVars => ContextsHold'
<1>. SUFFICES ASSUME Typed, ContextsHold, [RealtimeNext]_realtimeVars PROVE ContextsHold'
  OBVIOUS
<1>0. \A s \in Sockets : socket[s] \in Socket /\ ContextHolds(socket[s])
  BY DEF Typed, ContextsHold
\* A context that a handler writes is right if it follows from a right one.
<1>1. ASSUME NEW s \in Sockets, NEW c, socket' = [socket EXCEPT ![s] = c], ContextHolds(c)
      PROVE  ContextsHold'
  BY <1>0, <1>1 DEF Typed, ContextsHold
<1>2. ASSUME NEW s \in Sockets, NEW n \in Nodes, Connect(s, n) PROVE ContextsHold'
  <2>1. /\ socket'[s] = [NoSocket EXCEPT !.state = "open", !.node = n]
        /\ \A z \in Sockets \ {s} :
              socket'[z] = socket[z] \/ (Open(z) /\ socket'[z] = Unregistered(z))
    BY <1>2, Connecting DEF Typed
  <2>2. ContextHolds(socket'[s]) BY <2>1 DEF ContextHolds, NoSocket
  <2>3. \A z \in Sockets : ContextHolds(socket[z]) => ContextHolds(Unregistered(z))
    BY <1>0 DEF ContextHolds, Unregistered, Socket
  <2>. QED BY <1>0, <2>1, <2>2, <2>3 DEF ContextsHold
<1>3. ASSUME NEW s \in Sockets, Subscribe(s) \/ Unsubscribe(s) \/ Terminate(s)
      PROVE  ContextsHold'
  <2>1. CASE Subscribe(s)
    <3>1. ContextHolds([socket[s] EXCEPT !.pending = TRUE]) BY <1>0 DEF ContextHolds, Socket
    <3>2. socket' = [socket EXCEPT ![s] = [socket[s] EXCEPT !.pending = TRUE]]
      BY <2>1 DEF Subscribe
    <3>. QED BY <1>1, <3>1, <3>2
  <2>2. CASE Unsubscribe(s)
    <3>1. ContextHolds([socket[s] EXCEPT !.joined = FALSE]) BY <1>0 DEF ContextHolds, Socket
    <3>2. socket' = [socket EXCEPT ![s] = [socket[s] EXCEPT !.joined = FALSE]]
      BY <2>2 DEF Unsubscribe
    <3>. QED BY <1>1, <3>1, <3>2
  <2>3. CASE Terminate(s)
    <3>1. ContextHolds(Unregistered(s)) BY <1>0 DEF ContextHolds, Unregistered, Socket
    <3>. QED BY <1>1, <2>3, <3>1 DEF Terminate
  <2>. QED BY <1>3, <2>1, <2>2, <2>3
<1>4. ASSUME NEW s \in Sockets, Heartbeat(s) PROVE ContextsHold'
  <2>1. ContextHolds(Beaten(s)) BY <1>0, <1>4 DEF ContextHolds, Beaten, Heartbeat, Alive, Socket
  <2>2. socket' = [socket EXCEPT ![s] = Beaten(s)] BY <1>4 DEF Heartbeat, Beaten
  <2>. QED BY <1>1, <2>1, <2>2
<1>5. ASSUME NEW s \in Sockets, NEW allowed \in BOOLEAN, Authorize(s, allowed)
      PROVE  ContextsHold'
  <2>1. ContextHolds(Decided(s, allowed))
    BY <1>0 DEF ContextHolds, Decided, Join, Authorized, Alive, Socket
  <2>2. socket' = [socket EXCEPT ![s] = Decided(s, allowed)] BY <1>5 DEF Authorize, Decided
  <2>. QED BY <1>1, <2>1, <2>2
<1>6. ASSUME NEW s \in Sockets, NEW allowed \in BOOLEAN, RevocationSweep(s, allowed)
      PROVE  ContextsHold'
  <2>. DEFINE c == IF allowed THEN Authorized(socket[s]) ELSE [socket[s] EXCEPT !.joined = FALSE]
  <2>1. ContextHolds(c)
    BY <1>0, <1>6 DEF ContextHolds, Authorized, RevocationSweep, Open, Socket
  <2>2. socket' = [socket EXCEPT ![s] = c] BY <1>6 DEF RevocationSweep
  <2>. QED BY <1>1, <2>1, <2>2
<1>7. ASSUME NEW s \in Sockets, PresenceSweep(s) PROVE ContextsHold'
  <2>. DEFINE c == [socket[s] EXCEPT !.presence = "OFFLINE", !.said = FALSE]
  <2>1. ContextHolds(c)
    BY <1>0, <1>7 DEF ContextHolds, PresenceSweep, IsPresent, Open, Socket
  <2>2. socket' = [socket EXCEPT ![s] = c] BY <1>7 DEF PresenceSweep
  <2>. QED BY <1>1, <2>1, <2>2
<1>8. ASSUME NEW s \in Sockets, Close(s) PROVE ContextsHold'
  <2>. DEFINE c == [NoSocket EXCEPT !.state = "closed", !.pending = socket[s].pending]
  <2>1. ContextHolds(c) BY DEF ContextHolds, NoSocket
  <2>2. socket' = [socket EXCEPT ![s] = c] BY <1>8 DEF Close
  <2>. QED BY <1>1, <2>1, <2>2
<1>9. ASSUME UNCHANGED socket PROVE ContextsHold' BY <1>9 DEF ContextsHold
<1>10. ASSUME \/ Receive \/ DashConnects \/ DashJoins \/ DashDisconnects \/ DashLoads
              \/ \E n \in Nodes : SubscriberFails(n) \/ SubscriberReady(n)
       PROVE  UNCHANGED socket
  BY <1>10 DEF Receive, DashConnects, DashJoins, DashDisconnects, DashLoads, SubscriberFails,
               SubscriberReady
<1>11. CASE UNCHANGED realtimeVars BY <1>9, <1>11 DEF realtimeVars
<1>. QED BY <1>2, <1>3, <1>4, <1>5, <1>6, <1>7, <1>8, <1>9, <1>10, <1>11 DEF RealtimeNext

(***************************************************************************)
(* Realtime: events on their way, and what the dashboard shows.            *)
(***************************************************************************)
\* An ONLINE from node n is right.
OnlineOn(n) == \E s \in Sockets : Alive(s) /\ socket[s].node = n /\ socket[s].presence = "ONLINE"

\* An OFFLINE from node n is explained.
Gone == \E s \in Sockets : socket[s].state = "closed"
Unannounced(s) == socket[s].sessionId /\ ~socket[s].said
ExplainedOn(n) == Gone \/ \E s \in Sockets : socket[s].node = n /\ Unannounced(s)

\* Events before a lost one are marked; the last one that is not tells the state of There.
BusHolds ==
    /\ \A i, j \in DOMAIN bus : i < j /\ bus[i].latest => bus[j].latest
    /\ bus # <<>> =>
         /\ ~bus[Len(bus)].latest => There \in missed
         /\ bus[Len(bus)].latest /\ bus[Len(bus)].status = "ONLINE" => OnlineOn(There)
         /\ bus[Len(bus)].latest /\ bus[Len(bus)].status = "OFFLINE" => ExplainedOn(There)

\* When the latest event of each node has arrived, the last one to arrive is true.
DashHolds ==
    bus = <<>> /\ missed = {} =>
        /\ dash.presence = "ONLINE" => \E n \in Nodes : OnlineOn(n)
        /\ dash.presence = "OFFLINE" => \E n \in Nodes : ExplainedOn(n)

\* Steps that take no presence from a connection without a broadcast.
Quiet(nodes) == \A n \in nodes : (OnlineOn(n) => OnlineOn(n)') /\ (ExplainedOn(n) => ExplainedOn(n)')

LEMMA QuietKeeps ==
    ASSUME BusHolds, DashHolds, Quiet(Nodes), UNCHANGED <<bus, missed>>, dash'.presence = dash.presence
    PROVE  BusHolds' /\ DashHolds'
<1>1. There \in Nodes BY DEF Nodes
<1>2. BusHolds' BY <1>1 DEF BusHolds, Quiet
<1>3. DashHolds' BY DEF DashHolds, Quiet
<1>. QED BY <1>2, <1>3

LEMMA ShownFields ==
    ASSUME NEW d \in Dash, NEW status \in {"ONLINE", "OFFLINE"}
    PROVE  /\ Shown(d, status).presence = IF d.state = "joined" THEN status ELSE d.presence
           /\ Shown(d, status).state = d.state /\ Shown(d, status).degraded = d.degraded
BY DEF Shown, Dash

LEMMA NoticedFields ==
    ASSUME NEW d \in Dash, NEW n, NEW b \in BOOLEAN
    PROVE  /\ Noticed(d, n, b).presence = d.presence /\ Noticed(d, n, b).state = d.state
           /\ Noticed(d, n, b).degraded = IF n = Here /\ d.state # "down" THEN b ELSE d.degraded
BY DEF Noticed, Dash

\* A broadcast that tells the truth about its node.
LEMMA BroadcastKeeps ==
    ASSUME Channels, BusHolds, DashHolds, NEW n \in Nodes, NEW status \in {"ONLINE", "OFFLINE"},
           Broadcast(n, status), Quiet(Nodes \ {n}),
           status = "ONLINE" => OnlineOn(n)', status = "OFFLINE" => ExplainedOn(n)'
    PROVE  BusHolds' /\ DashHolds'
<1>. DEFINE arrives == n = Here /\ dash.state = "joined"
            e == [status |-> status, latest |-> TRUE]
<1>0. /\ bus \in Seq(Event) /\ Len(bus) \in Nat /\ DOMAIN bus = 1 .. Len(bus) /\ dash \in Dash
      /\ missed \subseteq Nodes /\ There \in Nodes /\ Here \in Nodes /\ Here # There
  BY RealtimeAssumption DEF Channels, Nodes
<1>1. PICK fails \in BOOLEAN, sent \in BOOLEAN :
        /\ sent => n = There
        /\ dash' = LET shown == IF n = Here THEN Shown(dash, status) ELSE dash
                   IN  IF fails THEN Noticed(shown, n, TRUE) ELSE shown
        /\ bus' = IF sent THEN Append(bus, e) ELSE IF n = There THEN Lost(bus) ELSE bus
        /\ missed' = IF arrives THEN missed \ {n} ELSE IF sent THEN missed ELSE missed \cup {n}
  BY DEF Broadcast
<1>2. dash'.presence = IF arrives THEN status ELSE dash.presence
  <2>. DEFINE shown == IF n = Here THEN Shown(dash, status) ELSE dash
  <2>1. shown \in Dash BY <1>0, DashTypes
  <2>2. shown.presence = IF arrives THEN status ELSE dash.presence BY <1>0, ShownFields
  <2>3. dash' = Noticed(shown, n, TRUE) \/ dash' = shown BY <1>1
  <2>. HIDE DEF shown
  <2>4. Noticed(shown, n, TRUE).presence = shown.presence BY <2>1, NoticedFields
  <2>. QED BY <2>2, <2>3, <2>4
<1>3. BusHolds'
  <2>1. CASE sent
    <3>1. /\ bus' = Append(bus, e) /\ n = There /\ ~arrives /\ missed' = missed
          /\ bus'[Len(bus')] = e /\ Len(bus') = Len(bus) + 1 /\ DOMAIN bus' = 1 .. Len(bus')
          /\ \A i \in 1 .. Len(bus) : bus'[i] = bus[i]
      BY <1>0, <1>1, <2>1
    <3>2. \A i, j \in DOMAIN bus' : i < j /\ bus'[i].latest => bus'[j].latest
      BY <1>0, <3>1 DEF BusHolds
    <3>. QED BY <3>1, <3>2 DEF BusHolds
  <2>2. CASE ~sent /\ n = There
    <3>1. bus' = Lost(bus) /\ There \in missed' BY <1>0, <1>1, <2>2
    <3>2. /\ bus' \in Seq(Event) /\ Len(bus') = Len(bus) /\ DOMAIN bus' = 1 .. Len(bus)
          /\ \A i \in DOMAIN bus' : ~bus'[i].latest
      BY <1>0, <3>1, LostTypes
    <3>3. bus' # <<>> => ~bus'[Len(bus')].latest BY <1>0, <3>2
    <3>. QED BY <3>1, <3>2, <3>3 DEF BusHolds
  <2>3. CASE n = Here
    <3>1. /\ bus' = bus /\ (There \in missed => There \in missed')
          /\ OnlineOn(There) => OnlineOn(There)'
          /\ ExplainedOn(There) => ExplainedOn(There)'
      BY <1>0, <1>1, <2>3 DEF Quiet
    <3>. QED BY <3>1 DEF BusHolds
  <2>. QED BY <2>1, <2>2, <2>3 DEF Nodes
<1>4. DashHolds'
  <2>1. ASSUME bus' = <<>>, missed' = {} PROVE arrives
    <3>1. CASE sent BY <1>0, <1>1, <2>1, <3>1
    <3>2. CASE ~sent BY <1>1, <2>1, <3>2
    <3>. QED BY <3>1, <3>2
  <2>. QED BY <1>2, <2>1 DEF DashHolds
<1>. QED BY <1>3, <1>4

\* A change of one context that takes no announced presence from it.
LEMMA QuietChange ==
    ASSUME Typed, NEW s \in Sockets, NEW c, socket' = [socket EXCEPT ![s] = c],
           c.node = socket[s].node, socket[s].state = "closed" => c.state = "closed",
           Alive(s) /\ socket[s].presence = "ONLINE" =>
               c.state \in {"open", "gone"} /\ c.presence = "ONLINE",
           Unannounced(s) => c.sessionId /\ ~c.said
    PROVE  Quiet(Nodes)
<1>1. \A z \in Sockets : socket'[z] = IF z = s THEN c ELSE socket[z] BY DEF Typed
<1>2. ASSUME NEW n \in Nodes, OnlineOn(n) PROVE OnlineOn(n)'
  BY <1>1, <1>2 DEF OnlineOn, Alive
<1>3. Gone => Gone' BY <1>1 DEF Gone
<1>4. ASSUME NEW n \in Nodes, ExplainedOn(n) PROVE ExplainedOn(n)'
  BY <1>1, <1>3, <1>4 DEF ExplainedOn, Unannounced
<1>. QED BY <1>2, <1>4 DEF Quiet

\* Of one context only the presence on its own node depends.
LEMMA OthersQuiet ==
    ASSUME Typed, NEW s \in Sockets, NEW c, socket' = [socket EXCEPT ![s] = c],
           socket[s].state = "closed" => c.state = "closed"
    PROVE  Quiet(Nodes \ {socket[s].node})
<1>1. \A z \in Sockets : socket'[z] = IF z = s THEN c ELSE socket[z] BY DEF Typed
<1>2. ASSUME NEW n \in Nodes \ {socket[s].node}, OnlineOn(n) PROVE OnlineOn(n)'
  BY <1>1, <1>2 DEF OnlineOn, Alive
<1>3. Gone => Gone' BY <1>1 DEF Gone
<1>4. ASSUME NEW n \in Nodes \ {socket[s].node}, ExplainedOn(n) PROVE ExplainedOn(n)'
  BY <1>1, <1>3, <1>4 DEF ExplainedOn, Unannounced
<1>. QED BY <1>2, <1>4 DEF Quiet

LEMMA UnchangedQuiet == UNCHANGED socket => Quiet(Nodes)
BY DEF Quiet, OnlineOn, ExplainedOn, Gone, Unannounced, Alive

Presence == BusHolds /\ DashHolds

\* The handlers of a connection.
LEMMA PresenceOfOne ==
    ASSUME Typed, ContextsHold, Presence, NEW s \in Sockets
    PROVE  /\ Subscribe(s) \/ Unsubscribe(s) \/ Terminate(s) => Presence'
           /\ Heartbeat(s) => Presence'
           /\ \A allowed \in BOOLEAN : Authorize(s, allowed) => Presence'
           /\ \A allowed \in BOOLEAN : RevocationSweep(s, allowed) => Presence'
           /\ PresenceSweep(s) => Presence'
           /\ Close(s) => Presence'
<1>0. /\ socket[s] \in Socket /\ socket[s].node \in Nodes /\ ContextHolds(socket[s])
      /\ Channels
  BY DEF Typed, Socket, ContextsHold
<1>n. PICK n \in Nodes : n = socket[s].node BY <1>0
<1>. USE DEF Presence
<1>1. ASSUME Subscribe(s) \/ Unsubscribe(s) \/ Terminate(s) PROVE Presence'
  <2>1. PICK c \in Socket : /\ socket' = [socket EXCEPT ![s] = c] /\ c.node = socket[s].node
                            /\ c.state = socket[s].state \/ (Open(s) /\ c.state = "gone")
                            /\ c.presence = socket[s].presence /\ c.sessionId = socket[s].sessionId
                            /\ c.said = socket[s].said
    <3>1. CASE Subscribe(s)
      <4>. DEFINE c == [socket[s] EXCEPT !.pending = TRUE]
      <4>1. c \in Socket /\ c.node = socket[s].node BY <1>0 DEF Socket
      <4>. QED BY <1>0, <3>1, <4>1 DEF Subscribe, Socket
    <3>2. CASE Unsubscribe(s)
      <4>. DEFINE c == [socket[s] EXCEPT !.joined = FALSE]
      <4>1. c \in Socket /\ c.node = socket[s].node BY <1>0 DEF Socket
      <4>. QED BY <1>0, <3>2, <4>1 DEF Unsubscribe, Socket
    <3>3. CASE Terminate(s)
      <4>. DEFINE c == Unregistered(s)
      <4>1. c \in Socket /\ c.node = socket[s].node BY <1>0 DEF Socket, Unregistered
      <4>. QED BY <1>0, <3>3, <4>1 DEF Terminate, Unregistered, Socket
    <3>. QED BY <1>1, <3>1, <3>2, <3>3
  <2>2. Quiet(Nodes) BY <2>1, QuietChange DEF Alive, Unannounced, Open
  <2>3. UNCHANGED broadcasting BY <1>1 DEF Subscribe, Unsubscribe, Terminate
  <2>. QED BY <2>2, <2>3, QuietKeeps DEF broadcasting
<1>2. ASSUME Heartbeat(s) PROVE Presence'
  <2>1. socket' = [socket EXCEPT ![s] = Beaten(s)] BY <1>2 DEF Heartbeat, Beaten
  <2>2. /\ Beaten(s).node = socket[s].node /\ Beaten(s).state = socket[s].state
        /\ Beaten(s).sessionId = socket[s].sessionId
    BY <1>0 DEF Beaten, Socket
  <2>3. CASE socket[s].presence = "OFFLINE" /\ socket[s].sessionId
    <3>1. Broadcast(n, "ONLINE") BY <1>2, <1>n, <2>3 DEF Heartbeat
    <3>2. Beaten(s).presence = "ONLINE" BY <1>0, <2>3 DEF Beaten, Socket
    <3>3. socket'[s] = Beaten(s) /\ Alive(s) BY <1>2, <2>1 DEF Typed, Heartbeat
    <3>4. OnlineOn(n)' BY <1>n, <2>2, <3>2, <3>3 DEF OnlineOn, Alive
    <3>5. Quiet(Nodes \ {n}) BY <1>n, <2>1, <2>2, OthersQuiet
    <3>. QED BY <1>0, <3>1, <3>4, <3>5, BroadcastKeeps
  <2>4. CASE ~(socket[s].presence = "OFFLINE" /\ socket[s].sessionId)
    <3>1. UNCHANGED broadcasting BY <1>2, <2>4 DEF Heartbeat
    <3>2. Beaten(s).presence = socket[s].presence /\ Beaten(s).said = socket[s].said
      BY <1>0, <2>4 DEF Beaten, Socket
    <3>3. Quiet(Nodes) BY <2>1, <2>2, <3>2, QuietChange DEF Alive, Unannounced
    <3>. QED BY <3>1, <3>3, QuietKeeps DEF broadcasting
  <2>. QED BY <2>3, <2>4
<1>3. ASSUME NEW allowed \in BOOLEAN, Authorize(s, allowed) PROVE Presence'
  <2>. DEFINE c == Decided(s, allowed)
  <2>1. socket' = [socket EXCEPT ![s] = c] BY <1>3 DEF Authorize, Decided
  <2>2. /\ c.node = socket[s].node /\ c.state = socket[s].state
        /\ IF allowed /\ Alive(s)
           THEN c.presence = "ONLINE" /\ c.sessionId
                /\ c.said = (socket[s].said /\ socket[s].presence = "ONLINE")
           ELSE c.presence = socket[s].presence /\ c.sessionId = socket[s].sessionId
                /\ c.said = socket[s].said
    BY <1>0 DEF Decided, Join, Authorized, Socket
  <2>. HIDE DEF c
  <2>3. Quiet(Nodes) BY <1>0, <2>1, <2>2, QuietChange DEF Alive, Unannounced, Socket
  <2>4. UNCHANGED broadcasting BY <1>3 DEF Authorize
  <2>. QED BY <2>3, <2>4, QuietKeeps DEF broadcasting
<1>4. ASSUME NEW allowed \in BOOLEAN, RevocationSweep(s, allowed) PROVE Presence'
  <2>. DEFINE c == IF allowed THEN Authorized(socket[s]) ELSE [socket[s] EXCEPT !.joined = FALSE]
  <2>1. socket' = [socket EXCEPT ![s] = c] BY <1>4 DEF RevocationSweep
  <2>2. /\ c.node = socket[s].node /\ c.state = socket[s].state
        /\ IF allowed
           THEN c.presence = "ONLINE" /\ c.sessionId
                /\ c.said = (socket[s].said /\ socket[s].presence = "ONLINE")
           ELSE c.presence = socket[s].presence /\ c.sessionId = socket[s].sessionId
                /\ c.said = socket[s].said
    BY <1>0 DEF Authorized, Socket
  <2>. HIDE DEF c
  <2>3. Quiet(Nodes) BY <1>0, <2>1, <2>2, QuietChange DEF Alive, Unannounced, Socket
  <2>4. UNCHANGED broadcasting BY <1>4 DEF RevocationSweep
  <2>. QED BY <2>3, <2>4, QuietKeeps DEF broadcasting
<1>5. ASSUME PresenceSweep(s) PROVE Presence'
  <2>. DEFINE c == [socket[s] EXCEPT !.presence = "OFFLINE", !.said = FALSE]
  <2>1. socket' = [socket EXCEPT ![s] = c] /\ Broadcast(n, "OFFLINE")
    BY <1>n, <1>5 DEF PresenceSweep
  <2>2. c.node = n /\ c.state = socket[s].state /\ c.sessionId /\ ~c.said
    BY <1>0, <1>n, <1>5 DEF PresenceSweep, IsPresent, Socket
  <2>. HIDE DEF c
  <2>3. socket'[s] = c BY <2>1 DEF Typed
  <2>4. ExplainedOn(n)' BY <2>2, <2>3 DEF ExplainedOn, Unannounced
  <2>5. Quiet(Nodes \ {n}) BY <1>n, <2>1, <2>2, OthersQuiet
  <2>. QED BY <1>0, <2>1, <2>4, <2>5, BroadcastKeeps
<1>6. ASSUME Close(s) PROVE Presence'
  <2>. DEFINE c == [NoSocket EXCEPT !.state = "closed", !.pending = socket[s].pending]
  <2>1. socket' = [socket EXCEPT ![s] = c] BY <1>6 DEF Close
  <2>2. c.state = "closed" BY DEF NoSocket
  <2>. HIDE DEF c
  <2>3. Gone' BY <2>1, <2>2 DEF Typed, Gone
  <2>4. \A k \in Nodes : ExplainedOn(k)' BY <2>3 DEF ExplainedOn
  <2>5. CASE IsPresent(s)
    <3>1. Broadcast(n, "OFFLINE") BY <1>n, <1>6, <2>5 DEF Close
    <3>2. Quiet(Nodes \ {n}) BY <1>n, <2>1, <2>2, OthersQuiet
    <3>. QED BY <1>0, <2>4, <3>1, <3>2, BroadcastKeeps
  <2>6. CASE ~IsPresent(s)
    <3>1. UNCHANGED broadcasting BY <1>6, <2>6 DEF Close
    <3>2. socket[s].presence # "ONLINE" BY <1>0, <2>6 DEF IsPresent, ContextHolds
    <3>3. \A z \in Sockets : z # s => socket'[z] = socket[z] BY <2>1 DEF Typed
    <3>4. \A k \in Nodes : OnlineOn(k) => OnlineOn(k)'
      BY <3>2, <3>3 DEF OnlineOn, Alive
    <3>5. Quiet(Nodes) BY <2>4, <3>4 DEF Quiet
    <3>. QED BY <3>1, <3>5, QuietKeeps DEF broadcasting
  <2>. QED BY <2>5, <2>6
<1>. QED BY <1>1, <1>2, <1>3, <1>4, <1>5, <1>6

\* An event arrives from the other node.
LEMMA PresenceReceived == Typed /\ Presence /\ Receive => Presence'
<1>. SUFFICES ASSUME Typed, Presence, Receive PROVE Presence' OBVIOUS
<1>. DEFINE e == Head(bus)
<1>1. /\ bus \in Seq(Event) /\ bus # <<>> /\ Len(bus) \in Nat /\ Len(bus) >= 1
      /\ DOMAIN bus = 1 .. Len(bus) /\ dash \in Dash /\ missed \subseteq Nodes /\ There \in Nodes
  BY DEF Typed, Channels, Receive, Nodes
<1>2. /\ bus' = Tail(bus) /\ Len(bus') = Len(bus) - 1 /\ DOMAIN bus' = 1 .. Len(bus) - 1
      /\ \A i \in DOMAIN bus' : bus'[i] = bus[i + 1]
      /\ e = bus[1] /\ e \in Event
  BY <1>1 DEF Receive
<1>3. /\ UNCHANGED socket
      /\ dash' = Shown(dash, e.status)
      /\ missed' = IF ~e.latest THEN missed
                   ELSE IF dash.state = "joined" THEN missed \ {There} ELSE missed \cup {There}
  BY DEF Receive
<1>. HIDE DEF e
<1>4. Quiet(Nodes) BY <1>3, UnchangedQuiet
<1>5. e.status \in {"ONLINE", "OFFLINE"} /\ e.latest \in BOOLEAN BY <1>2 DEF Event
<1>6. dash'.presence = IF dash.state = "joined" THEN e.status ELSE dash.presence
  BY <1>1, <1>3, <1>5, ShownFields
<1>7. BusHolds'
  <2>1. \A i, j \in DOMAIN bus' : i < j /\ bus'[i].latest => bus'[j].latest
    <3>. SUFFICES ASSUME NEW i \in DOMAIN bus', NEW j \in DOMAIN bus', i < j, bus'[i].latest
                  PROVE  bus'[j].latest
      OBVIOUS
    <3>1. i + 1 \in DOMAIN bus /\ j + 1 \in DOMAIN bus /\ i + 1 < j + 1 BY <1>1, <1>2
    <3>2. bus'[i] = bus[i + 1] /\ bus'[j] = bus[j + 1] BY <1>2
    <3>. QED BY <3>1, <3>2 DEF Presence, BusHolds
  <2>2. ASSUME bus' # <<>>
        PROVE  /\ bus'[Len(bus')] = bus[Len(bus)]
               /\ ~bus[Len(bus)].latest => There \in missed'
    <3>1. Len(bus') # 0 BY <1>1, <1>2, <2>2
    <3>2. Len(bus') \in DOMAIN bus' /\ Len(bus') + 1 = Len(bus) BY <1>1, <1>2, <3>1
    <3>3. bus'[Len(bus')] = bus[Len(bus)] BY <1>2, <3>2
    <3>4. e.latest => bus[Len(bus)].latest
      <4>1. 1 \in DOMAIN bus /\ Len(bus) \in DOMAIN bus /\ 1 < Len(bus) BY <1>1, <3>1, <1>2
      <4>. QED BY <1>2, <4>1 DEF Presence, BusHolds
    <3>. QED BY <1>1, <1>3, <3>3, <3>4 DEF Presence, BusHolds
  <2>3. bus # <<>> /\ (OnlineOn(There) => OnlineOn(There)')
        /\ (ExplainedOn(There) => ExplainedOn(There)')
    BY <1>1, <1>4 DEF Quiet
  <2>. QED BY <2>1, <2>2, <2>3 DEF Presence, BusHolds
<1>8. DashHolds'
  <2>. SUFFICES ASSUME bus' = <<>>, missed' = {}
                PROVE  /\ dash'.presence = "ONLINE" => OnlineOn(There)'
                       /\ dash'.presence = "OFFLINE" => ExplainedOn(There)'
    BY <1>1 DEF DashHolds
  <2>1. Len(bus) = 1
    <3>1. Len(bus') = Len(bus) - 1 BY <1>2
    <3>2. Len(bus') = 0 OBVIOUS
    <3>3. Len(bus) \in Nat BY <1>1
    <3>. HIDE DEF e
    <3>. QED BY ONLY <3>1, <3>2, <3>3
  <2>2. e = bus[Len(bus)] BY <1>2, <2>1
  <2>3. e.latest BY <1>1, <1>3, <2>2 DEF Presence, BusHolds
  <2>4. dash.state = "joined" BY <1>3, <2>3
  <2>5. /\ e.status = "ONLINE" => OnlineOn(There)
        /\ e.status = "OFFLINE" => ExplainedOn(There)
    BY <1>1, <2>2, <2>3 DEF Presence, BusHolds
  <2>. QED BY <1>1, <1>4, <1>6, <2>4, <2>5 DEF Quiet
<1>. QED BY <1>7, <1>8 DEF Presence

LEMMA PresenceStep ==
    Typed /\ ContextsHold /\ Presence /\ [RealtimeNext]_realtimeVars => Presence'
<1>. SUFFICES ASSUME Typed, ContextsHold, Presence, [RealtimeNext]_realtimeVars PROVE Presence'
  OBVIOUS
<1>1. ASSUME NEW s \in Sockets, NEW n \in Nodes, Connect(s, n) PROVE Presence'
  <2>1. /\ socket'[s] = [NoSocket EXCEPT !.state = "open", !.node = n]
        /\ \A z \in Sockets \ {s} :
              socket'[z] = socket[z] \/ (Open(z) /\ socket'[z] = Unregistered(z))
    BY <1>1, Connecting DEF Typed
  <2>2. socket[s].state = "none" /\ ~socket[s].sessionId
    BY <1>1 DEF Connect, ContextsHold, ContextHolds
  <2>3. \A z \in Sockets \ {s} :
          /\ socket'[z].node = socket[z].node /\ socket'[z].presence = socket[z].presence
          /\ socket'[z].sessionId = socket[z].sessionId /\ socket'[z].said = socket[z].said
          /\ Alive(z) => socket'[z].state \in {"open", "gone"}
          /\ socket[z].state = "closed" => socket'[z].state = "closed"
    <3>1. \A z \in Sockets : socket[z] \in Socket BY DEF Typed
    <3>2. \A z \in Sockets : /\ Unregistered(z).node = socket[z].node
                             /\ Unregistered(z).presence = socket[z].presence
                             /\ Unregistered(z).sessionId = socket[z].sessionId
                             /\ Unregistered(z).said = socket[z].said
                             /\ Unregistered(z).state = "gone"
      BY <3>1 DEF Unregistered, Socket
    <3>. QED BY <2>1, <3>2 DEF Open, Alive
  <2>4. \A k \in Nodes : OnlineOn(k) => OnlineOn(k)' BY <2>2, <2>3 DEF OnlineOn, Alive
  <2>5. \A k \in Nodes : ExplainedOn(k) => ExplainedOn(k)'
    BY <2>2, <2>3 DEF ExplainedOn, Gone, Unannounced
  <2>6. Quiet(Nodes) BY <2>4, <2>5 DEF Quiet
  <2>7. UNCHANGED broadcasting BY <1>1 DEF Connect
  <2>. QED BY <2>6, <2>7, QuietKeeps DEF broadcasting, Presence
<1>2. ASSUME NEW n \in Nodes, SubscriberFails(n) \/ SubscriberReady(n) PROVE Presence'
  <2>1. Quiet(Nodes) BY <1>2, UnchangedQuiet DEF SubscriberFails, SubscriberReady
  <2>2. \A b \in BOOLEAN : Noticed(dash, n, b).presence = dash.presence
    BY NoticedFields DEF Typed, Channels
  <2>3. dash'.presence = dash.presence /\ UNCHANGED <<bus, missed>>
    BY <1>2, <2>2 DEF SubscriberFails, SubscriberReady
  <2>. QED BY <2>1, <2>3, QuietKeeps DEF Presence
<1>3. ASSUME DashConnects \/ DashJoins \/ DashDisconnects PROVE Presence'
  <2>1. Quiet(Nodes) BY <1>3, UnchangedQuiet DEF DashConnects, DashJoins, DashDisconnects
  <2>2. dash'.presence = dash.presence /\ UNCHANGED <<bus, missed>>
    BY <1>3 DEF DashConnects, DashJoins, DashDisconnects, Typed, Channels, Dash
  <2>. QED BY <2>1, <2>2, QuietKeeps DEF Presence
\* A page that was told nothing shows nothing wrong; what is on its way is as it was.
<1>4. ASSUME DashLoads PROVE Presence'
  <2>1. Quiet(Nodes) /\ UNCHANGED bus BY <1>4, UnchangedQuiet DEF DashLoads
  <2>2. dash'.presence = "UNSET" BY <1>4, LoadTypes DEF Typed, Channels
  <2>3. bus # <<>> => missed' = missed BY <1>4 DEF DashLoads
  <2>4. There \in Nodes BY DEF Nodes
  <2>5. BusHolds' BY <2>1, <2>3, <2>4 DEF Presence, BusHolds, Quiet
  <2>6. DashHolds' BY <2>2 DEF DashHolds
  <2>. QED BY <2>5, <2>6 DEF Presence
<1>5. CASE UNCHANGED realtimeVars
  BY <1>5, UnchangedQuiet, QuietKeeps DEF Presence, realtimeVars
<1>. QED BY <1>1, <1>2, <1>3, <1>4, <1>5, PresenceOfOne, PresenceReceived DEF RealtimeNext

(***************************************************************************)
(* Realtime: degraded mode.                                                *)
(***************************************************************************)
LEMMA DegradedStep ==
    Typed /\ DegradedIsKnown /\ [RealtimeNext]_realtimeVars => DegradedIsKnown'
<1>. SUFFICES ASSUME Typed, DegradedIsKnown, [RealtimeNext]_realtimeVars PROVE DegradedIsKnown'
  OBVIOUS
<1>0. dash \in Dash /\ health \in [Nodes -> {"HEALTHY", "DEGRADED"}] /\ Here \in Nodes
  BY DEF Typed, Channels, Nodes
<1>1. ASSUME NEW n \in Nodes, NEW status \in {"ONLINE", "OFFLINE"}, Broadcast(n, status)
      PROVE  DegradedIsKnown'
  <2>. DEFINE shown == IF n = Here THEN Shown(dash, status) ELSE dash
  <2>1. shown \in Dash /\ shown.state = dash.state /\ shown.degraded = dash.degraded
    BY <1>0, DashTypes, ShownFields
  <2>2. PICK fails \in BOOLEAN :
          /\ health' = IF fails THEN [health EXCEPT ![n] = "DEGRADED"] ELSE health
          /\ dash' = IF fails THEN Noticed(shown, n, TRUE) ELSE shown
    BY <1>1 DEF Broadcast
  <2>. HIDE DEF shown
  <2>3. CASE fails
    <3>1. /\ dash'.state = dash.state
          /\ dash'.degraded = IF n = Here /\ dash.state # "down" THEN TRUE ELSE dash.degraded
      <4>1. dash' = Noticed(shown, n, TRUE) BY <2>2, <2>3
      <4>2. /\ Noticed(shown, n, TRUE).state = shown.state
            /\ Noticed(shown, n, TRUE).degraded =
                 IF n = Here /\ shown.state # "down" THEN TRUE ELSE shown.degraded
        BY <2>1, NoticedFields
      <4>. QED BY <2>1, <4>1, <4>2, Zenon
    <3>2. n # Here => health'[Here] = health[Here] BY <1>0, <2>2, <2>3
    <3>. QED BY <3>1, <3>2 DEF DegradedIsKnown
  <2>4. CASE ~fails BY <2>1, <2>2, <2>4 DEF DegradedIsKnown
  <2>. QED BY <2>3, <2>4
<1>2. ASSUME UNCHANGED broadcasting PROVE DegradedIsKnown'
  BY <1>2 DEF DegradedIsKnown, broadcasting
<1>3. ASSUME NEW s \in Sockets,
             \/ \E n \in Nodes : Connect(s, n)
             \/ Subscribe(s) \/ Unsubscribe(s) \/ Heartbeat(s)
             \/ \E allowed \in BOOLEAN : Authorize(s, allowed) \/ RevocationSweep(s, allowed)
             \/ PresenceSweep(s) \/ Terminate(s) \/ Close(s)
      PROVE  DegradedIsKnown'
  <2>1. socket[s].node \in Nodes BY DEF Typed, Socket
  <2>2. \/ UNCHANGED broadcasting
        \/ Broadcast(socket[s].node, "ONLINE") \/ Broadcast(socket[s].node, "OFFLINE")
    BY <1>3 DEF Connect, Subscribe, Unsubscribe, Heartbeat, Authorize, RevocationSweep,
                PresenceSweep, Terminate, Close
  <2>. QED BY <1>1, <1>2, <2>1, <2>2
<1>4. ASSUME Receive PROVE DegradedIsKnown'
  <2>0. Head(bus) \in Event BY <1>4 DEF Receive, Typed, Channels
  <2>1. Head(bus).status \in {"ONLINE", "OFFLINE"} BY <2>0 DEF Event
  <2>. QED BY <1>0, <1>4, <2>1, ShownFields DEF Receive, DegradedIsKnown
<1>5. ASSUME NEW n \in Nodes, SubscriberFails(n) \/ SubscriberReady(n) PROVE DegradedIsKnown'
  <2>1. \A b \in BOOLEAN :
          /\ Noticed(dash, n, b).state = dash.state
          /\ Noticed(dash, n, b).degraded = IF n = Here /\ dash.state # "down" THEN b ELSE dash.degraded
    BY <1>0, NoticedFields
  <2>2. CASE SubscriberFails(n)
    BY <1>0, <2>1, <2>2 DEF SubscriberFails, DegradedIsKnown
  <2>3. CASE SubscriberReady(n)
    BY <1>0, <2>1, <2>3 DEF SubscriberReady, DegradedIsKnown
  <2>. QED BY <1>5, <2>2, <2>3
<1>6. ASSUME DashConnects \/ DashJoins \/ DashDisconnects PROVE DegradedIsKnown'
  BY <1>0, <1>6 DEF DashConnects, DashJoins, DashDisconnects, DegradedIsKnown, Told, Dash
<1>7. ASSUME DashLoads PROVE DegradedIsKnown'
  BY <1>0, <1>7, LoadTypes DEF DegradedIsKnown, DashLoads
<1>8. CASE UNCHANGED realtimeVars BY <1>2, <1>8 DEF realtimeVars, broadcasting
<1>. QED BY <1>3, <1>4, <1>5, <1>6, <1>7, <1>8 DEF RealtimeNext

(***************************************************************************)
(* Realtime: the inductive invariant and the theorems.                     *)
(***************************************************************************)
RealtimeIInv == Typed /\ ContextsHold /\ Presence /\ DegradedIsKnown

LEMMA RealtimeStart == RealtimeInit => RealtimeIInv
<1>. SUFFICES ASSUME RealtimeInit PROVE RealtimeIInv OBVIOUS
<1>. USE DEF RealtimeInit
<1>1. \A s \in Sockets : socket[s] = NoSocket OBVIOUS
<1>2. \A n \in Nodes : /\ age[n] = <<>> /\ age[n] \in Seq(Sockets) /\ Len(age[n]) = 0
                       /\ DOMAIN age[n] = {}
  OBVIOUS
<1>3. Registry
  <2>1. NoSocket.state = "none" BY DEF NoSocket
  <2>2. \A n \in Nodes : Members(age[n]) = {} /\ ~Repeats(age[n]) BY <1>2 DEF Members, Repeats
  <2>3. Counted
    <3>1. Uncounted = {} /\ Ended = {} BY <1>1, <2>1 DEF Uncounted, Ended, Open
    <3>2. Cardinality({}) = 0 BY FS_EmptySet
    <3>. QED BY <3>1, <3>2 DEF Counted
  <2>. QED BY <1>1, <1>2, <2>1, <2>2, <2>3 DEF Registry, Open
<1>4. socket \in [Sockets -> Socket] BY ContextTypes
<1>5. age \in [Nodes -> Seq(Sockets)]
  <2>1. <<>> \in Seq(Sockets) OBVIOUS
  <2>. QED BY <2>1
<1>6. Channels
  <2>1. bus \in Seq(Event) OBVIOUS
  <2>2. dash \in Dash BY DEF Dash
  <2>. QED BY <2>1, <2>2 DEF Channels
<1>7. ContextsHold BY <1>1 DEF ContextsHold, ContextHolds, NoSocket
<1>8. Presence
  <2>1. BusHolds BY DEF BusHolds
  <2>2. DashHolds BY DEF DashHolds
  <2>. QED BY <2>1, <2>2 DEF Presence
<1>9. DegradedIsKnown BY DEF DegradedIsKnown
<1>. QED BY <1>3, <1>4, <1>5, <1>6, <1>7, <1>8, <1>9 DEF RealtimeIInv, Typed

LEMMA RealtimeHolds == RealtimeSpec => []RealtimeIInv
<1>1. RealtimeIInv /\ [RealtimeNext]_realtimeVars => RealtimeIInv'
  BY TypedStep, ContextsStep, PresenceStep, DegradedStep DEF RealtimeIInv
<1>. QED BY RealtimeStart, <1>1, PTL DEF RealtimeSpec

\* The registry of each node holds open connections, each of them once, and all of them
\* if more than one is allowed, whatever evictions, terminations and closes interleave.
THEOREM RealtimeTypeCorrect == RealtimeSpec => []RealtimeTypeOK
<1>1. ASSUME Typed PROVE RealtimeTypeOK
  BY <1>1 DEF Typed, Channels, RealtimeTypeOK, Registry, Members, Repeats, Open
<1>. QED BY <1>1, RealtimeHolds, PTL DEF RealtimeIInv

LEMMA SequenceCounts ==
    ASSUME NEW S, NEW sq \in Seq(S)
    PROVE  IsFiniteSet(Members(sq)) /\ Cardinality(Members(sq)) <= Len(sq)
<1>. DEFINE R == Members(sq)
<1>1. Len(sq) \in Nat /\ DOMAIN sq = 1 .. Len(sq) OBVIOUS
<1>2. sq \in [1 .. Len(sq) -> R] BY <1>1 DEF Members
<1>3. \A x \in R : \E i \in 1 .. Len(sq) : sq[i] = x BY <1>1 DEF Members
<1>4. sq \in Surjection(1 .. Len(sq), R) BY <1>2, <1>3 DEF Surjection
<1>. HIDE DEF R
<1>5. ExistsSurjection(1 .. Len(sq), R) BY <1>4 DEF ExistsSurjection
<1>6. Cardinality(R) <= Len(sq) /\ IsFiniteSet(R)
  BY <1>1, <1>5, FS_SurjCardinalityBound, FS_NatSurjection
<1>. QED BY <1>6 DEF R

\* Only a registered connection is in a room, also when its subscription is authorized
\* after its eviction or its close, and a user has no more connections on a node than
\* allowed, for any number of connections and any limit above 1; below, one and as many
\* as were evicted or closed.
THEOREM RoomsAreRegistered == RealtimeSpec => []RoomsHoldRegistered
<1>1. ASSUME Typed, ContextsHold PROVE RoomsHoldRegistered
  <2>1. \A s \in Sockets : socket[s].joined => Open(s)
    BY <1>1 DEF ContextsHold, ContextHolds, Open
  <2>2. ASSUME NEW n \in Nodes
        PROVE  Cardinality({s \in Sockets : Open(s) /\ socket[s].node = n})
               <= IF MaxConnections > 1 THEN MaxConnections
                  ELSE 1 + Cardinality({s \in Sockets : socket[s].state \in {"gone", "closed"}})
    <3>1. PICK R, M, U, E : /\ R = {s \in Sockets : Open(s) /\ socket[s].node = n}
                            /\ M = Members(age[n]) /\ U = Uncounted /\ E = Ended
      OBVIOUS
    <3>2. /\ age[n] \in Seq(Sockets) /\ Len(age[n]) \in Nat /\ MaxConnections \in Nat
          /\ Len(age[n]) <= MaxConnections \/ Len(age[n]) <= 1
      BY <1>1, RealtimeAssumption DEF Typed, Registry
    <3>3. IsFiniteSet(M) /\ Cardinality(M) <= Len(age[n])
      <4>1. PICK sq \in Seq(Sockets) : sq = age[n] BY <3>2
      <4>. QED BY <3>1, <4>1, SequenceCounts
    <3>4. IsFiniteSet(U) /\ Cardinality(U) \in Nat /\ Cardinality(E) \in Nat
      BY <3>1, UncountedFinite
    <3>5. Cardinality(M) \in Nat BY <3>3, FS_CardinalityType
    <3>6. CASE MaxConnections > 1
      <4>1. R \in SUBSET M BY <1>1, <3>1, <3>6 DEF Typed, Registry
      <4>2. IsFiniteSet(R) /\ Cardinality(R) <= Cardinality(M) BY <3>3, <4>1, FS_Subset
      <4>3. Cardinality(R) \in Nat BY <4>2, FS_CardinalityType
      <4>4. Cardinality(R) <= MaxConnections BY <3>2, <3>3, <3>5, <3>6, <4>2, <4>3
      <4>. QED BY <3>1, <3>6, <4>4
    <3>7. CASE ~(MaxConnections > 1)
      <4>1. R \in SUBSET (M \cup U) BY <3>1 DEF Uncounted
      <4>2. /\ IsFiniteSet(M \cup U)
            /\ Cardinality(M \cup U) = Cardinality(M) + Cardinality(U) - Cardinality(M \cap U)
        BY <3>3, <3>4, FS_Union
      <4>3. IsFiniteSet(R) /\ Cardinality(R) <= Cardinality(M \cup U) BY <4>1, <4>2, FS_Subset
      <4>4. IsFiniteSet(M \cap U) BY <3>3, FS_Intersection
      <4>5. Cardinality(R) \in Nat /\ Cardinality(M \cap U) \in Nat
        BY <4>3, <4>4, FS_CardinalityType
      <4>6. Cardinality(U) <= Cardinality(E) BY <1>1, <3>1 DEF Typed, Registry, Counted
      <4>7. Cardinality(R) <= 1 + Cardinality(E)
        BY <3>2, <3>3, <3>4, <3>5, <3>7, <4>2, <4>3, <4>5, <4>6
      <4>. QED BY <3>1, <3>7, <4>7 DEF Ended
    <3>. QED BY <3>6, <3>7
  <2>. QED BY <2>1, <2>2 DEF RoomsHoldRegistered
<1>. QED BY <1>1, RealtimeHolds, PTL DEF RealtimeIInv

\* A dashboard that listens, and that the latest event of each node has reached, shows
\* ONLINE only while one of the candidate's connections is ONLINE, once the page was told
\* of the candidate at all.
THEOREM OnlineIsOnline == RealtimeSpec => []ShownOnlineIsOnline
<1>1. Channels /\ DashHolds => ShownOnlineIsOnline
  BY DEF Channels, Dash, DashHolds, ShownOnlineIsOnline, Settled, Badge, OnlineOn
<1>. QED BY <1>1, RealtimeHolds, PTL DEF RealtimeIInv, Typed, Presence

\* Such a dashboard shows OFFLINE only while a connection was closed, is OFFLINE, or
\* became ONLINE without saying so.
THEOREM OfflineIsExplained == RealtimeSpec => []ShownOfflineIsExplained
<1>1. DashHolds => ShownOfflineIsExplained
  BY DEF DashHolds, ShownOfflineIsExplained, Settled, Badge, ExplainedOn, Gone, Unannounced
<1>. QED BY <1>1, RealtimeHolds, PTL DEF RealtimeIInv, Presence

\* The dashboard of a DEGRADED node knows that it gets no events from other nodes.
THEOREM DegradedIsAnnounced == RealtimeSpec => []DegradedIsKnown
BY RealtimeHolds, PTL DEF RealtimeIInv

(***************************************************************************)
(* Autosave: types.                                                        *)
(***************************************************************************)
Queues == [Questions -> Item \cup {NoItem}]

LEMMA EntryTypes ==
    /\ NoItem \notin Item /\ NoAnswer \notin Row /\ Nothing \in Queues
    /\ \A q \in Questions : Nothing[q] = NoItem
    /\ \A q \in Questions, item \in Item \cup {NoItem} :
         /\ Only(q, item) \in Queues
         /\ \A p \in Questions : Only(q, item)[p] = IF p = q THEN item ELSE NoItem
<1>1. NoItem \notin Item BY AutosaveAssumption DEF Item
<1>2. NoAnswer \notin Row BY AutosaveAssumption DEF Row
<1>3. Nothing \in Queues /\ \A q \in Questions : Nothing[q] = NoItem BY DEF Nothing, Queues
<1>4. ASSUME NEW q \in Questions, NEW item \in Item \cup {NoItem}
      PROVE  /\ Only(q, item) \in Queues
             /\ \A p \in Questions : Only(q, item)[p] = IF p = q THEN item ELSE NoItem
  BY <1>3 DEF Only, Queues
<1>. QED BY <1>1, <1>2, <1>3, <1>4

\* A request as the page sends it.
LEMMA RequestTypes ==
    ASSUME NEW kind \in Kinds, NEW f \in Flows \cup {"mount"},
           NEW q \in Questions \cup {NoQuestion}, NEW items \in Queues, NEW auto \in BOOLEAN
    PROVE  /\ Request(kind, f, q, items, auto) \in Message
           /\ Request(kind, f, q, items, auto).kind = kind
           /\ Request(kind, f, q, items, auto).flow = f
           /\ Request(kind, f, q, items, auto).question = q
           /\ Request(kind, f, q, items, auto).items = items
           /\ Request(kind, f, q, items, auto).auto = auto
           /\ Request(kind, f, q, items, auto).reply = "none"
           /\ Request(kind, f, q, items, auto).awaited
BY DEF Request, Message, Queues, Replies

\* A request after its reply was sent, and after the page has given it up.
LEMMA MessageTypes ==
    ASSUME NEW m \in Message
    PROVE  /\ m.kind \in Kinds /\ m.awaited \in BOOLEAN /\ m.flow \in Flows \cup {"mount"}
           /\ m.question \in Questions \cup {NoQuestion} /\ m.items \in Queues
           /\ m.auto \in BOOLEAN /\ m.reply \in Replies
           /\ \A r \in Replies :
                /\ [m EXCEPT !.reply = r] \in Message /\ [m EXCEPT !.reply = r].reply = r
                /\ [m EXCEPT !.reply = r].kind = m.kind /\ [m EXCEPT !.reply = r].flow = m.flow
                /\ [m EXCEPT !.reply = r].question = m.question
                /\ [m EXCEPT !.reply = r].items = m.items /\ [m EXCEPT !.reply = r].auto = m.auto
                /\ [m EXCEPT !.reply = r].awaited = m.awaited
           /\ [m EXCEPT !.awaited = FALSE] \in Message /\ ~[m EXCEPT !.awaited = FALSE].awaited
           /\ [m EXCEPT !.awaited = FALSE].kind = m.kind
           /\ [m EXCEPT !.awaited = FALSE].flow = m.flow
           /\ [m EXCEPT !.awaited = FALSE].question = m.question
           /\ [m EXCEPT !.awaited = FALSE].items = m.items
           /\ [m EXCEPT !.awaited = FALSE].auto = m.auto
           /\ [m EXCEPT !.awaited = FALSE].reply = m.reply
<1>1. /\ m.kind \in Kinds /\ m.awaited \in BOOLEAN /\ m.flow \in Flows \cup {"mount"}
      /\ m.question \in Questions \cup {NoQuestion} /\ m.items \in Queues
      /\ m.auto \in BOOLEAN /\ m.reply \in Replies
  BY DEF Message, Queues
<1>2. ASSUME NEW r \in Replies
      PROVE  /\ [m EXCEPT !.reply = r] \in Message /\ [m EXCEPT !.reply = r].reply = r
             /\ [m EXCEPT !.reply = r].kind = m.kind /\ [m EXCEPT !.reply = r].flow = m.flow
             /\ [m EXCEPT !.reply = r].question = m.question
             /\ [m EXCEPT !.reply = r].items = m.items /\ [m EXCEPT !.reply = r].auto = m.auto
             /\ [m EXCEPT !.reply = r].awaited = m.awaited
  BY DEF Message
<1>3. /\ [m EXCEPT !.awaited = FALSE] \in Message /\ ~[m EXCEPT !.awaited = FALSE].awaited
      /\ [m EXCEPT !.awaited = FALSE].kind = m.kind
      /\ [m EXCEPT !.awaited = FALSE].flow = m.flow
      /\ [m EXCEPT !.awaited = FALSE].question = m.question
      /\ [m EXCEPT !.awaited = FALSE].items = m.items
      /\ [m EXCEPT !.awaited = FALSE].auto = m.auto
      /\ [m EXCEPT !.awaited = FALSE].reply = m.reply
  BY DEF Message
<1>. QED BY <1>1, <1>2, <1>3

\* What the server has after it took the items of a request.
LEMMA AppliedRows ==
    ASSUME answer \in [Questions -> Row \cup {NoAnswer}], NEW m \in Message,
           NEW q \in Questions, q \in Touched(m) => Acceptable(m, q)
    PROVE  /\ q \notin Touched(m) => Applied(m)[q] = answer[q]
           /\ q \in Touched(m) =>
                /\ Applied(m)[q] \in Row
                /\ \/ /\ Applied(m)[q].no = m.items[q].no
                      /\ Applied(m)[q].value = m.items[q].value
                      /\ Applied(m)[q].revision =
                            IF answer[q] = NoAnswer THEN 1 ELSE answer[q].revision + 1
                      /\ answer[q] = NoAnswer \/ answer[q].revision = m.items[q].expected
                   \/ /\ answer[q] # NoAnswer /\ Applied(m)[q].revision = answer[q].revision
                      /\ Applied(m)[q].value = answer[q].value
                      /\ m.items[q].value = answer[q].value
                      /\ Applied(m)[q].no =
                            IF m.items[q].no > answer[q].no THEN m.items[q].no ELSE answer[q].no
<1>1. CASE q \notin Touched(m) BY <1>1 DEF Applied
<1>2. CASE q \in Touched(m)
  <2>. DEFINE item == m.items[q]
  <2>0. m.items \in Queues BY MessageTypes
  <2>1. item \in Item BY <1>2, <2>0 DEF Touched, Queues
  <2>2. item.value # Blank /\ (Writes(m, q) \/ OCC!IsRetry(q, item)) BY <1>2 DEF Acceptable
  <2>3. item.no \in Nat /\ item.value \in Values /\ item.expected \in Nat BY <2>1, <2>2 DEF Item
  <2>4. answer[q] = NoAnswer \/ answer[q] \in Row OBVIOUS
  <2>5. answer[q] \in Row => answer[q].no \in Nat /\ answer[q].value \in Values
                             /\ answer[q].revision \in Nat
    BY DEF Row
  <2>. HIDE DEF item
  <2>6. CASE Writes(m, q)
    <3>1. Applied(m)[q] = [no |-> item.no, value |-> item.value, revision |-> OCC!NextRevision(q)]
      BY <1>2, <2>6 DEF Applied, item
    <3>2. OCC!NextRevision(q) = IF answer[q] = NoAnswer THEN 1 ELSE answer[q].revision + 1
      BY <2>4, <2>5 DEF OCC!NextRevision, OCC!RevisionOf
    <3>3. OCC!NextRevision(q) \in Nat BY <2>4, <2>5, <3>2
    <3>4. answer[q] = NoAnswer \/ answer[q].revision = item.expected
      BY <2>6 DEF Writes, OCC!Writes, OCC!Updates, OCC!Inserts, item
    <3>. QED BY <1>2, <2>3, <3>1, <3>2, <3>3, <3>4 DEF Row, item
  <2>7. CASE ~Writes(m, q)
    <3>1. Applied(m)[q] = Confirmed(answer[q], item) BY <1>2, <2>7 DEF Applied, item
    <3>2. answer[q] \in Row /\ answer[q] # NoAnswer /\ item.value = answer[q].value
      BY <2>2, <2>4, <2>7 DEF OCC!IsRetry
    <3>3. /\ Confirmed(answer[q], item) \in Row
          /\ Confirmed(answer[q], item).value = answer[q].value
          /\ Confirmed(answer[q], item).revision = answer[q].revision
          /\ Confirmed(answer[q], item).no = IF item.no > answer[q].no THEN item.no ELSE answer[q].no
      BY <2>3, <3>2 DEF Confirmed, Row
    <3>. QED BY <1>2, <3>1, <3>2, <3>3 DEF item
  <2>. QED BY <2>6, <2>7
<1>. QED BY <1>1, <1>2

(***************************************************************************)
(* Autosave: what a step does to the causes and to the lists of entries.   *)
(***************************************************************************)
CausesTyped == cause \in [Questions -> SUBSET Causes]
CausesGrow == \A q \in Questions : cause[q] \subseteq cause'[q]

LEMMA Marking ==
    ASSUME CausesTyped, NEW questions, NEW c \in Causes, Mark(questions, c)
    PROVE  /\ CausesTyped' /\ CausesGrow
           /\ \A q \in Questions : q \in questions => c \in cause'[q]
BY DEF CausesTyped, CausesGrow, Mark

LEMMA KeepingCauses == CausesTyped /\ UNCHANGED cause => CausesTyped' /\ CausesGrow
BY DEF CausesTyped, CausesGrow

LEMMA Dequeuing ==
    ASSUME queue \in Queues, NEW gone, Dequeue(gone)
    PROVE  /\ queue' \in Queues /\ stored' = queue'
           /\ \A q \in Questions : queue'[q] = IF q \in gone THEN NoItem ELSE queue[q]
BY DEF Dequeue, Queues

\* The entry, the edit and the history after the candidate changed an answer.
LEMMA Editing ==
    ASSUME AutosaveTypeOK, NEW q \in Questions, NEW v \in Values \cup {Blank}, SetAnswer(q, v)
    PROVE  /\ edits' = edits + 1 /\ latest' \in [Questions -> Edit]
           /\ \E item \in Item :
                /\ item.no = edits + 1 /\ item.value = v /\ item.expected = revision[q]
                /\ queue' = [queue EXCEPT ![q] = item] /\ stored' = queue'
                /\ timer' = [timer EXCEPT ![q] = item]
           /\ latest'[q].no = edits + 1 /\ latest'[q].value = v
           /\ \A p \in Questions \ {q} : latest'[p] = latest[p] /\ cause'[p] = cause[p]
           /\ CausesTyped' /\ cause[q] \cap {"restored", "blanked"} \subseteq cause'[q]
           /\ MayDrop(q) => "overlapped" \in cause'[q]
           /\ "overtaken" \notin cause'[q]
           /\ UNCHANGED <<answer, attempt, late, revision, net, load, taking, submitting, flow, asked, forbidden>>
<1>. DEFINE item == [no |-> edits + 1, value |-> v, expected |-> revision[q]]
            edit == [no |-> edits + 1, value |-> v]
<1>1. /\ latest \in [Questions -> Edit] /\ cause \in [Questions -> SUBSET Causes]
      /\ edits \in Nat /\ revision[q] \in Nat
  BY DEF AutosaveTypeOK
<1>2. item \in Item /\ edit \in Edit BY <1>1 DEF Item, Edit
<1>3. /\ latest' = [latest EXCEPT ![q] = edit] /\ edits' = edits + 1
      /\ queue' = [queue EXCEPT ![q] = item] /\ stored' = queue'
      /\ timer' = [timer EXCEPT ![q] = item]
      /\ cause' = [cause EXCEPT ![q] = (@ \ {"overlapped", "rejected", "overtaken"})
                                        \cup (IF MayDrop(q) THEN {"overlapped"} ELSE {})]
  BY DEF SetAnswer
<1>4. /\ latest' \in [Questions -> Edit] /\ latest'[q] = edit
      /\ \A p \in Questions \ {q} : latest'[p] = latest[p]
  BY <1>1, <1>2, <1>3
<1>. DEFINE more == IF MayDrop(q) THEN {"overlapped"} ELSE {}
            now == (cause[q] \ {"overlapped", "rejected", "overtaken"}) \cup more
<1>5. /\ more \subseteq {"overlapped"} /\ (MayDrop(q) => "overlapped" \in more)
  OBVIOUS
<1>. HIDE DEF more
<1>6. /\ now \subseteq Causes /\ cause[q] \cap {"restored", "blanked"} \subseteq now
      /\ MayDrop(q) => "overlapped" \in now
      /\ "overtaken" \notin now
  BY <1>1, <1>5 DEF Causes
<1>7. cause' = [cause EXCEPT ![q] = now] BY <1>3 DEF more
<1>. HIDE DEF now
<1>8. /\ cause' \in [Questions -> SUBSET Causes] /\ cause'[q] = now
      /\ \A p \in Questions \ {q} : cause'[p] = cause[p]
  BY <1>1, <1>6, <1>7
<1>9. UNCHANGED <<answer, attempt, late, revision, net, load, taking, submitting, flow, asked, forbidden>>
  BY DEF SetAnswer, pageVars
<1>. HIDE DEF item
<1>10. \E i \in Item :
         /\ i.no = edits + 1 /\ i.value = v /\ i.expected = revision[q]
         /\ queue' = [queue EXCEPT ![q] = i] /\ stored' = queue'
         /\ timer' = [timer EXCEPT ![q] = i]
  BY <1>2, <1>3 DEF item
<1>. QED BY <1>3, <1>4, <1>6, <1>8, <1>9, <1>10 DEF CausesTyped

\* The page's and the server's variables, the messages apart.
PageTyped ==
    /\ revision \in [Questions -> Nat]
    /\ queue \in Queues /\ stored \in Queues /\ timer \in Queues
    /\ load \in Nat /\ taking \in BOOLEAN /\ submitting \in BOOLEAN
    /\ flow \in [Flows -> {"idle", "flushing", "submitting", "over"}]
ServerTyped ==
    /\ answer \in [Questions -> Row \cup {NoAnswer}]
    /\ attempt \in {"ACTIVE", "SUBMITTED", "EXPIRED"} /\ late \in BOOLEAN
HistoryTyped ==
    /\ edits \in Nat /\ latest \in [Questions -> Edit]
    /\ asked \in BOOLEAN /\ forbidden \in BOOLEAN /\ CausesTyped

LEMMA AutosaveTypes ==
    AutosaveTypeOK => ServerTyped /\ PageTyped /\ HistoryTyped /\ net \subseteq Message
BY DEF AutosaveTypeOK, ServerTyped, PageTyped, HistoryTyped, CausesTyped, Queues

LEMMA AutosaveTypesAfter ==
    ServerTyped' /\ PageTyped' /\ HistoryTyped' /\ net' \subseteq Message => AutosaveTypeOK'
BY DEF AutosaveTypeOK, ServerTyped, PageTyped, HistoryTyped, CausesTyped, Queues

LEMMA Starting ==
    ASSUME timer \in Queues, flow \in [Flows -> {"idle", "flushing", "submitting", "over"}],
           NEW f \in Flows, NEW dirty, NEW auto, NEW others, StartSubmission(f, dirty, auto, others)
    PROVE  /\ timer' = Nothing /\ timer' \in Queues /\ submitting' \in BOOLEAN
           /\ flow' \in [Flows -> {"idle", "flushing", "submitting", "over"}]
           /\ \E kind \in {"flush", "submit"} :
                net' = others \cup {Request(kind, f, NoQuestion, dirty, auto)}
BY EntryTypes DEF StartSubmission, Submit

LEMMA Ending ==
    ASSUME flow \in [Flows -> {"idle", "flushing", "submitting", "over"}], NEW f, EndFlow(f)
    PROVE  /\ submitting' \in BOOLEAN
           /\ flow' \in [Flows -> {"idle", "flushing", "submitting", "over"}]
BY DEF EndFlow

(***************************************************************************)
(* Autosave: the invariant.                                                *)
(***************************************************************************)
\* The entry, timer or item x is an edit of q that the candidate made, and expects a
\* revision that the page can know of.
Genuine(q, x) ==
    /\ 0 < x.no /\ x.no <= latest[q].no
    /\ x.no = latest[q].no => x.value = latest[q].value
    /\ x.expected \in {0, 1} /\ (x.expected = 1 => "restored" \in cause[q])

PageHolds ==
    /\ queue = stored
    /\ \A q \in Questions :
         /\ latest[q].no <= edits
         /\ revision[q] \in {0, 1} /\ (revision[q] = 1 => "restored" \in cause[q])
         /\ queue[q] # NoItem => Genuine(q, queue[q]) /\ queue[q].no = latest[q].no
         /\ timer[q] # NoItem => Genuine(q, timer[q]) /\ timer[q].no = latest[q].no

RowsHold ==
    \A q \in Questions : answer[q] # NoAnswer =>
        /\ answer[q].revision \in {1, 2} /\ answer[q].no <= latest[q].no
        /\ answer[q].no = latest[q].no => answer[q].value = latest[q].value

\* The exam is submitted because the candidate asked for it, or for what ends it.
Justified(auto) ==
    IF auto
    THEN attempt # "ACTIVE" \/ late \/ forbidden \/ \E q \in Questions : "blanked" \in cause[q]
    ELSE asked

MessageHolds(m) ==
    /\ \A q \in Touched(m) : Genuine(q, m.items[q])
    /\ m.kind \in {"save", "reconcile"} => m.question \in Questions
    /\ m.kind = "save" => Touched(m) = {m.question}
    /\ m.reply = "invalid" => Questions # {}
    /\ m.reply = "ended" => attempt # "ACTIVE"
    /\ m.kind = "submit" \/ (m.kind = "flush" /\ m.flow # "mount") => Justified(m.auto)
MessagesHold == \A m \in net : MessageHolds(m)

(***************************************************************************)
(* Autosave: the steps, and the messages they send.                        *)
(***************************************************************************)
\* A step that is not an edit.
Progress ==
    /\ ServerTyped' /\ PageTyped' /\ HistoryTyped' /\ CausesGrow /\ UNCHANGED <<edits, latest>>
    /\ (asked => asked') /\ (forbidden => forbidden') /\ (late => late')
    /\ (attempt # "ACTIVE" => attempt' # "ACTIVE")

\* What a message that was not there before is.
GivenUp(n) == \E m \in net : m.reply = "none" /\ n = [m EXCEPT !.awaited = FALSE]
SentSave(n) ==
    \E q \in Questions :
        timer[q] # NoItem /\ n = Request("save", "page", q, Only(q, timer[q]), FALSE)
SentQueue(n) ==
    \E kind \in {"flush", "submit"}, f \in Flows \cup {"mount"}, auto \in BOOLEAN :
        /\ n = Request(kind, f, NoQuestion, queue', auto)
        /\ kind = "submit" \/ f # "mount" => Justified(auto)'
SentFetch(n) ==
    \E m \in net : SaveConflict(m) /\ n = Request("reconcile", "page", m.question, Nothing, FALSE)
SentReply(n) ==
    \E m \in net, r \in Replies :
        /\ m.awaited /\ m.reply = "none" /\ n = [m EXCEPT !.reply = r]
        /\ \/ Accept(m) /\ r = "ok"
           \/ Refuse(m) /\ r \in {"conflict", "invalid"}
           \/ RefuseEnded(m) /\ r = "ended"
           \/ GetAnswers(m) /\ r = "ok"

LEMMA OrphansGivenUp ==
    ASSUME NEW requests, requests \subseteq net, NEW n \in Orphans(requests)
    PROVE  GivenUp(n)
BY DEF Orphans, GivenUp

LEMMA Replying ==
    ASSUME NEW m, NEW r, Reply(m, r), NEW n \in net', n \notin net
    PROVE  m.awaited /\ n = [m EXCEPT !.reply = r]
BY DEF Reply

LEMMA ServeSteps ==
    ASSUME AutosaveTypeOK, NEW m \in net, Serve(m)
    PROVE  /\ Progress /\ UNCHANGED <<queue, stored, revision, timer>>
           /\ \A n \in net' : n \in net \/ SentReply(n)
<1>1. ServerTyped /\ PageTyped /\ HistoryTyped /\ m \in Message /\ m.items \in Queues
  BY AutosaveTypes, MessageTypes
<1>2. \A r \in {"none", "ok", "conflict", "invalid", "ended"} : r \in Replies BY DEF Replies
<1>3. CASE Accept(m)
  <2>1. /\ \A q \in Touched(m) : Acceptable(m, q)
        /\ answer' = Applied(m) /\ Mark(Overtaken(m), "overtaken") /\ Reply(m, "ok")
        /\ attempt = "ACTIVE" /\ attempt' \in {"ACTIVE", "SUBMITTED", "EXPIRED"}
        /\ UNCHANGED <<late, hookVars, pageVars, historyVars>> /\ m.reply = "none"
    BY <1>3 DEF Accept
  <2>2. \A q \in Questions : Applied(m)[q] \in Row \cup {NoAnswer}
    BY <1>1, <2>1, AppliedRows DEF ServerTyped
  <2>3. Applied(m) = [q \in Questions |-> Applied(m)[q]] BY DEF Applied
  <2>4. answer' \in [Questions -> Row \cup {NoAnswer}] BY <2>1, <2>2, <2>3
  <2>5. CausesTyped' /\ CausesGrow BY <1>1, <2>1, Marking DEF HistoryTyped, Causes
  <2>6. \A n \in net' : n \in net \/ SentReply(n)
    BY <1>2, <1>3, <2>1, Replying DEF SentReply
  <2>. QED BY <1>1, <2>1, <2>4, <2>5, <2>6
         DEF Progress, ServerTyped, PageTyped, HistoryTyped, hookVars, pageVars, historyVars
<1>4. CASE Refuse(m)
  <2>1. PICK q \in Touched(m), r \in {"conflict", "invalid"} :
          /\ Reply(m, r)
          /\ Mark({q} \cap {p \in Questions : latest[p].no = m.items[q].no}, "rejected")
          /\ m.reply = "none" /\ UNCHANGED <<serverVars, late, hookVars, pageVars, historyVars>>
    BY <1>4 DEF Refuse
  <2>2. CausesTyped' /\ CausesGrow BY <1>1, <2>1, Marking DEF HistoryTyped, Causes
  <2>3. \A n \in net' : n \in net \/ SentReply(n)
    BY <1>2, <1>4, <2>1, Replying DEF SentReply
  <2>. QED BY <1>1, <2>1, <2>2, <2>3
         DEF Progress, ServerTyped, PageTyped, HistoryTyped, serverVars, hookVars, pageVars, historyVars
<1>5. CASE RefuseEnded(m)
  <2>1. /\ m.reply = "none" /\ Reply(m, "ended") /\ UNCHANGED <<answer, late, hookVars, pageVars, historyVars, cause>>
        /\ attempt' = IF attempt = "ACTIVE" THEN "EXPIRED" ELSE attempt
    BY <1>5 DEF RefuseEnded
  <2>2. CausesTyped' /\ CausesGrow BY <1>1, <2>1, KeepingCauses DEF HistoryTyped
  <2>3. \A n \in net' : n \in net \/ SentReply(n)
    BY <1>2, <1>5, <2>1, Replying DEF SentReply
  <2>. QED BY <1>1, <2>1, <2>2, <2>3
         DEF Progress, ServerTyped, PageTyped, HistoryTyped, hookVars, pageVars, historyVars
<1>6. CASE GetAnswers(m)
  <2>1. /\ m.reply = "none" /\ Reply(m, "ok") /\ UNCHANGED <<answer, late, hookVars, pageVars, historyVars, cause>>
        /\ attempt' = IF attempt = "ACTIVE" /\ late THEN "EXPIRED" ELSE attempt
    BY <1>6 DEF GetAnswers
  <2>2. CausesTyped' /\ CausesGrow BY <1>1, <2>1, KeepingCauses DEF HistoryTyped
  <2>3. \A n \in net' : n \in net \/ SentReply(n)
    BY <1>2, <1>6, <2>1, Replying DEF SentReply
  <2>. QED BY <1>1, <2>1, <2>2, <2>3
         DEF Progress, ServerTyped, PageTyped, HistoryTyped, hookVars, pageVars, historyVars
<1>. QED BY <1>3, <1>4, <1>5, <1>6 DEF Serve

\* The reasons for a submission stay.
LEMMA JustifiedKept ==
    ASSUME CausesGrow, NEW auto, Justified(auto),
           asked => asked', forbidden => forbidden', late => late', attempt # "ACTIVE" => attempt' # "ACTIVE"
    PROVE  Justified(auto)'
BY DEF Justified, CausesGrow

\* A reply that ends the exam for the page: the entries go, the exam is submitted.
LEMMA EndingExam ==
    ASSUME AutosaveTypeOK, MessagesHold, NEW m \in net, m.reply \in {"invalid", "ended"},
           NEW gone, EndExam(m, gone)
    PROVE  /\ Progress /\ Dequeue(gone) /\ UNCHANGED <<answer, attempt, late, revision>>
           /\ \A q \in Questions : timer'[q] = timer[q] \/ timer'[q] = NoItem
           /\ m.reply = "invalid" => \A q \in Questions : "blanked" \in cause'[q]
           /\ \A n \in net' : n \in net \/ SentQueue(n)
<1>1. /\ ServerTyped /\ PageTyped /\ HistoryTyped /\ m \in Message /\ MessageHolds(m)
  BY AutosaveTypes DEF MessagesHold
<1>2. /\ Dequeue(gone)
      /\ Mark(IF m.reply = "invalid" THEN Questions ELSE {}, "blanked")
      /\ IF submitting
         THEN net' = net \ {m} /\ UNCHANGED <<timer, submitting, flow>>
         ELSE StartSubmission("page", queue', TRUE, net \ {m})
      /\ UNCHANGED <<answer, attempt, late, revision, load, taking, edits, latest, asked, forbidden>>
  BY DEF EndExam, serverVars, historyVars
<1>3. queue' \in Queues /\ stored' = queue' BY <1>1, <1>2, Dequeuing DEF PageTyped
<1>4. /\ CausesTyped' /\ CausesGrow
      /\ m.reply = "invalid" => \A q \in Questions : "blanked" \in cause'[q]
  <2>1. PICK marked : marked = IF m.reply = "invalid" THEN Questions ELSE {} OBVIOUS
  <2>2. Mark(marked, "blanked") /\ CausesTyped /\ "blanked" \in Causes
    BY <1>1, <1>2, <2>1 DEF HistoryTyped, Causes
  <2>3. /\ CausesTyped' /\ CausesGrow
        /\ \A q \in Questions : q \in marked => "blanked" \in cause'[q]
    BY <2>2, Marking
  <2>. QED BY <2>1, <2>3
<1>5. Justified(TRUE)'
  <2>1. CASE m.reply = "invalid"
    <3>1. Questions # {} BY <1>1, <2>1 DEF MessageHolds
    <3>. QED BY <1>4, <2>1, <3>1 DEF Justified
  <2>2. CASE m.reply = "ended"
    <3>1. attempt' # "ACTIVE" BY <1>1, <1>2, <2>2 DEF MessageHolds
    <3>. QED BY <3>1 DEF Justified
  <2>. QED BY <2>1, <2>2
<1>6. /\ timer' \in Queues /\ submitting' \in BOOLEAN
      /\ \A q \in Questions : timer'[q] = timer[q] \/ timer'[q] = NoItem
      /\ flow' \in [Flows -> {"idle", "flushing", "submitting", "over"}]
      /\ \A n \in net' : n \in net \/ SentQueue(n)
  <2>1. CASE submitting BY <1>1, <1>2, <2>1 DEF PageTyped
  <2>2. CASE ~submitting
    <3>0. "page" \in Flows BY DEF Flows
    <3>1. /\ timer' = Nothing /\ timer' \in Queues /\ submitting' \in BOOLEAN
          /\ flow' \in [Flows -> {"idle", "flushing", "submitting", "over"}]
      BY <1>1, <1>2, <2>2, <3>0, Starting DEF PageTyped
    <3>2. PICK kind \in {"flush", "submit"} :
            net' = (net \ {m}) \cup {Request(kind, "page", NoQuestion, queue', TRUE)}
      BY <1>1, <1>2, <2>2, <3>0, Starting DEF PageTyped
    <3>3. SentQueue(Request(kind, "page", NoQuestion, queue', TRUE))
      BY <1>5, <3>0 DEF SentQueue
    <3>. QED BY <3>1, <3>2, <3>3, EntryTypes
  <2>. QED BY <2>1, <2>2
<1>. QED BY <1>1, <1>2, <1>3, <1>4, <1>6 DEF Progress, ServerTyped, PageTyped, HistoryTyped

LEMMA HandleSteps ==
    ASSUME AutosaveTypeOK, MessagesHold, NEW m \in net, Handle(m)
    PROVE  /\ Progress /\ \A n \in net' : n \in net \/ GivenUp(n) \/ SentQueue(n) \/ SentFetch(n)
           /\ stored = queue => stored' = queue'
           /\ \A q \in Questions : revision'[q] = revision[q] \/ revision'[q] = 0
           /\ \A q \in Questions : queue'[q] = queue[q] \/ queue'[q] = NoItem
           /\ \A q \in Questions : timer'[q] = timer[q] \/ timer'[q] = NoItem
<1>1. /\ ServerTyped /\ PageTyped /\ HistoryTyped /\ m \in Message /\ MessageHolds(m)
      /\ queue \in Queues
  BY AutosaveTypes DEF MessagesHold, PageTyped
<1>. USE DEF Progress, ServerTyped, PageTyped, HistoryTyped, serverVars, hookVars, pageVars, historyVars
<1>2. UNCHANGED cause => CausesTyped' /\ CausesGrow BY <1>1, KeepingCauses
<1>3. CASE SaveSucceeded(m)
  <2>1. /\ revision' = [revision EXCEPT ![m.question] = 0] /\ net' = net \ {m}
        /\ Dequeue({m.question})
        /\ UNCHANGED <<serverVars, late, timer, pageVars, historyVars, cause>>
    BY <1>3 DEF SaveSucceeded
  <2>2. /\ queue' \in Queues /\ stored' = queue'
        /\ \A q \in Questions : queue'[q] = queue[q] \/ queue'[q] = NoItem
    BY <1>1, <2>1, Dequeuing
  <2>3. /\ revision' \in [Questions -> Nat]
        /\ \A q \in Questions : revision'[q] = revision[q] \/ revision'[q] = 0
    BY <1>1, <2>1
  <2>. QED BY <1>1, <1>2, <2>1, <2>2, <2>3
<1>4. CASE SaveConflict(m)
  <2>1. /\ net' = (net \ {m}) \cup {Request("reconcile", "page", m.question, Nothing, FALSE)}
        /\ UNCHANGED <<serverVars, late, hookVars, pageVars, historyVars, cause>>
    BY <1>4 DEF SaveConflict
  <2>2. SentFetch(Request("reconcile", "page", m.question, Nothing, FALSE))
    BY <1>4 DEF SentFetch
  <2>. QED BY <1>1, <1>2, <2>1, <2>2
<1>5. CASE Reconcile(m)
  <2>1. /\ revision' = [q \in Questions |-> 0] /\ net' = net \ {m} /\ Dequeue({m.question})
        /\ UNCHANGED <<serverVars, late, timer, pageVars, historyVars, cause>>
    BY <1>5 DEF Reconcile
  <2>2. /\ queue' \in Queues /\ stored' = queue'
        /\ \A q \in Questions : queue'[q] = queue[q] \/ queue'[q] = NoItem
    BY <1>1, <2>1, Dequeuing
  <2>. QED BY <1>1, <1>2, <2>1, <2>2
<1>6. CASE Unprocessable(m)
  <2>1. PICK gone : EndExam(m, gone) /\ m.reply \in {"invalid", "ended"} BY <1>6 DEF Unprocessable
  <2>2. /\ Progress /\ Dequeue(gone) /\ UNCHANGED revision
        /\ \A q \in Questions : timer'[q] = timer[q] \/ timer'[q] = NoItem
        /\ \A n \in net' : n \in net \/ SentQueue(n)
    BY <2>1, EndingExam
  <2>3. /\ stored' = queue'
        /\ \A q \in Questions : queue'[q] = queue[q] \/ queue'[q] = NoItem
    BY <1>1, <2>2, Dequeuing
  <2>. QED BY <2>2, <2>3
<1>7. CASE MountFlushDone(m)
  <2>1. /\ Dequeue(IF m.reply = "ok" THEN Questions ELSE {}) /\ net' = net \ {m}
        /\ UNCHANGED <<serverVars, late, revision, timer, pageVars, historyVars, cause>>
    BY <1>7 DEF MountFlushDone
  <2>2. /\ queue' \in Queues /\ stored' = queue'
        /\ \A q \in Questions : queue'[q] = queue[q] \/ queue'[q] = NoItem
    BY <1>1, <2>1, Dequeuing
  <2>. QED BY <1>1, <1>2, <2>1, <2>2
<1>8. CASE FinalFlushDone(m)
  <2>1. /\ Dequeue(IF m.reply = "conflict" THEN {} ELSE Questions)
        /\ Mark(IF m.reply = "invalid" THEN Questions ELSE {}, "blanked")
        /\ flow' = [flow EXCEPT ![m.flow] = "submitting"]
        /\ net' = (net \ {m}) \cup {Submit(m.flow, queue', m.auto)}
        /\ UNCHANGED <<serverVars, late, revision, timer, load, taking, submitting, historyVars>>
        /\ m.kind = "flush" /\ m.flow # "mount"
    BY <1>8 DEF FinalFlushDone
  <2>2. /\ queue' \in Queues /\ stored' = queue'
        /\ \A q \in Questions : queue'[q] = queue[q] \/ queue'[q] = NoItem
    BY <1>1, <2>1, Dequeuing
  <2>3. CausesTyped' /\ CausesGrow BY <1>1, <2>1, Marking DEF Causes
  <2>4. Justified(m.auto)' BY <1>1, <2>1, <2>3, JustifiedKept DEF MessageHolds
  <2>5. SentQueue(Submit(m.flow, queue', m.auto))
    <3>1. m.flow \in Flows \cup {"mount"} /\ m.auto \in BOOLEAN BY <1>1, MessageTypes
    <3>. QED BY <2>4, <3>1 DEF SentQueue, Submit
  <2>6. flow' \in [Flows -> {"idle", "flushing", "submitting", "over"}] BY <1>1, <2>1
  <2>. QED BY <1>1, <2>1, <2>2, <2>3, <2>5, <2>6
<1>9. CASE SubmitReplied(m)
  <2>1. /\ EndFlow(m.flow) /\ taking' \in {taking, FALSE}
        /\ net' = Orphans(net) \/ net' = net \ {m}
        /\ UNCHANGED <<serverVars, late, hookVars, load, historyVars, cause>>
    BY <1>9 DEF SubmitReplied
  <2>2. \A n \in net' : n \in net \/ GivenUp(n) BY <2>1, OrphansGivenUp
  <2>3. /\ submitting' \in BOOLEAN
        /\ flow' \in [Flows -> {"idle", "flushing", "submitting", "over"}]
    BY <1>1, <2>1, Ending
  <2>. QED BY <1>1, <1>2, <2>1, <2>2, <2>3
<1>. QED BY <1>3, <1>4, <1>5, <1>6, <1>7, <1>8, <1>9 DEF Handle

\* The steps of the page and of the network, edits apart.
LEMMA OtherSteps ==
    ASSUME AutosaveTypeOK, MessagesHold, NEW m \in net, RequestFails(m) \/ Lose(m)
    PROVE  /\ Progress /\ UNCHANGED <<answer, attempt, revision, queue, stored, timer, cause>>
           /\ \A n \in net' : n \in net \/ GivenUp(n) \/ SentQueue(n)
<1>1. /\ ServerTyped /\ PageTyped /\ HistoryTyped /\ m \in Message /\ MessageHolds(m)
  BY AutosaveTypes DEF MessagesHold
<1>. USE DEF Progress, ServerTyped, PageTyped, HistoryTyped, serverVars, hookVars, pageVars, historyVars
<1>2. UNCHANGED cause => CausesTyped' /\ CausesGrow BY <1>1, KeepingCauses
<1>3. CASE Lose(m) BY <1>1, <1>2, <1>3 DEF Lose
<1>4. CASE RequestFails(m)
  <2>. DEFINE rest == (net \ {m}) \cup Orphans({m})
  <2>1. \A n \in rest : n \in net \/ GivenUp(n) BY OrphansGivenUp
  <2>2. UNCHANGED <<serverVars, late, hookVars, load, taking, historyVars, cause>>
    BY <1>4 DEF RequestFails
  <2>. HIDE DEF rest
  <2>3. CASE net' = rest /\ UNCHANGED <<submitting, flow>> BY <1>1, <1>2, <2>1, <2>2, <2>3
  <2>4. CASE /\ m.kind = "flush" /\ m.flow # "mount"
             /\ flow' = [flow EXCEPT ![m.flow] = "submitting"]
             /\ net' = rest \cup {Submit(m.flow, queue, m.auto)} /\ UNCHANGED submitting
    <3>1. Justified(m.auto)' BY <1>1, <1>2, <2>2, <2>4, JustifiedKept DEF MessageHolds
    <3>2. m.flow \in Flows \cup {"mount"} /\ m.auto \in BOOLEAN BY <1>1, MessageTypes
    <3>3. SentQueue(Submit(m.flow, queue, m.auto)) BY <2>2, <3>1, <3>2 DEF SentQueue, Submit
    <3>4. flow' \in [Flows -> {"idle", "flushing", "submitting", "over"}] BY <1>1, <2>4
    <3>. QED BY <1>1, <1>2, <2>1, <2>2, <2>4, <3>3, <3>4
  <2>5. CASE net' = rest /\ EndFlow(m.flow)
    <3>1. /\ submitting' \in BOOLEAN
          /\ flow' \in [Flows -> {"idle", "flushing", "submitting", "over"}]
      BY <1>1, <2>5, Ending
    <3>. QED BY <1>1, <1>2, <2>1, <2>2, <2>5, <3>1
  <2>. QED BY <1>4, <2>3, <2>4, <2>5 DEF RequestFails, rest
<1>. QED BY <1>3, <1>4

LEMMA TabSteps ==
    ASSUME AutosaveTypeOK, queue = stored,
           \/ \E q \in Questions : PersistAnswer(q)
           \/ ConfirmSubmit \/ TimeExpired \/ TelemetryRefused \/ Reload \/ DeadlinePasses
    PROVE  /\ Progress /\ UNCHANGED <<answer, attempt, queue, stored>>
           /\ \A n \in net' : n \in net \/ GivenUp(n) \/ SentSave(n) \/ SentQueue(n)
           /\ \A q \in Questions : timer'[q] = timer[q] \/ timer'[q] = NoItem
           /\ \A q \in Questions :
                \/ revision'[q] = revision[q]
                \/ revision'[q] = 0
                \/ stored[q] # NoItem /\ revision'[q] \in {1, stored[q].expected}
                   /\ "restored" \in cause'[q]
<1>1. /\ ServerTyped /\ PageTyped /\ HistoryTyped BY AutosaveTypes
<1>. USE DEF Progress, ServerTyped, PageTyped, HistoryTyped, serverVars, pageVars, historyVars
<1>2. UNCHANGED cause => CausesTyped' /\ CausesGrow BY <1>1, KeepingCauses
<1>3. ASSUME NEW f \in Flows, NEW auto \in BOOLEAN, StartSubmission(f, queue, auto, net),
             UNCHANGED queue, Justified(auto)'
      PROVE  /\ timer' \in Queues /\ submitting' \in BOOLEAN
             /\ flow' \in [Flows -> {"idle", "flushing", "submitting", "over"}]
             /\ \A q \in Questions : timer'[q] = NoItem
             /\ \A n \in net' : n \in net \/ SentQueue(n)
  <2>1. PICK kind \in {"flush", "submit"} :
          net' = net \cup {Request(kind, f, NoQuestion, queue', auto)}
    BY <1>1, <1>3, Starting
  <2>2. SentQueue(Request(kind, f, NoQuestion, queue', auto)) BY <1>3 DEF SentQueue
  <2>. QED BY <1>1, <1>3, <2>1, <2>2, Starting, EntryTypes
<1>4. ASSUME NEW q \in Questions, PersistAnswer(q)
      PROVE  /\ Progress /\ UNCHANGED <<answer, attempt, queue, stored, revision>>
             /\ \A n \in net' : n \in net \/ SentSave(n)
             /\ \A p \in Questions : timer'[p] = timer[p] \/ timer'[p] = NoItem
  <2>1. /\ timer' = [timer EXCEPT ![q] = NoItem] /\ timer[q] # NoItem
        /\ net' = net \cup {Request("save", "page", q, Only(q, timer[q]), FALSE)}
        /\ UNCHANGED <<serverVars, late, revision, queue, stored, pageVars, historyVars, cause>>
    BY <1>4 DEF PersistAnswer
  <2>2. timer' \in Queues BY <1>1, <2>1 DEF Queues
  <2>3. \A n \in net' : n \in net \/ SentSave(n) BY <2>1 DEF SentSave
  <2>4. \A p \in Questions : timer'[p] = timer[p] \/ timer'[p] = NoItem
    BY <1>1, <2>1 DEF Queues
  <2>. QED BY <1>1, <1>2, <2>1, <2>2, <2>3, <2>4
<1>5. CASE ConfirmSubmit
  <2>1. /\ asked' = TRUE /\ StartSubmission("page", queue, FALSE, net)
        /\ UNCHANGED <<serverVars, late, revision, queue, stored, load, taking, edits, latest, forbidden,
                       cause>>
    BY <1>5 DEF ConfirmSubmit
  <2>2. Justified(FALSE)' BY <2>1 DEF Justified
  <2>. QED BY <1>1, <1>2, <1>3, <2>1, <2>2 DEF Flows
<1>6. CASE TimeExpired
  <2>1. /\ late /\ StartSubmission("timer", queue, TRUE, net)
        /\ UNCHANGED <<serverVars, late, revision, queue, stored, load, taking, historyVars, cause>>
    BY <1>6 DEF TimeExpired
  <2>2. Justified(TRUE)' BY <2>1 DEF Justified
  <2>. QED BY <1>1, <1>2, <1>3, <2>1, <2>2 DEF Flows
<1>7. CASE Reload
  <2>1. /\ load' = load + 1 /\ queue' = stored /\ timer' = Nothing
        /\ revision' = [q \in Questions |-> RecoveredRevision(q)]
        /\ Mark({q \in Questions : stored[q] # NoItem}, "restored")
        /\ taking' = (attempt = "ACTIVE") /\ submitting' = FALSE
        /\ flow' = [f \in Flows |-> "idle"]
        /\ net' = Orphans(net) \cup
              {n \in {Request("flush", "mount", NoQuestion, stored, FALSE)} : stored # Nothing}
        /\ UNCHANGED <<serverVars, late, stored, historyVars>>
    BY <1>7 DEF Reload
  <2>2. /\ CausesTyped' /\ CausesGrow
        /\ \A q \in Questions : stored[q] # NoItem => "restored" \in cause'[q]
    <3>1. PICK recovered : recovered = {q \in Questions : stored[q] # NoItem} OBVIOUS
    <3>2. Mark(recovered, "restored") /\ "restored" \in Causes BY <2>1, <3>1 DEF Causes
    <3>3. CausesTyped BY <1>1
    <3>4. /\ CausesTyped' /\ CausesGrow
          /\ \A q \in Questions : q \in recovered => "restored" \in cause'[q]
      BY ONLY <3>2, <3>3, Marking
    <3>. QED BY ONLY <3>1, <3>4
  <2>3. \A q \in Questions : stored[q] = NoItem \/ stored[q].expected \in Nat
    BY <1>1 DEF Queues, Item
  <2>4. \A q \in Questions :
          /\ RecoveredRevision(q) \in Nat
          /\ RecoveredRevision(q) = 0 \/ (stored[q] # NoItem /\ RecoveredRevision(q) \in {1, stored[q].expected})
    BY <2>3 DEF RecoveredRevision
  <2>5. SentQueue(Request("flush", "mount", NoQuestion, stored, FALSE))
    BY <2>1 DEF SentQueue
  <2>6. \A n \in net' : n \in net \/ GivenUp(n) \/ SentQueue(n) BY <2>1, <2>5, OrphansGivenUp
  <2>7. timer' \in Queues /\ \A q \in Questions : timer'[q] = NoItem BY <2>1, EntryTypes
  <2>8. revision' \in [Questions -> Nat] BY <2>1, <2>4
  <2>9. \A q \in Questions :
          \/ revision'[q] = 0
          \/ stored[q] # NoItem /\ revision'[q] \in {1, stored[q].expected} /\ "restored" \in cause'[q]
    BY <2>1, <2>2, <2>4
  <2>10. load' \in Nat /\ taking' \in BOOLEAN /\ submitting' \in BOOLEAN
    <3>1. load' \in Nat BY <1>1, <2>1
    <3>2. taking' \in BOOLEAN BY <2>1, Zenon
    <3>. QED BY <2>1, <3>1, <3>2
  <2>11. flow' \in [Flows -> {"idle", "flushing", "submitting", "over"}] BY <2>1
  <2>12. Progress BY <1>1, <2>1, <2>2, <2>7, <2>8, <2>10, <2>11
  <2>. QED BY <2>1, <2>6, <2>7, <2>9, <2>12
<1>8. CASE DeadlinePasses
  <2>1. late' = TRUE /\ UNCHANGED <<serverVars, hookVars, net, pageVars, historyVars, cause>>
    BY <1>8 DEF DeadlinePasses
  <2>. QED BY <1>1, <1>2, <2>1 DEF hookVars
<1>9. CASE TelemetryRefused
  <2>1. /\ StartSubmission("page", queue, TRUE, net)
        /\ UNCHANGED <<serverVars, late, revision, queue, stored, load, taking, edits, latest, asked,
                       cause>>
    BY <1>9 DEF TelemetryRefused
  <2>2. (forbidden' = forbidden /\ (attempt # "ACTIVE" \/ late)) \/ forbidden' = TRUE
    BY <1>9 DEF TelemetryRefused
  <2>3. forbidden' \in BOOLEAN /\ (forbidden => forbidden') BY <1>1, <2>2
  <2>4. Justified(TRUE)' BY <2>1, <2>2 DEF Justified
  <2>. QED BY <1>1, <1>2, <1>3, <2>1, <2>3, <2>4 DEF Flows
<1>. QED BY <1>4, <1>5, <1>6, <1>7, <1>8, <1>9

(***************************************************************************)
(* Autosave: type correctness.                                             *)
(***************************************************************************)
\* What the page sends, and what becomes of it, is a message.
LEMMA SentTypes ==
    ASSUME AutosaveTypeOK, MessagesHold, queue' \in Queues,
           NEW n, n \in net \/ GivenUp(n) \/ SentSave(n) \/ SentQueue(n) \/ SentFetch(n) \/ SentReply(n)
    PROVE  n \in Message
<1>1. net \subseteq Message /\ timer \in Queues BY AutosaveTypes DEF PageTyped
<1>2. CASE GivenUp(n) BY <1>1, <1>2, MessageTypes DEF GivenUp
<1>3. CASE SentSave(n)
  <2>1. PICK q \in Questions : n = Request("save", "page", q, Only(q, timer[q]), FALSE)
    BY <1>3 DEF SentSave
  <2>2. Only(q, timer[q]) \in Queues BY <1>1, EntryTypes DEF Queues
  <2>. QED BY <2>1, <2>2, RequestTypes DEF Kinds, Flows
<1>4. CASE SentQueue(n)
  <2>1. PICK kind \in {"flush", "submit"}, f \in Flows \cup {"mount"}, auto \in BOOLEAN :
          n = Request(kind, f, NoQuestion, queue', auto)
    BY <1>4 DEF SentQueue
  <2>2. PICK items \in Queues : items = queue' OBVIOUS
  <2>3. kind \in Kinds BY DEF Kinds
  <2>. QED BY <2>1, <2>2, <2>3, RequestTypes
<1>5. CASE SentFetch(n)
  <2>1. PICK m \in net : SaveConflict(m) /\ n = Request("reconcile", "page", m.question, Nothing, FALSE)
    BY <1>5 DEF SentFetch
  <2>2. m.question \in Questions \cup {NoQuestion} BY <1>1, MessageTypes
  <2>. QED BY <2>1, <2>2, EntryTypes, RequestTypes DEF Kinds, Flows
<1>6. CASE SentReply(n) BY <1>1, <1>6, MessageTypes DEF SentReply
<1>. QED BY <1>1, <1>2, <1>3, <1>4, <1>5, <1>6

LEMMA AutosaveTypeStep ==
    ASSUME AutosaveTypeOK, MessagesHold, PageHolds, [AutosaveNext]_autosaveVars
    PROVE  AutosaveTypeOK'
<1>1. ASSUME Progress,
             \A n \in net' : n \in net \/ GivenUp(n) \/ SentSave(n) \/ SentQueue(n) \/ SentFetch(n)
                             \/ SentReply(n)
      PROVE  AutosaveTypeOK'
  <2>1. ServerTyped' /\ PageTyped' /\ HistoryTyped' BY <1>1 DEF Progress
  <2>2. net' \subseteq Message BY <1>1, <2>1, SentTypes DEF PageTyped
  <2>. QED BY <2>1, <2>2, AutosaveTypesAfter
<1>2. ASSUME NEW q \in Questions, NEW v \in Values \cup {Blank}, SetAnswer(q, v)
      PROVE  AutosaveTypeOK'
  <2>1. ServerTyped /\ PageTyped /\ HistoryTyped /\ net \subseteq Message BY AutosaveTypes
  <2>2. PICK item \in Item : queue' = [queue EXCEPT ![q] = item] /\ stored' = queue'
                             /\ timer' = [timer EXCEPT ![q] = item]
    BY <1>2, Editing
  <2>3. queue' \in Queues /\ stored' \in Queues /\ timer' \in Queues
    BY <2>1, <2>2 DEF PageTyped, Queues
  <2>4. /\ edits' = edits + 1 /\ latest' \in [Questions -> Edit] /\ CausesTyped'
        /\ UNCHANGED <<answer, attempt, late, revision, net, load, taking, submitting, flow, asked, forbidden>>
    BY <1>2, Editing
  <2>. QED BY <2>1, <2>3, <2>4, AutosaveTypesAfter DEF ServerTyped, PageTyped, HistoryTyped
<1>3. CASE UNCHANGED autosaveVars BY <1>3 DEF autosaveVars, AutosaveTypeOK
<1>4. ASSUME NEW m \in net, Serve(m) \/ Handle(m) \/ RequestFails(m) \/ Lose(m)
      PROVE  AutosaveTypeOK'
  <2>1. CASE Serve(m) BY <1>1, <2>1, ServeSteps
  <2>2. CASE Handle(m) BY <1>1, <2>2, HandleSteps
  <2>3. CASE RequestFails(m) \/ Lose(m) BY <1>1, <2>3, OtherSteps
  <2>. QED BY <1>4, <2>1, <2>2, <2>3
<1>5. CASE \/ \E q \in Questions : PersistAnswer(q)
           \/ ConfirmSubmit \/ TimeExpired \/ TelemetryRefused \/ Reload \/ DeadlinePasses
  BY <1>1, <1>5, TabSteps DEF PageHolds
<1>. QED BY <1>2, <1>3, <1>4, <1>5 DEF AutosaveNext

(***************************************************************************)
(* Autosave: the page, the rows and the end of the exam.                   *)
(***************************************************************************)
LEMMA GenuineKept ==
    ASSUME AutosaveTypeOK, CausesGrow, UNCHANGED latest, NEW q \in Questions, NEW x, Genuine(q, x)
    PROVE  Genuine(q, x)'
BY DEF Genuine, CausesGrow

LEMMA GenuineEdited ==
    ASSUME AutosaveTypeOK, PageHolds, NEW q \in Questions, NEW v \in Values \cup {Blank},
           SetAnswer(q, v), NEW p \in Questions, NEW x \in Item, Genuine(p, x)
    PROVE  Genuine(p, x)'
<1>1. /\ latest'[q].no = edits + 1
      /\ cause[q] \cap {"restored", "blanked"} \subseteq cause'[q]
      /\ \A z \in Questions \ {q} : latest'[z] = latest[z] /\ cause'[z] = cause[z]
  BY Editing
<1>2. latest[q].no \in Nat /\ x.no \in Nat /\ edits \in Nat /\ latest[q].no <= edits
  BY DEF AutosaveTypeOK, Edit, Item, PageHolds
<1>3. CASE p # q BY <1>1, <1>3 DEF Genuine
<1>4. CASE p = q BY <1>1, <1>2, <1>4 DEF Genuine
<1>. QED BY <1>3, <1>4

LEMMA PageProgress ==
    ASSUME AutosaveTypeOK, PageHolds, Progress, stored' = queue',
           \A q \in Questions : queue'[q] = queue[q] \/ queue'[q] = NoItem,
           \A q \in Questions : timer'[q] = timer[q] \/ timer'[q] = NoItem,
           \A q \in Questions :
             \/ revision'[q] = revision[q]
             \/ revision'[q] = 0
             \/ stored[q] # NoItem /\ revision'[q] \in {1, stored[q].expected}
                /\ "restored" \in cause'[q]
    PROVE  PageHolds'
<1>. SUFFICES ASSUME NEW q \in Questions
              PROVE  /\ latest'[q].no <= edits'
                     /\ revision'[q] \in {0, 1} /\ (revision'[q] = 1 => "restored" \in cause'[q])
                     /\ queue'[q] # NoItem => Genuine(q, queue[q])' /\ queue'[q].no = latest'[q].no
                     /\ timer'[q] # NoItem => Genuine(q, timer[q])' /\ timer'[q].no = latest'[q].no
  BY DEF PageHolds
<1>1. CausesGrow /\ UNCHANGED <<edits, latest>> BY DEF Progress
<1>2. latest'[q].no <= edits' BY <1>1 DEF PageHolds
<1>3. revision'[q] \in {0, 1} /\ (revision'[q] = 1 => "restored" \in cause'[q])
  <2>1. stored[q] # NoItem => stored[q].expected \in {0, 1} BY DEF PageHolds, Genuine
  <2>2. revision[q] \in {0, 1} /\ (revision[q] = 1 => "restored" \in cause'[q])
    BY <1>1 DEF PageHolds, CausesGrow
  <2>. QED BY <2>1, <2>2
<1>4. ASSUME queue'[q] # NoItem PROVE Genuine(q, queue[q])' /\ queue'[q].no = latest'[q].no
  <2>1. queue'[q] = queue[q] /\ Genuine(q, queue[q]) /\ queue[q].no = latest[q].no
    BY <1>4 DEF PageHolds
  <2>. QED BY <1>1, <2>1 DEF Genuine, CausesGrow
<1>5. ASSUME timer'[q] # NoItem PROVE Genuine(q, timer[q])' /\ timer'[q].no = latest'[q].no
  <2>1. timer'[q] = timer[q] /\ Genuine(q, timer[q]) /\ timer[q].no = latest[q].no
    BY <1>5 DEF PageHolds
  <2>. QED BY <1>1, <2>1 DEF Genuine, CausesGrow
<1>. QED BY <1>2, <1>3, <1>4, <1>5

LEMMA PageEdited ==
    ASSUME AutosaveTypeOK, PageHolds, NEW q \in Questions, NEW v \in Values \cup {Blank},
           SetAnswer(q, v)
    PROVE  PageHolds'
<1>1. /\ edits' = edits + 1 /\ latest'[q].no = edits + 1 /\ latest'[q].value = v
      /\ \A p \in Questions \ {q} : latest'[p] = latest[p] /\ cause'[p] = cause[p]
      /\ cause[q] \cap {"restored", "blanked"} \subseteq cause'[q]
      /\ UNCHANGED revision
  BY Editing
<1>2. PICK item \in Item :
        /\ item.no = edits + 1 /\ item.value = v /\ item.expected = revision[q]
        /\ queue' = [queue EXCEPT ![q] = item] /\ stored' = queue'
        /\ timer' = [timer EXCEPT ![q] = item]
  BY Editing
<1>3. /\ edits \in Nat /\ queue \in Queues /\ timer \in Queues
      /\ \A p \in Questions : latest[p].no \in Nat /\ latest[p].no <= edits
  BY DEF AutosaveTypeOK, Edit, Queues, PageHolds
<1>4. /\ queue'[q] = item /\ timer'[q] = item
      /\ \A p \in Questions \ {q} : queue'[p] = queue[p] /\ timer'[p] = timer[p]
  BY <1>2, <1>3 DEF Queues
<1>5. Genuine(q, item)' BY <1>1, <1>2, <1>3 DEF Genuine, PageHolds
<1>6. ASSUME NEW p \in Questions
      PROVE  /\ latest'[p].no <= edits'
             /\ revision'[p] \in {0, 1} /\ (revision'[p] = 1 => "restored" \in cause'[p])
             /\ queue'[p] # NoItem => Genuine(p, queue[p])' /\ queue'[p].no = latest'[p].no
             /\ timer'[p] # NoItem => Genuine(p, timer[p])' /\ timer'[p].no = latest'[p].no
  <2>1. CASE p = q BY <1>1, <1>2, <1>3, <1>4, <1>5, <2>1 DEF PageHolds, Genuine
  <2>2. CASE p # q BY <1>1, <1>3, <1>4, <2>2 DEF PageHolds, Genuine
  <2>. QED BY <2>1, <2>2
<1>. QED BY <1>2, <1>6 DEF PageHolds

LEMMA PageStep ==
    ASSUME AutosaveTypeOK, MessagesHold, PageHolds, [AutosaveNext]_autosaveVars
    PROVE  PageHolds'
<1>0. queue = stored BY DEF PageHolds
<1>1. ASSUME NEW m \in net, Serve(m) \/ Handle(m) \/ RequestFails(m) \/ Lose(m)
      PROVE  PageHolds'
  <2>1. CASE Serve(m) BY <1>0, <2>1, ServeSteps, PageProgress
  <2>2. CASE Handle(m) BY <1>0, <2>2, HandleSteps, PageProgress
  <2>3. CASE RequestFails(m) \/ Lose(m) BY <1>0, <2>3, OtherSteps, PageProgress
  <2>. QED BY <1>1, <2>1, <2>2, <2>3
<1>2. CASE \/ \E q \in Questions : PersistAnswer(q)
           \/ ConfirmSubmit \/ TimeExpired \/ TelemetryRefused \/ Reload \/ DeadlinePasses
  BY <1>0, <1>2, TabSteps, PageProgress
<1>3. CASE UNCHANGED autosaveVars BY <1>3 DEF autosaveVars, PageHolds, Genuine
<1>. QED BY <1>1, <1>2, <1>3, PageEdited DEF AutosaveNext

\* A request that the server takes leaves each row an edit of its question.
LEMMA RowsAccepted ==
    ASSUME AutosaveTypeOK, RowsHold, NEW m \in net, MessageHolds(m), Accept(m)
    PROVE  RowsHold'
<1>. SUFFICES ASSUME NEW q \in Questions, answer'[q] # NoAnswer
              PROVE  /\ answer'[q].revision \in {1, 2} /\ answer'[q].no <= latest'[q].no
                     /\ answer'[q].no = latest'[q].no => answer'[q].value = latest'[q].value
  BY DEF RowsHold
<1>1. /\ answer' = Applied(m) /\ UNCHANGED latest /\ (q \in Touched(m) => Acceptable(m, q))
  BY DEF Accept, historyVars
<1>2. m \in Message /\ answer \in [Questions -> Row \cup {NoAnswer}] /\ latest[q] \in Edit
  BY DEF AutosaveTypeOK
<1>3. answer[q] # NoAnswer =>
        /\ answer[q].revision \in {1, 2} /\ answer[q].no <= latest[q].no
        /\ answer[q].no = latest[q].no => answer[q].value = latest[q].value
  BY DEF RowsHold
<1>4. CASE q \notin Touched(m) BY <1>1, <1>2, <1>3, <1>4, AppliedRows
<1>5. CASE q \in Touched(m)
  <2>1. Genuine(q, m.items[q]) BY <1>5 DEF MessageHolds
  <2>2. \/ /\ Applied(m)[q].no = m.items[q].no /\ Applied(m)[q].value = m.items[q].value
           /\ Applied(m)[q].revision = IF answer[q] = NoAnswer THEN 1 ELSE answer[q].revision + 1
           /\ answer[q] = NoAnswer \/ answer[q].revision = m.items[q].expected
        \/ /\ answer[q] # NoAnswer /\ Applied(m)[q].revision = answer[q].revision
           /\ Applied(m)[q].value = answer[q].value /\ m.items[q].value = answer[q].value
           /\ Applied(m)[q].no = IF m.items[q].no > answer[q].no THEN m.items[q].no ELSE answer[q].no
    BY <1>1, <1>2, <1>5, AppliedRows
  <2>. QED BY <1>1, <1>3, <2>1, <2>2 DEF Genuine
<1>. QED BY <1>4, <1>5

LEMMA RowsStep ==
    ASSUME AutosaveTypeOK, MessagesHold, PageHolds, RowsHold, [AutosaveNext]_autosaveVars
    PROVE  RowsHold'
<1>0. queue = stored BY DEF PageHolds
<1>1. ASSUME UNCHANGED <<answer, latest>> PROVE RowsHold' BY <1>1 DEF RowsHold
<1>2. ASSUME NEW q \in Questions, NEW v \in Values \cup {Blank}, SetAnswer(q, v) PROVE RowsHold'
  <2>1. /\ UNCHANGED answer /\ latest'[q].no = edits + 1
        /\ \A p \in Questions \ {q} : latest'[p] = latest[p]
    BY <1>2, Editing
  <2>2. latest[q].no \in Nat /\ edits \in Nat /\ latest[q].no <= edits
    BY DEF AutosaveTypeOK, Edit, PageHolds
  <2>3. \A p \in Questions : answer[p] # NoAnswer => answer[p].no \in Nat
    BY DEF AutosaveTypeOK, Row
  <2>. QED BY <2>1, <2>2, <2>3 DEF RowsHold
<1>3. ASSUME NEW m \in net, Serve(m) \/ Handle(m) \/ RequestFails(m) \/ Lose(m)
      PROVE  RowsHold'
  <2>1. CASE Accept(m) BY <2>1, RowsAccepted DEF MessagesHold
  <2>2. CASE Refuse(m) \/ RefuseEnded(m) \/ GetAnswers(m)
    BY <1>1, <2>2 DEF Refuse, RefuseEnded, GetAnswers, serverVars, historyVars
  <2>3. CASE Handle(m)
    <3>1. UNCHANGED answer
      BY <2>3 DEF Handle, SaveSucceeded, SaveConflict, Reconcile, Unprocessable, EndExam,
                  MountFlushDone, FinalFlushDone, SubmitReplied, serverVars
    <3>2. UNCHANGED latest BY <2>3, HandleSteps DEF Progress
    <3>. QED BY <1>1, <3>1, <3>2
  <2>4. CASE RequestFails(m) \/ Lose(m) BY <1>1, <2>4, OtherSteps DEF Progress
  <2>. QED BY <1>3, <2>1, <2>2, <2>3, <2>4 DEF Serve
<1>4. CASE \/ \E q \in Questions : PersistAnswer(q)
           \/ ConfirmSubmit \/ TimeExpired \/ TelemetryRefused \/ Reload \/ DeadlinePasses
  BY <1>0, <1>1, <1>4, TabSteps DEF Progress
<1>5. CASE UNCHANGED autosaveVars BY <1>1, <1>5 DEF autosaveVars
<1>. QED BY <1>2, <1>3, <1>4, <1>5 DEF AutosaveNext

(***************************************************************************)
(* Autosave: the messages under way.                                       *)
(***************************************************************************)
LEMMA MessageKept ==
    ASSUME AutosaveTypeOK, Progress, NEW m, MessageHolds(m)
    PROVE  MessageHolds(m)'
<1>1. CausesGrow /\ UNCHANGED latest BY DEF Progress
<1>2. ASSUME NEW q \in Touched(m) PROVE Genuine(q, m.items[q])'
  <2>1. q \in Questions /\ Genuine(q, m.items[q]) BY DEF MessageHolds, Touched
  <2>. QED BY <1>1, <2>1 DEF Genuine, CausesGrow
<1>3. Justified(m.auto) => Justified(m.auto)' BY <1>1, JustifiedKept DEF Progress
<1>. QED BY <1>2, <1>3 DEF MessageHolds, Progress

\* A request for the entries of the dirty queue.
LEMMA QueueMessage ==
    ASSUME AutosaveTypeOK, PageHolds', queue' \in Queues, NEW n, SentQueue(n)
    PROVE  MessageHolds(n)'
<1>1. PICK kind \in {"flush", "submit"}, f \in Flows \cup {"mount"}, auto \in BOOLEAN :
        /\ n = Request(kind, f, NoQuestion, queue', auto)
        /\ kind = "submit" \/ f # "mount" => Justified(auto)'
  BY DEF SentQueue
<1>2. PICK items \in Queues : items = queue' OBVIOUS
<1>3. n = Request(kind, f, NoQuestion, items, auto) BY <1>1, <1>2
<1>4. /\ n.kind = kind /\ n.flow = f /\ n.items = items /\ n.auto = auto /\ n.reply = "none"
  BY <1>3, RequestTypes DEF Kinds
<1>5. ASSUME NEW q \in Touched(n) PROVE Genuine(q, n.items[q])'
  <2>1. q \in Questions /\ items[q] # NoItem BY <1>4 DEF Touched
  <2>2. Genuine(q, queue[q])' BY <1>2, <2>1 DEF PageHolds
  <2>. QED BY <1>2, <1>4, <2>2 DEF Genuine
<1>. QED BY <1>1, <1>4, <1>5 DEF MessageHolds

LEMMA MessagesProgress ==
    ASSUME AutosaveTypeOK, MessagesHold, PageHolds, PageHolds', Progress, NEW n,
           n \in net \/ GivenUp(n) \/ SentSave(n) \/ SentQueue(n) \/ SentFetch(n) \/ SentReply(n)
    PROVE  MessageHolds(n)'
<1>1. CASE n \in net BY <1>1, MessageKept DEF MessagesHold
<1>2. CASE GivenUp(n)
  <2>1. PICK m \in net : n = [m EXCEPT !.awaited = FALSE] BY <1>2 DEF GivenUp
  <2>2. m \in Message /\ MessageHolds(m)' BY MessageKept DEF AutosaveTypeOK, MessagesHold
  <2>3. /\ n.kind = m.kind /\ n.flow = m.flow /\ n.question = m.question /\ n.items = m.items
        /\ n.auto = m.auto /\ n.reply = m.reply
    BY <2>1, <2>2, MessageTypes
  <2>. QED BY <2>2, <2>3 DEF MessageHolds, Touched
<1>3. CASE SentSave(n)
  <2>1. PICK q \in Questions :
          timer[q] # NoItem /\ n = Request("save", "page", q, Only(q, timer[q]), FALSE)
    BY <1>3 DEF SentSave
  <2>2. PICK item \in Item : item = timer[q] BY <2>1 DEF AutosaveTypeOK
  <2>3. /\ Only(q, item) \in Queues /\ item # NoItem
        /\ \A p \in Questions : Only(q, item)[p] = IF p = q THEN item ELSE NoItem
    BY EntryTypes
  <2>4. /\ n.kind = "save" /\ n.flow = "page" /\ n.question = q /\ n.items = Only(q, item)
        /\ n.auto = FALSE /\ n.reply = "none"
    BY <2>1, <2>2 DEF Request
  <2>5. Touched(n) = {q} /\ n.items[q] = item BY <2>3, <2>4 DEF Touched
  <2>6. Genuine(q, item) BY <2>1, <2>2 DEF PageHolds
  <2>7. Genuine(q, item)' BY <2>6, GenuineKept DEF Progress
  <2>. QED BY <2>4, <2>5, <2>7 DEF MessageHolds, Touched
<1>4. CASE SentQueue(n) BY <1>4, QueueMessage DEF Progress, PageTyped
<1>5. CASE SentFetch(n)
  <2>1. PICK m \in net : SaveConflict(m) /\ n = Request("reconcile", "page", m.question, Nothing, FALSE)
    BY <1>5 DEF SentFetch
  <2>2. m.question \in Questions BY <2>1 DEF SaveConflict, MessagesHold, MessageHolds
  <2>3. /\ n.kind = "reconcile" /\ n.question = m.question /\ n.items = Nothing /\ n.reply = "none"
    BY <2>1 DEF Request
  <2>4. Touched(n) = {} BY <2>3, EntryTypes DEF Touched
  <2>. QED BY <2>2, <2>3, <2>4 DEF MessageHolds, Touched
<1>6. CASE SentReply(n)
  <2>1. PICK m \in net, r \in Replies :
          /\ n = [m EXCEPT !.reply = r]
          /\ \/ r \in {"ok", "conflict"}
             \/ Refuse(m) /\ r = "invalid"
             \/ RefuseEnded(m) /\ r = "ended"
    BY <1>6 DEF SentReply
  <2>2. m \in Message /\ MessageHolds(m)' BY MessageKept DEF AutosaveTypeOK, MessagesHold
  <2>3. /\ n.kind = m.kind /\ n.flow = m.flow /\ n.question = m.question /\ n.items = m.items
        /\ n.auto = m.auto /\ n.reply = r
    BY <2>1, <2>2, MessageTypes
  <2>4. r = "invalid" => Questions # {} BY <2>1 DEF Refuse, Touched
  <2>5. r = "ended" => attempt' # "ACTIVE" BY <2>1 DEF RefuseEnded
  <2>. QED BY <2>2, <2>3, <2>4, <2>5 DEF MessageHolds, Touched
<1>. QED BY <1>1, <1>2, <1>3, <1>4, <1>5, <1>6

LEMMA MessagesStep ==
    ASSUME AutosaveTypeOK, MessagesHold, PageHolds, [AutosaveNext]_autosaveVars
    PROVE  MessagesHold'
<1>0. queue = stored /\ PageHolds' BY PageStep DEF PageHolds
<1>1. ASSUME NEW q \in Questions, NEW v \in Values \cup {Blank}, SetAnswer(q, v),
             NEW m \in net
      PROVE  MessageHolds(m)'
  <2>1. m.items \in Queues /\ MessageHolds(m)
    BY MessageTypes DEF AutosaveTypeOK, MessagesHold
  <2>2. ASSUME NEW p \in Touched(m) PROVE Genuine(p, m.items[p])'
    <3>1. p \in Questions /\ m.items[p] \in Item /\ Genuine(p, m.items[p])
      BY <2>1 DEF Touched, Queues, MessageHolds
    <3>. QED BY <1>1, <3>1, GenuineEdited
  <2>3. /\ \A p \in Questions : "blanked" \in cause[p] => "blanked" \in cause'[p]
        /\ UNCHANGED <<attempt, late, asked, forbidden>>
    BY <1>1, Editing
  <2>4. Justified(m.auto) => Justified(m.auto)' BY <2>3 DEF Justified
  <2>. QED BY <2>1, <2>2, <2>3, <2>4 DEF MessageHolds, Touched
<1>2. ASSUME NEW q \in Questions, NEW v \in Values \cup {Blank}, SetAnswer(q, v)
      PROVE  MessagesHold'
  BY <1>1, <1>2, Editing DEF MessagesHold
<1>3. ASSUME NEW m \in net, Serve(m) \/ Handle(m) \/ RequestFails(m) \/ Lose(m)
      PROVE  MessagesHold'
  <2>1. CASE Serve(m) BY <1>0, <2>1, ServeSteps, MessagesProgress DEF MessagesHold
  <2>2. CASE Handle(m) BY <1>0, <2>2, HandleSteps, MessagesProgress DEF MessagesHold
  <2>3. CASE RequestFails(m) \/ Lose(m)
    BY <1>0, <2>3, OtherSteps, MessagesProgress DEF MessagesHold
  <2>. QED BY <1>3, <2>1, <2>2, <2>3
<1>4. CASE \/ \E q \in Questions : PersistAnswer(q)
           \/ ConfirmSubmit \/ TimeExpired \/ TelemetryRefused \/ Reload \/ DeadlinePasses
  BY <1>0, <1>4, TabSteps, MessagesProgress DEF MessagesHold
<1>5. CASE UNCHANGED autosaveVars
  BY <1>5 DEF autosaveVars, MessagesHold, MessageHolds, Touched, Genuine, Justified
<1>. QED BY <1>2, <1>3, <1>4, <1>5 DEF AutosaveNext

(***************************************************************************)
(* Autosave: why the exam ended, and what overtook an edit.                *)
(***************************************************************************)
LEMMA EndStep ==
    ASSUME AutosaveTypeOK, MessagesHold, PageHolds, EndsForAReason, [AutosaveNext]_autosaveVars
    PROVE  EndsForAReason'
<1>0. queue = stored BY DEF PageHolds
<1>1. ASSUME Progress, UNCHANGED attempt PROVE EndsForAReason'
  BY <1>1 DEF Progress, CausesGrow, EndsForAReason
<1>2. ASSUME NEW q \in Questions, NEW v \in Values \cup {Blank}, SetAnswer(q, v)
      PROVE  EndsForAReason'
  <2>1. /\ \A p \in Questions : "blanked" \in cause[p] => "blanked" \in cause'[p]
        /\ UNCHANGED <<attempt, late, asked, forbidden>>
    BY <1>2, Editing
  <2>. QED BY <2>1 DEF EndsForAReason
<1>3. ASSUME NEW m \in net, Serve(m) PROVE EndsForAReason'
  <2>0. Progress BY <1>3, ServeSteps
  <2>1. CASE Accept(m)
    <3>1. /\ attempt = "ACTIVE"
          /\ attempt' = IF m.kind # "submit" THEN "ACTIVE"
                        ELSE IF late \/ m.auto THEN "EXPIRED" ELSE "SUBMITTED"
          /\ UNCHANGED <<late, asked, forbidden>>
      BY <2>1 DEF Accept, historyVars
    <3>2. m.kind = "submit" => Justified(m.auto) BY DEF MessagesHold, MessageHolds
    <3>3. \A q \in Questions : "blanked" \in cause[q] => "blanked" \in cause'[q]
      BY <2>0 DEF Progress, CausesGrow
    <3>. QED BY <3>1, <3>2, <3>3 DEF Justified, EndsForAReason
  <2>2. CASE Refuse(m) BY <1>1, <2>0, <2>2 DEF Refuse, serverVars
  <2>3. CASE RefuseEnded(m)
    <3>1. attempt' = attempt \/ (attempt' = "EXPIRED" /\ late /\ late')
      BY <2>3 DEF RefuseEnded
    <3>. QED BY <1>1, <2>0, <3>1 DEF EndsForAReason
  <2>4. CASE GetAnswers(m)
    <3>1. attempt' = attempt \/ (attempt' = "EXPIRED" /\ late /\ late') BY <2>4 DEF GetAnswers
    <3>. QED BY <1>1, <2>0, <3>1 DEF EndsForAReason
  <2>. QED BY <1>3, <2>1, <2>2, <2>3, <2>4 DEF Serve
<1>4. ASSUME NEW m \in net, Handle(m) PROVE EndsForAReason'
  <2>1. UNCHANGED attempt
    BY <1>4 DEF Handle, SaveSucceeded, SaveConflict, Reconcile, Unprocessable, EndExam,
                MountFlushDone, FinalFlushDone, SubmitReplied, serverVars
  <2>. QED BY <1>1, <1>4, <2>1, HandleSteps
<1>5. ASSUME NEW m \in net, RequestFails(m) \/ Lose(m) PROVE EndsForAReason'
  BY <1>1, <1>5, OtherSteps
<1>6. CASE \/ \E q \in Questions : PersistAnswer(q)
           \/ ConfirmSubmit \/ TimeExpired \/ TelemetryRefused \/ Reload \/ DeadlinePasses
  BY <1>0, <1>1, <1>6, TabSteps
<1>7. CASE UNCHANGED autosaveVars BY <1>7 DEF autosaveVars, EndsForAReason
<1>. QED BY <1>2, <1>3, <1>4, <1>5, <1>6, <1>7 DEF AutosaveNext

LEMMA OvertakenStep ==
    ASSUME AutosaveTypeOK, MessagesHold, PageHolds, RowsHold, OvertakenOnlyAfterRestore,
           [AutosaveNext]_autosaveVars
    PROVE  OvertakenOnlyAfterRestore'
<1>0. queue = stored BY DEF PageHolds
\* A step that overtakes no edit.
<1>1. ASSUME \A q \in Questions : /\ "restored" \in cause[q] => "restored" \in cause'[q]
                                  /\ "overtaken" \in cause'[q] => "overtaken" \in cause[q]
      PROVE  OvertakenOnlyAfterRestore'
  BY <1>1 DEF OvertakenOnlyAfterRestore
<1>2. ASSUME UNCHANGED cause PROVE OvertakenOnlyAfterRestore' BY <1>1, <1>2
<1>3. ASSUME NEW c \in {"rejected", "blanked", "restored"}, NEW questions, Mark(questions, c)
      PROVE  OvertakenOnlyAfterRestore'
  <2>1. \A q \in Questions : cause'[q] = cause[q] \/ cause'[q] = cause[q] \cup {c} BY <1>3 DEF Mark
  <2>. QED BY <1>1, <2>1
<1>4. ASSUME NEW q \in Questions, NEW v \in Values \cup {Blank}, SetAnswer(q, v)
      PROVE  OvertakenOnlyAfterRestore'
  <2>1. /\ "overtaken" \notin cause'[q]
        /\ \A p \in Questions \ {q} : cause'[p] = cause[p]
    BY <1>4, Editing
  <2>. QED BY <2>1 DEF OvertakenOnlyAfterRestore
<1>5. ASSUME NEW m \in net, Accept(m) PROVE OvertakenOnlyAfterRestore'
  <2>1. /\ Mark(Overtaken(m), "overtaken") /\ \A q \in Touched(m) : Acceptable(m, q)
    BY <1>5 DEF Accept
  <2>2. \A q \in Questions :
          /\ q \notin Overtaken(m) => cause'[q] = cause[q]
          /\ cause[q] \subseteq cause'[q]
    BY <2>1 DEF Mark
  <2>3. ASSUME NEW q \in Overtaken(m) PROVE "restored" \in cause[q]
    <3>1. q \in Questions /\ q \in Touched(m) /\ answer[q] # NoAnswer /\ Applied(m)[q].no < answer[q].no
      BY DEF Overtaken, Touched
    <3>2. m \in Message /\ answer \in [Questions -> Row \cup {NoAnswer}] /\ Acceptable(m, q)
      BY <2>1, <3>1 DEF AutosaveTypeOK
    <3>3. /\ answer[q] \in Row /\ answer[q].no \in Nat /\ m.items[q].no \in Nat
      <4>1. m.items \in Queues BY <3>2, MessageTypes
      <4>2. m.items[q] \in Item BY <3>1, <4>1 DEF Queues, Touched
      <4>. QED BY <3>1, <3>2, <4>2 DEF Row, Item
    <3>4. answer[q].revision = m.items[q].expected
      <4>1. \/ answer[q].revision = m.items[q].expected
            \/ Applied(m)[q].no = IF m.items[q].no > answer[q].no THEN m.items[q].no ELSE answer[q].no
        BY <3>1, <3>2, AppliedRows
      <4>. QED BY <3>1, <3>3, <4>1
    <3>5. answer[q].revision \in {1, 2} BY <3>1 DEF RowsHold
    <3>6. Genuine(q, m.items[q]) BY <3>1 DEF MessagesHold, MessageHolds
    <3>. QED BY <3>4, <3>5, <3>6 DEF Genuine
  <2>. QED BY <2>2, <2>3 DEF OvertakenOnlyAfterRestore
<1>6. ASSUME NEW m \in net, Serve(m) PROVE OvertakenOnlyAfterRestore'
  <2>1. CASE Refuse(m)
    <3>1. PICK q \in Touched(m) :
            Mark({q} \cap {p \in Questions : latest[p].no = m.items[q].no}, "rejected")
      BY <2>1 DEF Refuse
    <3>2. PICK questions : questions = {q} \cap {p \in Questions : latest[p].no = m.items[q].no}
      OBVIOUS
    <3>. QED BY <1>3, <3>1, <3>2
  <2>2. CASE RefuseEnded(m) \/ GetAnswers(m) BY <1>2, <2>2 DEF RefuseEnded, GetAnswers
  <2>. QED BY <1>5, <1>6, <2>1, <2>2 DEF Serve
<1>7. ASSUME NEW m \in net, Handle(m) PROVE OvertakenOnlyAfterRestore'
  <2>1. CASE Unprocessable(m) \/ FinalFlushDone(m)
    <3>1. PICK questions : questions = IF m.reply = "invalid" THEN Questions ELSE {} OBVIOUS
    <3>2. Mark(questions, "blanked")
      BY <2>1, <3>1 DEF Unprocessable, EndExam, FinalFlushDone
    <3>. QED BY <1>3, <3>2
  <2>2. CASE \/ SaveSucceeded(m) \/ SaveConflict(m) \/ Reconcile(m)
             \/ MountFlushDone(m) \/ SubmitReplied(m)
    BY <1>2, <2>2 DEF SaveSucceeded, SaveConflict, Reconcile, MountFlushDone, SubmitReplied
  <2>. QED BY <1>7, <2>1, <2>2 DEF Handle
<1>8. ASSUME NEW m \in net, RequestFails(m) \/ Lose(m) PROVE OvertakenOnlyAfterRestore'
  BY <1>2, <1>8 DEF RequestFails, Lose
<1>9. CASE Reload
  <2>1. PICK questions : questions = {q \in Questions : stored[q] # NoItem} OBVIOUS
  <2>2. Mark(questions, "restored") BY <1>9, <2>1 DEF Reload
  <2>. QED BY <1>3, <2>2
<1>10. CASE \/ \E q \in Questions : PersistAnswer(q)
            \/ ConfirmSubmit \/ TimeExpired \/ TelemetryRefused \/ DeadlinePasses
  BY <1>2, <1>10 DEF PersistAnswer, ConfirmSubmit, TimeExpired, TelemetryRefused, DeadlinePasses
<1>11. CASE UNCHANGED autosaveVars BY <1>2, <1>11 DEF autosaveVars
<1>. QED BY <1>4, <1>6, <1>7, <1>8, <1>9, <1>10, <1>11 DEF AutosaveNext

(***************************************************************************)
(* Autosave: where the last edit of a question is.                         *)
(***************************************************************************)
Saved(q) == answer[q] # NoAnswer /\ answer[q].no = latest[q].no

EditHolds(q) ==
    latest[q].no > 0 /\ attempt # "EXPIRED" =>
        Excused(q) \/ Saved(q) \/ (attempt = "ACTIVE" /\ stored[q] # NoItem)
EditsHold == \A q \in Questions : EditHolds(q)

\* What the page will conclude from the reply to m, it may conclude about q: an entry is
\* deleted only when the edit is saved; what a submission leaves out is not dirty.
ReplyHolds(m, q) ==
    attempt # "EXPIRED" /\ latest[q].no > 0 /\ ~Excused(q) =>
        /\ m.awaited /\ m.kind = "save" /\ m.question = q =>
              /\ m.items[q].no = latest[q].no /\ m.reply \notin {"conflict", "invalid"}
              /\ m.reply = "ok" => Saved(q)
        /\ m.awaited /\ m.kind = "reconcile" => m.question # q
        /\ m.awaited /\ m.kind = "flush" =>
              IF q \in Touched(m) THEN m.items[q].no = latest[q].no /\ (m.reply = "ok" => Saved(q))
              ELSE queue[q] = NoItem
        /\ m.kind = "submit" /\ m.reply = "none" /\ attempt = "ACTIVE" =>
              IF q \in Touched(m) THEN m.items[q].no = latest[q].no ELSE queue[q] = NoItem
RepliesHold == \A m \in net, q \in Questions : ReplyHolds(m, q)

\* A step that changes nothing for the worse about q.
Calm(q) ==
    /\ latest'[q] = latest[q] /\ (Excused(q) => Excused(q)')
    /\ Saved(q) => Saved(q)' \/ Excused(q)'
    /\ queue[q] = NoItem => queue'[q] = NoItem
    /\ attempt' = "ACTIVE" => attempt = "ACTIVE"
    /\ attempt' # "EXPIRED" => attempt # "EXPIRED"

LEMMA ReplyKept ==
    ASSUME NEW q \in Questions, NEW m, Calm(q), ReplyHolds(m, q)
    PROVE  ReplyHolds(m, q)'
BY DEF Calm, ReplyHolds, Touched

\* An accepted item saves the edit it carries, and takes no later one off the server
\* without a trace.
LEMMA Accepted ==
    ASSUME AutosaveTypeOK, RowsHold, NEW m \in net, MessageHolds(m), Accept(m),
           NEW q \in Questions
    PROVE  /\ q \in Touched(m) /\ m.items[q].no = latest[q].no => Saved(q)'
           /\ Saved(q) => Saved(q)' \/ Excused(q)'
<1>1. /\ answer' = Applied(m) /\ UNCHANGED latest /\ (q \in Touched(m) => Acceptable(m, q))
      /\ Mark(Overtaken(m), "overtaken")
  BY DEF Accept, historyVars
<1>2. /\ m \in Message /\ answer \in [Questions -> Row \cup {NoAnswer}] /\ latest[q].no \in Nat
      /\ NoAnswer \notin Row
  BY EntryTypes DEF AutosaveTypeOK, Edit
<1>3. answer[q] # NoAnswer => answer[q].no \in Nat /\ answer[q].no <= latest[q].no
  BY <1>2 DEF RowsHold, Row
<1>4. CASE q \notin Touched(m) BY <1>1, <1>2, <1>4, AppliedRows DEF Saved
<1>5. CASE q \in Touched(m)
  <2>1. m.items[q].no \in Nat /\ m.items[q].no <= latest[q].no
    <3>1. m.items \in Queues BY <1>2, MessageTypes
    <3>2. m.items[q] \in Item BY <1>5, <3>1 DEF Queues, Touched
    <3>. QED BY <1>5, <3>2 DEF Item, MessageHolds, Genuine
  <2>2. /\ Applied(m)[q] \in Row
        /\ \/ Applied(m)[q].no = m.items[q].no
           \/ /\ answer[q] # NoAnswer
              /\ Applied(m)[q].no = IF m.items[q].no > answer[q].no THEN m.items[q].no ELSE answer[q].no
    BY <1>1, <1>2, <1>5, AppliedRows
  <2>3. m.items[q].no = latest[q].no => Saved(q)' BY <1>1, <1>2, <1>3, <2>1, <2>2 DEF Saved
  <2>4. ASSUME Saved(q), ~Saved(q)' PROVE Excused(q)'
    <3>1. Applied(m)[q].no < answer[q].no BY <1>1, <1>2, <1>3, <2>1, <2>2, <2>4 DEF Saved
    <3>2. q \in Overtaken(m) BY <1>5, <2>4, <3>1 DEF Overtaken, Saved
    <3>3. "overtaken" \in cause'[q] BY <1>1, <3>2 DEF Mark
    <3>. QED BY <3>3 DEF Excused
  <2>. QED BY <2>3, <2>4
<1>. QED BY <1>4, <1>5

LEMMA ProgressCalm ==
    ASSUME Progress, UNCHANGED answer, attempt # "EXPIRED",
           \A q \in Questions : queue'[q] = queue[q] \/ queue'[q] = NoItem,
           NEW q \in Questions
    PROVE  Calm(q)
<1>1. Excused(q) => Excused(q)' BY DEF Progress, CausesGrow, Excused
<1>2. Saved(q) => Saved(q)' BY DEF Progress, Saved
<1>. QED BY <1>1, <1>2 DEF Calm, Progress

\* Every step is calm about the questions that the candidate does not edit in it.
LEMMA StepsAreCalm ==
    ASSUME AutosaveTypeOK, MessagesHold, PageHolds, RowsHold, AutosaveNext,
           NEW q \in Questions, ~\E v \in Values \cup {Blank} : SetAnswer(q, v)
    PROVE  Calm(q)
<1>0. queue = stored /\ attempt # "EXPIRED" BY DEF PageHolds, AutosaveNext
<1>1. ASSUME NEW p \in Questions, NEW v \in Values \cup {Blank}, SetAnswer(p, v) PROVE Calm(q)
  <2>1. p # q BY <1>1
  <2>2. latest'[q] = latest[q] /\ cause'[q] = cause[q] /\ UNCHANGED <<answer, attempt>>
    BY <1>1, <2>1, Editing
  <2>3. queue'[q] = queue[q]
    <3>1. queue \in Queues BY DEF AutosaveTypeOK, Queues
    <3>2. PICK item \in Item : queue' = [queue EXCEPT ![p] = item] BY <1>1, Editing
    <3>. QED BY <2>1, <3>1, <3>2 DEF Queues
  <2>4. (Excused(q) => Excused(q)') /\ (Saved(q) => Saved(q)') BY <2>2 DEF Excused, Saved
  <2>. QED BY <1>0, <2>2, <2>3, <2>4 DEF Calm
<1>2. ASSUME NEW m \in net, Serve(m) PROVE Calm(q)
  <2>1. Progress /\ UNCHANGED queue BY <1>2, ServeSteps
  <2>2. CASE Accept(m)
    <3>1. Saved(q) => Saved(q)' \/ Excused(q)' BY <2>2, Accepted DEF MessagesHold
    <3>2. Excused(q) => Excused(q)' BY <2>1 DEF Progress, CausesGrow, Excused
    <3>. QED BY <1>0, <2>1, <3>1, <3>2 DEF Calm, Progress
  <2>3. CASE Refuse(m) \/ RefuseEnded(m) \/ GetAnswers(m)
    <3>1. UNCHANGED answer BY <2>3 DEF Refuse, RefuseEnded, GetAnswers, serverVars
    <3>. QED BY <1>0, <2>1, <3>1, ProgressCalm
  <2>. QED BY <1>2, <2>2, <2>3 DEF Serve
<1>3. ASSUME NEW m \in net, Handle(m) PROVE Calm(q)
  <2>1. UNCHANGED answer
    BY <1>3 DEF Handle, SaveSucceeded, SaveConflict, Reconcile, Unprocessable, EndExam,
                MountFlushDone, FinalFlushDone, SubmitReplied, serverVars
  <2>. QED BY <1>0, <1>3, <2>1, HandleSteps, ProgressCalm
<1>4. ASSUME NEW m \in net, RequestFails(m) \/ Lose(m) PROVE Calm(q)
  BY <1>0, <1>4, OtherSteps, ProgressCalm
<1>5. CASE \/ \E p \in Questions : PersistAnswer(p)
           \/ ConfirmSubmit \/ TimeExpired \/ TelemetryRefused \/ Reload \/ DeadlinePasses
  BY <1>0, <1>5, TabSteps, ProgressCalm
<1>. QED BY <1>1, <1>2, <1>3, <1>4, <1>5 DEF AutosaveNext

\* What a message that was sent in a step will make the page conclude about q.
LEMMA RepliesProgress ==
    ASSUME AutosaveTypeOK, MessagesHold, PageHolds, PageHolds', RowsHold, RepliesHold,
           Progress, NEW q \in Questions, Calm(q), NEW n,
           n \in net \/ GivenUp(n) \/ SentSave(n) \/ SentQueue(n) \/ SentFetch(n) \/ SentReply(n)
    PROVE  ReplyHolds(n, q)'
<1>1. CASE n \in net BY <1>1, ReplyKept DEF RepliesHold
<1>2. CASE GivenUp(n)
  <2>1. PICK m \in net : n = [m EXCEPT !.awaited = FALSE] BY <1>2 DEF GivenUp
  <2>2. m \in Message /\ ReplyHolds(m, q)' BY ReplyKept DEF AutosaveTypeOK, RepliesHold
  <2>3. ~n.awaited /\ n.kind = m.kind /\ n.items = m.items /\ n.reply = m.reply
    BY <2>1, <2>2, MessageTypes
  <2>. QED BY <2>2, <2>3 DEF ReplyHolds, Touched
<1>3. CASE SentSave(n)
  <2>1. PICK p \in Questions :
          timer[p] # NoItem /\ n = Request("save", "page", p, Only(p, timer[p]), FALSE)
    BY <1>3 DEF SentSave
  <2>2. PICK item \in Item : item = timer[p] BY <2>1 DEF AutosaveTypeOK
  <2>3. n.kind = "save" /\ n.question = p /\ n.items = Only(p, item) /\ n.reply = "none"
    BY <2>1, <2>2 DEF Request
  <2>4. n.items[p].no = latest[p].no
    <3>1. Only(p, item)[p] = item BY EntryTypes
    <3>2. item.no = latest[p].no BY <2>1, <2>2 DEF PageHolds
    <3>. QED BY <2>3, <3>1, <3>2
  <2>5. UNCHANGED latest BY DEF Progress
  <2>. QED BY <2>3, <2>4, <2>5 DEF ReplyHolds
<1>4. CASE SentQueue(n)
  <2>1. PICK kind \in {"flush", "submit"}, f \in Flows \cup {"mount"}, auto \in BOOLEAN :
          n = Request(kind, f, NoQuestion, queue', auto)
    BY <1>4 DEF SentQueue
  <2>2. PICK items : items = queue' OBVIOUS
  <2>3. n.kind = kind /\ n.items = items /\ n.reply = "none" BY <2>1, <2>2 DEF Request
  <2>4. queue'[q] # NoItem => queue'[q].no = latest'[q].no BY DEF PageHolds
  <2>5. q \in Touched(n) <=> queue'[q] # NoItem BY <2>2, <2>3 DEF Touched
  <2>. QED BY <2>2, <2>3, <2>4, <2>5 DEF ReplyHolds, Touched
<1>5. CASE SentFetch(n)
  <2>1. PICK m \in net : SaveConflict(m) /\ n = Request("reconcile", "page", m.question, Nothing, FALSE)
    BY <1>5 DEF SentFetch
  <2>2. ReplyHolds(m, q)' BY ReplyKept DEF RepliesHold
  <2>3. m.kind = "save" /\ m.awaited /\ m.reply = "conflict" BY <2>1 DEF SaveConflict, Mine
  <2>4. n.kind = "reconcile" /\ n.question = m.question BY <2>1 DEF Request
  <2>. QED BY <2>2, <2>3, <2>4 DEF ReplyHolds
<1>6. CASE SentReply(n)
  <2>1. PICK m \in net, r \in Replies :
          /\ m.awaited /\ m.reply = "none" /\ n = [m EXCEPT !.reply = r]
          /\ \/ Accept(m) /\ r = "ok"
             \/ Refuse(m) /\ r \in {"conflict", "invalid"}
             \/ RefuseEnded(m) /\ r = "ended"
             \/ GetAnswers(m) /\ r = "ok"
    BY <1>6 DEF SentReply
  <2>2. m \in Message /\ ReplyHolds(m, q)' /\ MessageHolds(m)
    BY ReplyKept DEF AutosaveTypeOK, RepliesHold, MessagesHold
  <2>3. /\ n.kind = m.kind /\ n.question = m.question /\ n.items = m.items /\ n.reply = r
        /\ n.awaited = m.awaited
    BY <2>1, <2>2, MessageTypes
  <2>4. UNCHANGED latest BY DEF Progress
  <2>5. r = "ok" /\ m.kind # "reconcile" /\ q \in Touched(m) /\ m.items[q].no = latest[q].no => Saved(q)'
    <3>1. r = "ok" /\ m.kind # "reconcile" => Accept(m) BY <2>1 DEF GetAnswers
    <3>. QED BY <2>2, <3>1, Accepted
  <2>6. ASSUME r \in {"conflict", "invalid"}, m.kind = "save", m.question = q,
               m.items[q].no = latest[q].no
        PROVE  Excused(q)'
    <3>1. PICK p \in Touched(m) :
            Mark({p} \cap {z \in Questions : latest[z].no = m.items[p].no}, "rejected")
      BY <2>1, <2>6 DEF Refuse
    <3>2. p = q BY <2>2, <2>6 DEF MessageHolds
    <3>3. "rejected" \in cause'[q] BY <2>6, <3>1, <3>2 DEF Mark
    <3>. QED BY <3>3 DEF Excused
  <2>7. r # "none" BY <2>1
  <2>8. Touched(n) = Touched(m) /\ (m.kind = "save" => Touched(m) = {m.question})
    BY <2>2, <2>3 DEF Touched, MessageHolds
  <2>9. SUFFICES ASSUME attempt' # "EXPIRED", latest'[q].no > 0, ~Excused(q)'
                 PROVE  /\ n.awaited /\ n.kind = "save" /\ n.question = q =>
                              /\ n.items[q].no = latest'[q].no /\ n.reply \notin {"conflict", "invalid"}
                              /\ n.reply = "ok" => Saved(q)'
                        /\ n.awaited /\ n.kind = "reconcile" => n.question # q
                        /\ n.awaited /\ n.kind = "flush" =>
                              IF q \in Touched(n)
                              THEN n.items[q].no = latest'[q].no /\ (n.reply = "ok" => Saved(q)')
                              ELSE queue'[q] = NoItem
    BY <2>3, <2>7 DEF ReplyHolds, Touched
  <2>10. m.awaited /\ m.kind = "save" /\ m.question = q => m.items[q].no = latest'[q].no
    BY <2>2, <2>9 DEF ReplyHolds
  <2>11. m.awaited /\ m.kind = "reconcile" => m.question # q BY <2>2, <2>9 DEF ReplyHolds
  <2>12. m.awaited /\ m.kind = "flush" =>
           IF q \in Touched(m) THEN m.items[q].no = latest'[q].no ELSE queue'[q] = NoItem
    BY <2>2, <2>9 DEF ReplyHolds, Touched
  <2>. QED BY <2>3, <2>4, <2>5, <2>6, <2>8, <2>9, <2>10, <2>11, <2>12
<1>. QED BY <1>1, <1>2, <1>3, <1>4, <1>5, <1>6

LEMMA ProgressEditsNothing ==
    ASSUME AutosaveTypeOK, PageHolds, NEW q \in Questions, latest'[q] = latest[q]
    PROVE  ~\E v \in Values \cup {Blank} : SetAnswer(q, v)
<1>1. latest[q].no \in Nat /\ edits \in Nat /\ latest[q].no <= edits
  BY DEF AutosaveTypeOK, Edit, PageHolds
<1>2. \A v \in Values \cup {Blank} : SetAnswer(q, v) => latest'[q].no = edits + 1 BY Editing
<1>. QED BY <1>1, <1>2

LEMMA RepliesStep ==
    ASSUME AutosaveTypeOK, MessagesHold, PageHolds, RowsHold, RepliesHold,
           [AutosaveNext]_autosaveVars
    PROVE  RepliesHold'
<1>0. queue = stored /\ PageHolds' BY PageStep DEF PageHolds
<1>1. ASSUME AutosaveNext, NEW p \in Questions, NEW v \in Values \cup {Blank}, SetAnswer(p, v)
      PROVE  RepliesHold'
  <2>1. /\ UNCHANGED <<net, attempt>>
        /\ MayDrop(p) => "overlapped" \in cause'[p]
    BY <1>1, Editing
  <2>2. ASSUME NEW m \in net PROVE ReplyHolds(m, p)'
    <3>1. CASE MayDrop(p) BY <2>1, <3>1 DEF ReplyHolds, Excused
    <3>2. CASE ~MayDrop(p)
      <4>1. ~(m.awaited /\ (m.question = p \/ m.kind = "flush")) /\ m.kind # "submit"
        BY <3>2 DEF MayDrop
      <4>. QED BY <4>1 DEF ReplyHolds
    <3>. QED BY <3>1, <3>2
  <2>3. ASSUME NEW m \in net, NEW q \in Questions, q # p PROVE ReplyHolds(m, q)'
    <3>1. latest'[q] = latest[q] BY <1>1, <2>3, Editing
    <3>. QED BY <1>1, <3>1, ProgressEditsNothing, StepsAreCalm, ReplyKept DEF RepliesHold
  <2>. QED BY <2>1, <2>2, <2>3 DEF RepliesHold
<1>2. ASSUME AutosaveNext, Progress,
             \A n \in net' : n \in net \/ GivenUp(n) \/ SentSave(n) \/ SentQueue(n) \/ SentFetch(n)
                             \/ SentReply(n)
      PROVE  RepliesHold'
  <2>1. ASSUME NEW q \in Questions PROVE Calm(q)
    BY <1>2, ProgressEditsNothing, StepsAreCalm DEF Progress
  <2>2. ASSUME NEW n \in net', NEW q \in Questions PROVE ReplyHolds(n, q)'
    BY <1>0, <1>2, <2>1, RepliesProgress
  <2>. QED BY <2>2 DEF RepliesHold
<1>3. ASSUME AutosaveNext, NEW m \in net, Serve(m) \/ Handle(m) \/ RequestFails(m) \/ Lose(m)
      PROVE  RepliesHold'
  <2>1. CASE Serve(m) BY <1>2, <1>3, <2>1, ServeSteps
  <2>2. CASE Handle(m) BY <1>2, <1>3, <2>2, HandleSteps
  <2>3. CASE RequestFails(m) \/ Lose(m) BY <1>2, <1>3, <2>3, OtherSteps
  <2>. QED BY <1>3, <2>1, <2>2, <2>3
<1>4. ASSUME AutosaveNext,
             \/ \E q \in Questions : PersistAnswer(q)
             \/ ConfirmSubmit \/ TimeExpired \/ TelemetryRefused \/ Reload \/ DeadlinePasses
      PROVE  RepliesHold'
  BY <1>0, <1>2, <1>4, TabSteps
<1>5. CASE UNCHANGED autosaveVars
  BY <1>5 DEF autosaveVars, RepliesHold, ReplyHolds, Touched, Saved, Excused
<1>. QED BY <1>1, <1>3, <1>4, <1>5 DEF AutosaveNext

\* A step that takes an entry, or the exam, from the page leaves the edit on the server.
LEMMA EditKept ==
    ASSUME NEW q \in Questions, EditHolds(q), Calm(q),
           attempt = "ACTIVE" /\ stored[q] # NoItem =>
               \/ attempt' = "ACTIVE" /\ stored'[q] # NoItem
               \/ attempt' = "EXPIRED" \/ Saved(q)' \/ Excused(q)'
    PROVE  EditHolds(q)'
BY DEF EditHolds, Calm

LEMMA EditsStep ==
    ASSUME AutosaveTypeOK, MessagesHold, PageHolds, RowsHold, RepliesHold, EditsHold,
           [AutosaveNext]_autosaveVars
    PROVE  EditsHold'
<1>0. queue = stored BY DEF PageHolds
<1>1. ASSUME AutosaveNext, NEW p \in Questions, NEW v \in Values \cup {Blank}, SetAnswer(p, v)
      PROVE  EditsHold'
  <2>1. /\ UNCHANGED attempt /\ (MayDrop(p) => "overlapped" \in cause'[p])
        /\ \E item \in Item : queue' = [queue EXCEPT ![p] = item] /\ stored' = queue'
    BY <1>1, Editing
  <2>2. stored'[p] \in Item /\ \A q \in Questions \ {p} : stored'[q] = stored[q]
    <3>1. queue \in Queues BY DEF AutosaveTypeOK, Queues
    <3>. QED BY <1>0, <2>1, <3>1 DEF Queues
  <2>3. EditHolds(p)'
    <3>1. CASE MayDrop(p) BY <2>1, <3>1 DEF EditHolds, Excused
    <3>2. CASE ~MayDrop(p)
      <4>1. attempt' = "ACTIVE" BY <2>1, <3>2 DEF MayDrop
      <4>2. stored'[p] # NoItem BY <2>2, EntryTypes
      <4>. QED BY <4>1, <4>2 DEF EditHolds
    <3>. QED BY <3>1, <3>2
  <2>4. ASSUME NEW q \in Questions, q # p PROVE EditHolds(q)'
    <3>1. latest'[q] = latest[q] BY <1>1, <2>4, Editing
    <3>2. Calm(q) BY <1>1, <3>1, ProgressEditsNothing, StepsAreCalm
    <3>. QED BY <2>1, <2>2, <2>4, <3>2, EditKept DEF EditsHold
  <2>. QED BY <2>3, <2>4 DEF EditsHold
<1>2. ASSUME AutosaveNext, Progress, NEW q \in Questions PROVE Calm(q) /\ EditHolds(q)
  BY <1>2, ProgressEditsNothing, StepsAreCalm DEF Progress, EditsHold
<1>3. ASSUME AutosaveNext, Progress, UNCHANGED <<attempt, stored>> PROVE EditsHold'
  BY <1>2, <1>3, EditKept DEF EditsHold
<1>4. ASSUME AutosaveNext, NEW m \in net, Serve(m) PROVE EditsHold'
  <2>1. Progress /\ UNCHANGED stored BY <1>4, ServeSteps
  <2>2. ASSUME NEW q \in Questions, attempt = "ACTIVE", stored[q] # NoItem,
               attempt' \notin {"ACTIVE", "EXPIRED"}, ~Excused(q)', EditHolds(q), Calm(q)
        PROVE  Saved(q)'
    <3>1. Accept(m) /\ m.kind = "submit" /\ m.reply = "none"
      BY <1>4, <2>2 DEF Serve, Accept, Refuse, RefuseEnded, GetAnswers, serverVars
    <3>2. latest[q].no > 0
      <4>1. Genuine(q, queue[q]) /\ queue[q] = stored[q] /\ queue[q].no = latest[q].no
        BY <2>2 DEF PageHolds
      <4>. QED BY <4>1 DEF Genuine
    <3>3. q \in Touched(m) /\ m.items[q].no = latest[q].no
      <4>1. ReplyHolds(m, q) /\ ~Excused(q) BY <2>2 DEF RepliesHold, Calm
      <4>. QED BY <1>0, <2>2, <3>1, <3>2, <4>1 DEF ReplyHolds
    <3>. QED BY <3>1, <3>3, Accepted DEF MessagesHold
  <2>3. attempt' \in {"ACTIVE", "SUBMITTED", "EXPIRED"} BY <2>1 DEF Progress, ServerTyped
  <2>. QED BY <1>2, <1>4, <2>1, <2>2, <2>3, EditKept DEF EditsHold
<1>5. ASSUME AutosaveNext, NEW m \in net, Handle(m) PROVE EditsHold'
  <2>1. Progress BY <1>5, HandleSteps
  <2>2. /\ m \in Message /\ m.reply \in Replies /\ MessageHolds(m) /\ queue \in Queues
        /\ \A q \in Questions : Calm(q) /\ EditHolds(q)
        /\ UNCHANGED <<answer, attempt, latest>>
    <3>1. UNCHANGED <<answer, attempt>>
      BY <1>5 DEF Handle, SaveSucceeded, SaveConflict, Reconcile, Unprocessable, EndExam,
                  MountFlushDone, FinalFlushDone, SubmitReplied, serverVars
    <3>2. m \in Message /\ MessageHolds(m) /\ queue \in Queues
      BY DEF AutosaveTypeOK, MessagesHold, Queues
    <3>. QED BY <1>2, <1>5, <2>1, <3>1, <3>2, MessageTypes DEF Progress
  \* An entry that is deleted is saved, excused, or of an exam that has ended.
  <2>3. ASSUME NEW gone, Dequeue(gone),
               \A q \in Questions : q \in gone /\ attempt = "ACTIVE" /\ stored[q] # NoItem
                                    => Saved(q) \/ Excused(q)'
        PROVE  EditsHold'
    <3>1. ASSUME NEW q \in Questions, attempt = "ACTIVE", stored[q] # NoItem
          PROVE  (attempt' = "ACTIVE" /\ stored'[q] # NoItem) \/ Saved(q)' \/ Excused(q)'
      <4>1. CASE q \in gone BY <2>2, <2>3, <3>1, <4>1 DEF Calm
      <4>2. CASE q \notin gone BY <1>0, <2>2, <2>3, <3>1, <4>2, Dequeuing
      <4>. QED BY <4>1, <4>2
    <3>. QED BY <2>2, <3>1, EditKept DEF EditsHold
  <2>4. ASSUME NEW q \in Questions, attempt = "ACTIVE", stored[q] # NoItem
        PROVE  latest[q].no > 0 /\ (~Excused(q) => ReplyHolds(m, q))
    <3>1. Genuine(q, queue[q]) /\ queue[q] = stored[q] /\ queue[q].no = latest[q].no
      BY <2>4 DEF PageHolds
    <3>. QED BY <3>1 DEF Genuine, RepliesHold
  <2>5. \A q \in Questions : Excused(q) => Excused(q)' BY <2>2 DEF Calm
  <2>6. CASE SaveSucceeded(m)
    <3>1. Dequeue({m.question}) /\ m.awaited /\ m.kind = "save" /\ m.reply = "ok"
      BY <2>6 DEF SaveSucceeded, Mine
    <3>2. \A q \in Questions : q = m.question /\ attempt = "ACTIVE" /\ stored[q] # NoItem
                               => Saved(q) \/ Excused(q)'
      BY <2>4, <2>5, <3>1 DEF ReplyHolds
    <3>. QED BY <2>3, <3>1, <3>2
  <2>7. CASE Reconcile(m)
    <3>1. Dequeue({m.question}) /\ m.awaited /\ m.kind = "reconcile" BY <2>7 DEF Reconcile, Mine
    <3>2. \A q \in Questions : q = m.question /\ attempt = "ACTIVE" /\ stored[q] # NoItem
                               => Saved(q) \/ Excused(q)'
      BY <2>4, <2>5, <3>1 DEF ReplyHolds
    <3>. QED BY <2>3, <3>1, <3>2
  \* Any 422: the exam has ended, or every question is excused.
  <2>8. ASSUME m.reply \in {"invalid", "ended"},
               m.reply = "invalid" => \A q \in Questions : "blanked" \in cause'[q],
               NEW q \in Questions, attempt = "ACTIVE"
        PROVE  Excused(q)'
    <3>1. m.reply = "invalid" BY <2>2, <2>8 DEF MessageHolds
    <3>. QED BY <2>8, <3>1 DEF Excused
  <2>9. CASE Unprocessable(m)
    <3>1. PICK gone : EndExam(m, gone) /\ m.reply \in {"invalid", "ended"}
      BY <2>9 DEF Unprocessable
    <3>2. Dequeue(gone) /\ (m.reply = "invalid" => \A q \in Questions : "blanked" \in cause'[q])
      BY <3>1, EndingExam
    <3>. QED BY <2>3, <2>8, <3>1, <3>2
  \* The batch was applied: each of its entries is saved.
  <2>10. ASSUME m.awaited, m.kind = "flush", m.reply = "ok", NEW q \in Questions,
                attempt = "ACTIVE", stored[q] # NoItem
         PROVE  Saved(q) \/ Excused(q)'
    <3>1. CASE Excused(q) BY <2>5, <3>1
    <3>2. CASE ~Excused(q)
      <4>1. ReplyHolds(m, q) /\ latest[q].no > 0 /\ queue[q] # NoItem
        BY <1>0, <2>4, <2>10, <3>2
      <4>. QED BY <2>10, <3>2, <4>1 DEF ReplyHolds
    <3>. QED BY <3>1, <3>2
  <2>11. CASE MountFlushDone(m)
    <3>1. PICK gone : gone = IF m.reply = "ok" THEN Questions ELSE {} OBVIOUS
    <3>2. Dequeue(gone) /\ m.awaited /\ m.kind = "flush" BY <2>11, <3>1 DEF MountFlushDone, Mine
    <3>. QED BY <2>3, <2>10, <3>1, <3>2
  <2>12. CASE FinalFlushDone(m)
    <3>1. PICK gone : gone = IF m.reply = "conflict" THEN {} ELSE Questions OBVIOUS
    <3>2. PICK marked : marked = IF m.reply = "invalid" THEN Questions ELSE {} OBVIOUS
    <3>3. /\ Dequeue(gone) /\ Mark(marked, "blanked") /\ m.awaited /\ m.kind = "flush"
          /\ m.reply # "none"
      BY <2>12, <3>1, <3>2 DEF FinalFlushDone, Mine
    <3>4. m.reply = "invalid" => \A q \in Questions : "blanked" \in cause'[q]
      BY <3>2, <3>3 DEF Mark
    <3>5. m.reply \in {"ok", "conflict", "invalid", "ended"} BY <2>2, <3>3 DEF Replies
    <3>. QED BY <2>3, <2>8, <2>10, <3>1, <3>3, <3>4, <3>5
  <2>13. CASE SaveConflict(m) \/ SubmitReplied(m)
    BY <1>3, <1>5, <2>1, <2>13 DEF SaveConflict, SubmitReplied, serverVars, hookVars
  <2>. QED BY <1>5, <2>6, <2>7, <2>9, <2>11, <2>12, <2>13 DEF Handle
<1>6. ASSUME AutosaveNext, NEW m \in net, RequestFails(m) \/ Lose(m) PROVE EditsHold'
  BY <1>3, <1>6, OtherSteps
<1>7. ASSUME AutosaveNext,
             \/ \E q \in Questions : PersistAnswer(q)
             \/ ConfirmSubmit \/ TimeExpired \/ TelemetryRefused \/ Reload \/ DeadlinePasses
      PROVE  EditsHold'
  BY <1>0, <1>3, <1>7, TabSteps
<1>8. CASE UNCHANGED autosaveVars
  BY <1>8 DEF autosaveVars, EditsHold, EditHolds, Saved, Excused
<1>. QED BY <1>1, <1>4, <1>5, <1>6, <1>7, <1>8 DEF AutosaveNext

(***************************************************************************)
(* Autosave: the inductive invariant and the theorems.                     *)
(***************************************************************************)
AutosaveIInv ==
    /\ AutosaveTypeOK /\ PageHolds /\ RowsHold /\ MessagesHold /\ RepliesHold /\ EditsHold
    /\ OvertakenOnlyAfterRestore /\ EndsForAReason

LEMMA AutosaveStart == AutosaveInit => AutosaveIInv
<1>. SUFFICES ASSUME AutosaveInit PROVE AutosaveIInv OBVIOUS
<1>. USE DEF AutosaveInit
<1>1. AutosaveTypeOK BY EntryTypes DEF AutosaveTypeOK, Queues, NoEdit, Edit
<1>2. PageHolds BY EntryTypes DEF PageHolds, NoEdit
<1>3. RowsHold /\ MessagesHold /\ RepliesHold BY DEF RowsHold, MessagesHold, RepliesHold
<1>4. EditsHold BY DEF EditsHold, EditHolds, NoEdit
<1>5. OvertakenOnlyAfterRestore /\ EndsForAReason
  BY DEF OvertakenOnlyAfterRestore, EndsForAReason
<1>. QED BY <1>1, <1>2, <1>3, <1>4, <1>5 DEF AutosaveIInv

LEMMA AutosaveHolds == AutosaveSpec => []AutosaveIInv
<1>1. AutosaveIInv /\ [AutosaveNext]_autosaveVars => AutosaveIInv'
  BY AutosaveTypeStep, PageStep, RowsStep, MessagesStep, RepliesStep, EditsStep, OvertakenStep,
     EndStep
     DEF AutosaveIInv
<1>. QED BY AutosaveStart, <1>1, PTL DEF AutosaveSpec

\* The variables of the page, of the network and of the server have their types, for any
\* number of questions, values, edits, reloads and requests under way.
THEOREM AutosaveTypeCorrect == AutosaveSpec => []AutosaveTypeOK
BY AutosaveHolds, PTL DEF AutosaveIInv

\* The candidate's last edit of a question is on the server or in localStorage, or one of
\* the four causes lost it, through every reload, failed request and lost reply.
THEOREM LastEditKept == AutosaveSpec => []LastEditIsKept
<1>1. ASSUME AutosaveIInv PROVE LastEditIsKept
  <2>. SUFFICES ASSUME NEW q \in Questions, latest[q].no > 0, attempt \in {"ACTIVE", "SUBMITTED"}
                PROVE  OnServer(q) \/ (attempt = "ACTIVE" /\ Recoverable(q)) \/ Excused(q)
    BY DEF LastEditIsKept
  <2>1. Excused(q) \/ Saved(q) \/ (attempt = "ACTIVE" /\ stored[q] # NoItem)
    BY <1>1 DEF AutosaveIInv, EditsHold, EditHolds
  <2>2. Saved(q) => OnServer(q) BY <1>1 DEF AutosaveIInv, RowsHold, Saved, OnServer
  <2>3. stored[q] # NoItem => Recoverable(q) BY <1>1 DEF AutosaveIInv, PageHolds, Recoverable
  <2>. QED BY <2>1, <2>2, <2>3
<1>. QED BY <1>1, AutosaveHolds, PTL

\* An older edit replaces a newer one only on a question that was recovered from
\* localStorage: the revisions that the page expects rule it out for all others.
THEOREM OvertakenAfterRestore == AutosaveSpec => []OvertakenOnlyAfterRestore
BY AutosaveHolds, PTL DEF AutosaveIInv

\* The exam ends because the candidate submitted it, at its deadline, or because the page
\* took a refusal for it: of a blank answer saved, or of telemetry reported.
THEOREM EndsWithReason == AutosaveSpec => []EndsForAReason
BY AutosaveHolds, PTL DEF AutosaveIInv
==============================================================================
