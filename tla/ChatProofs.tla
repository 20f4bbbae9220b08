----------------------------- MODULE ChatProofs -----------------------------
(***************************************************************************)
(* The server and its clients for any number of clients, any names and any *)
(* number of messages on their way, and the register of names (Registry)   *)
(* that they implement.                                                    *)
(***************************************************************************)
EXTENDS Chat, WellFoundedInduction, TLAPS

Statuses == {"unset", "Online", "Login", "NULL"}
Users == [name : Names \cup {"server", "client_init"}, addr : Hosts, status : Statuses]
Mail == [type : {"Login", "Update", "BackSyn", "Logout"}, peer : Hosts,
         name : Names \cup {"server", "error"}, user : Clients \cup {NoAddr}]

\* The server's list holds clients under names they chose, each name once.
ServerList(list) ==
  /\ list \in Seq(Users) /\ Len(list) >= 1 /\ list[1].name = "server"
  /\ \A i \in 2..Len(list) : list[i].name \in Names /\ list[i].addr \in Clients
  /\ \A i, j \in 1..Len(list) : list[i].name = list[j].name => i = j

\* A client's list starts with the server and the client itself.
ClientList(list, c) ==
  /\ list \in Seq(Users) /\ Len(list) >= 2
  /\ list[1].name = "server" /\ list[2].addr = c

\* What a client sends to the server, the server to a client, and a client to
\* another one.
IsRequest(m, c) == m.type \in {"Login", "Logout"} /\ m.name = NameOf(c) /\ m.name \in Names
IsReport(m) ==
  \/ m.type = "Login" /\ m.name \in {"server", "error"}
  \/ m.type = "Update" /\ m.name \in Names /\ m.user \in Clients
  \/ m.type = "Logout" /\ m.name \in Names
IsBackSyn(m) == m.type = "BackSyn" /\ m.name \in Names /\ m.user \in Clients

Elems(seq) == {seq[i] : i \in 1..Len(seq)}

\* there is one Login in it at most
Single(seq) ==
  \A i, j \in 1..Len(seq) : seq[i].type = "Login" /\ seq[j].type = "Login" => i = j

\* At most one request of a client is on its way, and at most one reply to it.
Wire ==
  /\ net \in [Hosts -> [Hosts -> Seq(Mail)]]
  /\ \A c \in Clients :
       /\ Len(net[c][Server]) <= 1
       /\ \A m \in Elems(net[c][Server]) : IsRequest(m, c)
       /\ \A m \in Elems(net[Server][c]) : IsReport(m)
       /\ Single(net[Server][c])
  /\ \A c, d \in Clients : \A m \in Elems(net[c][d]) : IsBackSyn(m)

Lists ==
  /\ ServerList(serverUsers)
  /\ DOMAIN users = Clients
  /\ \A c \in Clients : ClientList(users[c], c)
  /\ \A c \in Clients : phase[c] # "off" => NameOf(c) \in Names

Register == Registered!TypeOK /\ Registered!RegistryInvariant

\* the Update about the user with that name
IsUpdateOf(m, name) == m.type = "Update" /\ m.name = name

\* Where channels keep the order: what is on its way from the server to a client
\* with that phase and own entry, whose Login is on its way or granted.  Its own
\* Update comes right after the reply, and nobody logs out under its name while
\* it chats.
Queued(ph, own, asked, granted, queue) ==
  /\ ph = "off" \/ asked => queue = <<>>
  /\ granted =>
       Len(queue) >= 2 /\ queue[1].type = "Login" /\ IsUpdateOf(queue[2], own.name)
  /\ ph = "chat" =>
       \/ own.status = "Online"
       \/ own.status = "Login" /\ Len(queue) >= 1 /\ IsUpdateOf(queue[1], own.name)
  /\ ph \in {"asked", "chat"} =>
       \A m \in Elems(queue) : ~(m.type = "Logout" /\ m.name = own.name)

InOrder(c) ==
  Queued(phase[c], Own(users[c]), c \in ToServer("Login"), c \in Replied("server"), net[Server][c])

Inv == Lists /\ Wire /\ Register

Ordering == \A c \in Clients : InOrder(c)

-----------------------------------------------------------------------------
(* The register of names *)


\* The entry of a client whose name did not change is the same one.
LEMMA EntryKept ==
  ASSUME NamesOf' = NamesOf
  PROVE  \A c : Registered!Entry(c)' = Registered!Entry(c)
  BY DEF Registered!Entry

\* Every step of the register keeps its invariant.
LEMMA RegisterKept == Register /\ [Registered!Next]_(Registered!vars) => Register'
<1> SUFFICES ASSUME Register, [Registered!Next]_(Registered!vars)
             PROVE  Register'
  OBVIOUS
<1> USE DEF Register, Registered!TypeOK
<1>1. CASE UNCHANGED Registered!vars
  BY <1>1 DEF Registered!vars, Registered!RegistryInvariant, Registered!Entry
<1>2. ASSUME NEW c \in Clients, NEW n \in Names, Registered!Login(c, n)
      PROVE  Register'
  <2>1. Registered!TypeOK'
    BY <1>2 DEF Registered!Login
  <2>2. /\ c \notin ToServer("Login") /\ c \notin Replied("server")
        /\ c \notin Replied("error") /\ c \notin ToServer("Logout")
        /\ \A e \in Listed : e.addr # c
    BY <1>2 DEF Registered!Login, Registered!RegistryInvariant
  <2>3. \A d \in Clients : d # c =>
          Registered!Entry(d)' = Registered!Entry(d) /\ phase'[d] = phase[d]
    BY <1>2 DEF Registered!Login, Registered!Entry
  <2>4. Registered!RegistryInvariant'
    BY <1>2, <2>2, <2>3 DEF Registered!Login, Registered!RegistryInvariant
  <2> QED  BY <2>1, <2>4
<1>3. ASSUME NEW c \in Clients, Registered!Grant(c)
      PROVE  Register'
  <2>1. Registered!TypeOK'
    BY <1>3 DEF Registered!Grant, Registered!Entry, Registered!RegistryInvariant
  <2>2. \A d : Registered!Entry(d)' = Registered!Entry(d)
    BY <1>3, EntryKept DEF Registered!Grant
  <2>3. \A e \in Listed : e.name # NamesOf[c] /\ e.addr # c
    BY <1>3 DEF Registered!Grant, Registered!Taken, Registered!RegistryInvariant, Registered!Entry
  <2>4. Registered!Entry(c).name = NamesOf[c] /\ Registered!Entry(c).addr = c
    BY DEF Registered!Entry
  <2>5. Registered!RegistryInvariant'
    BY <1>3, <2>2, <2>3, <2>4 DEF Registered!Grant, Registered!RegistryInvariant
  <2> QED  BY <2>1, <2>5
<1>4. ASSUME NEW c \in Clients, Registered!Refuse(c)
      PROVE  Register'
  <2>1. \A d : Registered!Entry(d)' = Registered!Entry(d)
    BY <1>4, EntryKept DEF Registered!Refuse
  <2> QED  BY <1>4, <2>1 DEF Registered!Refuse, Registered!RegistryInvariant
<1>5. ASSUME NEW c \in Clients, Registered!Start(c)
      PROVE  Register'
  <2>1. \A d : Registered!Entry(d)' = Registered!Entry(d)
    BY <1>5, EntryKept DEF Registered!Start
  <2>2. Registered!Entry(c) \in Listed /\ Registered!Entry(c).addr = c
    BY <1>5 DEF Registered!Start, Registered!RegistryInvariant, Registered!Entry
  <2>3. c \notin ToServer("Login") /\ c \notin Replied("error") /\ c \notin ToServer("Logout")
    BY <1>5, <2>2 DEF Registered!Start, Registered!RegistryInvariant
  <2> QED  BY <1>5, <2>1, <2>2, <2>3 DEF Registered!Start, Registered!RegistryInvariant
<1>6. ASSUME NEW c \in Clients, Registered!GiveUp(c)
      PROVE  Register'
  <2>1. \A d : Registered!Entry(d)' = Registered!Entry(d)
    BY <1>6, EntryKept DEF Registered!GiveUp
  <2> QED  BY <1>6, <2>1 DEF Registered!GiveUp, Registered!RegistryInvariant
<1>7. ASSUME NEW c \in Clients, Registered!Close(c)
      PROVE  Register'
  <2>1. \A d : Registered!Entry(d)' = Registered!Entry(d)
    BY <1>7, EntryKept DEF Registered!Close
  <2> QED  BY <1>7, <2>1 DEF Registered!Close, Registered!RegistryInvariant
<1>8. ASSUME NEW c \in Clients, Registered!Exit(c)
      PROVE  Register'
  <2>1. \A d : Registered!Entry(d)' = Registered!Entry(d)
    BY <1>8, EntryKept DEF Registered!Exit
  <2> QED  BY <1>8, <2>1 DEF Registered!Exit, Registered!RegistryInvariant
<1>9. ASSUME NEW c \in Clients, Registered!Remove(c)
      PROVE  Register'
  <2>1. \A d : /\ Registered!Entry(d)' = Registered!Entry(d)
               /\ Registered!Entry(d).name = NamesOf[d] /\ Registered!Entry(d).addr = d
    BY <1>9, EntryKept DEF Registered!Remove, Registered!Entry
  <2>2. Registered!Entry(c) \in Listed
    BY <1>9 DEF Registered!Remove, Registered!RegistryInvariant
  <2>3. \A e \in Listed : e.name = NamesOf[c] => e = Registered!Entry(c)
    BY <2>1, <2>2 DEF Registered!RegistryInvariant
  <2>4. Listed' = Listed \ {Registered!Entry(c)}
    BY <1>9, <2>1, <2>2, <2>3 DEF Registered!Remove
  <2>5. phase[c] \in {"leaving", "gone"}
    BY <1>9 DEF Registered!Remove, Registered!RegistryInvariant
  <2>6. \A d : d # c => Registered!Entry(d) # Registered!Entry(c)
    BY <2>1
  <2>7. Registered!TypeOK'
    BY <1>9, <2>4 DEF Registered!Remove
  <2>8. Registered!RegistryInvariant'
    BY <1>9, <2>1, <2>4, <2>5, <2>6 DEF Registered!Remove, Registered!RegistryInvariant
  <2> QED  BY <2>7, <2>8
<1> QED
  BY <1>1, <1>2, <1>3, <1>4, <1>5, <1>6, <1>7, <1>8, <1>9 DEF Registered!Next

-----------------------------------------------------------------------------
(* Lists and channels *)

\* Every set of places has a first one.
LEMMA Least ==
  ASSUME NEW S \in SUBSET Nat, S # {}
  PROVE  \E i \in S : \A j \in S : i <= j
<1>1. PICK i \in S : \A j \in S : ~ (<<j, i>> \in OpToRel(<, Nat))
  BY WFMin, NatLessThanWellFounded, Zenon
<1>2. ASSUME NEW j \in S
      PROVE  i <= j
  <2>1. i \in Nat /\ j \in Nat
    OBVIOUS
  <2>2. <<j, i>> \in Nat \X Nat /\ <<j, i>>[1] = j /\ <<j, i>>[2] = i
    BY <2>1
  <2>3. ~(j < i)
    BY <1>1, <2>2 DEF OpToRel
  <2> QED  BY <2>1, <2>3
<1> QED  BY <1>2

\* f picks the messages to d from the first k of out.
Picks(f, k, out, d) ==
  f = [i \in 0..k |->
         IF i = 0 THEN <<>> ELSE IF out[i].peer = d THEN Append(f[i - 1], out[i]) ELSE f[i - 1]]

\* Addressed is defined for every sequence: the least length for which no
\* function picks would have one from the length before.
LEMMA PicksExists ==
  ASSUME NEW out, NEW d, NEW n \in Nat
  PROVE  \E f : Picks(f, n, out, d)
<1> DEFINE bad == {k \in Nat : ~ \E f : Picks(f, k, out, d)}
<1> SUFFICES ASSUME bad # {}
             PROVE  FALSE
  OBVIOUS
<1>1. PICK k \in bad : \A j \in bad : k <= j
  BY Least, Zenon
<1>2. CASE k = 0
  <2>1. Picks([i \in 0..0 |-> <<>>], 0, out, d)
    BY DEF Picks
  <2> QED  BY <1>2, <2>1
<1>3. CASE k # 0
  <2>1. k - 1 \in Nat /\ ~(k - 1 \in bad)
    BY <1>1, <1>3
  <2>2. PICK f : Picks(f, k - 1, out, d)
    BY <2>1
  <2> DEFINE last == IF out[k].peer = d THEN Append(f[k - 1], out[k]) ELSE f[k - 1]
             g == [i \in 0..k |-> IF i = k THEN last ELSE f[i]]
             step(h, i) == IF i = 0 THEN <<>>
                           ELSE IF out[i].peer = d THEN Append(h[i - 1], out[i]) ELSE h[i - 1]
  <2>3. \A i \in 0..(k - 1) : f[i] = step(f, i)
    BY <2>2, Zenon DEF Picks
  <2>4. ASSUME NEW i \in 0..k
        PROVE  g[i] = step(g, i)
    <3>1. CASE i = 0
      <4>1. f[0] = step(f, 0) /\ g[0] = f[0]
        BY <1>3, <2>1, <2>3
      <4> QED  BY <3>1, <4>1
    <3>2. CASE i # 0 /\ i < k
      <4>1. i \in 0..(k - 1) /\ i - 1 \in 0..k /\ i - 1 # k /\ i # k
        BY <2>1, <3>2
      <4>2. g[i] = f[i] /\ g[i - 1] = f[i - 1] /\ f[i] = step(f, i)
        BY <2>3, <4>1
      <4> QED  BY <3>2, <4>2
    <3>3. CASE i = k
      <4>1. k - 1 \in 0..k /\ k - 1 # k /\ k \in 0..k
        BY <2>1
      <4>2. g[k] = last /\ g[k - 1] = f[k - 1]
        BY <4>1
      <4> QED  BY <1>3, <3>3, <4>2
    <3> QED  BY <3>1, <3>2, <3>3
  <2>5. g = [i \in 0..k |-> step(g, i)]
    BY <2>4, Zenon
  <2>6. Picks(g, k, out, d)
    BY <2>5, Zenon DEF Picks
  <2> QED  BY <2>6
<1> QED  BY <1>2, <1>3

\* a holds the messages to d among the first n of out; when none but the first
\* of these is a Login, none but the first of a is.
Selects(a, n, out, d) ==
  /\ \A j \in 1..Len(a) : \E k \in 1..n : a[j] = out[k] /\ out[k].peer = d
  /\ \A k \in 1..n : out[k].peer = d => \E j \in 1..Len(a) : a[j] = out[k]
  /\ (\A k \in 2..n : out[k].type # "Login") =>
       \A j \in 1..Len(a) : a[j].type = "Login" => j = 1

LEMMA SelectsOneMore ==
  ASSUME NEW S, NEW out \in Seq(S), NEW d, NEW n \in 1..Len(out),
         NEW a \in Seq(S), Selects(a, n - 1, out, d), n = 1 => a = <<>>, out[n].peer = d
  PROVE  Append(a, out[n]) \in Seq(S) /\ Selects(Append(a, out[n]), n, out, d)
<1> DEFINE b == Append(a, out[n])
<1>1. /\ b \in Seq(S) /\ Len(b) = Len(a) + 1 /\ Len(a) \in Nat
      /\ \A j \in 1..Len(a) : b[j] = a[j]
      /\ b[Len(a) + 1] = out[n]
  <2>1. out[n] \in S
    OBVIOUS
  <2> QED  BY <2>1
<1> HIDE DEF b
<1>2. \A j \in 1..Len(b) : j \in 1..Len(a) \/ j = Len(a) + 1
  BY <1>1
<1>3. ASSUME NEW j \in 1..Len(b)
      PROVE  \E k \in 1..n : b[j] = out[k] /\ out[k].peer = d
  <2>1. CASE j \in 1..Len(a)
    <3>1. PICK k \in 1..(n - 1) : a[j] = out[k] /\ out[k].peer = d
      BY <2>1 DEF Selects
    <3>2. k \in 1..n
      BY <3>1
    <3>3. b[j] = a[j]
      BY <1>1, <2>1, Zenon
    <3> QED  BY <3>1, <3>2, <3>3, Zenon
  <2>2. CASE j = Len(a) + 1
    BY <1>1, <2>2
  <2> QED  BY <1>2, <1>3, <2>1, <2>2, Zenon
<1>4. ASSUME NEW k \in 1..n, out[k].peer = d
      PROVE  \E j \in 1..Len(b) : b[j] = out[k]
  <2>1. CASE k \in 1..(n - 1)
    <3>1. PICK j \in 1..Len(a) : a[j] = out[k]
      BY <1>4, <2>1 DEF Selects
    <3>2. j \in 1..Len(b) /\ b[j] = out[k]
      BY <1>1, <3>1
    <3> QED  BY <3>2
  <2>2. CASE k = n
    <3>1. Len(a) + 1 \in 1..Len(b)
      BY <1>1
    <3> QED  BY <1>1, <2>2, <3>1
  <2> QED  BY <2>1, <2>2
<1>5. ASSUME \A k \in 2..n : out[k].type # "Login", NEW j \in 1..Len(b), b[j].type = "Login"
      PROVE  j = 1
  <2>1. CASE j \in 1..Len(a)
    <3>1. \A k \in 2..(n - 1) : out[k].type # "Login"
      BY <1>5
    <3> QED  BY <1>1, <1>5, <2>1, <3>1, Zenon DEF Selects
  <2>2. CASE j = Len(a) + 1
    <3>1. n = 1
      BY <1>1, <1>5, <2>2
    <3> QED  BY <2>2, <3>1
  <2> QED  BY <1>2, <1>5, <2>1, <2>2, Zenon
<1> QED  BY <1>1, <1>3, <1>4, <1>5, Zenon DEF Selects, b

LEMMA AddressedIs ==
  ASSUME NEW S, NEW out \in Seq(S), NEW d
  PROVE  Addressed(out, d) \in Seq(S) /\ Selects(Addressed(out, d), Len(out), out, d)
<1> DEFINE n == Len(out)
<1>1. n \in Nat
  OBVIOUS
<1>2. PICK f : Picks(f, n, out, d) /\ Addressed(out, d) = f[n]
  <2>1. \E f : Picks(f, n, out, d)
    BY <1>1, PicksExists, Zenon
  <2> QED  BY <2>1, Zenon DEF Picks, Addressed
<1> DEFINE Good(i) == f[i] \in Seq(S) /\ Selects(f[i], i, out, d)
<1>3. f[0] = <<>> /\ Good(0)
  <2>1. f[0] = <<>>
    BY <1>1, <1>2 DEF Picks
  <2> QED  BY <2>1 DEF Selects
<1>4. ASSUME NEW i \in 1..n, Good(i - 1)
      PROVE  Good(i)
  <2>1. i \in 0..n /\ i # 0 /\ i - 1 \in Nat
    BY <1>1
  <2>2. f[i] = IF out[i].peer = d THEN Append(f[i - 1], out[i]) ELSE f[i - 1]
    BY <1>2, <2>1, Zenon DEF Picks
  <2>3. CASE out[i].peer # d
    <3>1. f[i] = f[i - 1]
      BY <2>2, <2>3
    <3>2. Selects(f[i - 1], i, out, d)
      <4> DEFINE p == f[i - 1]
      <4>1. p \in Seq(S) /\ Selects(p, i - 1, out, d)
        BY <1>4
      <4> HIDE DEF p
      <4>2. \A k \in 1..i : out[k].peer = d => k \in 1..(i - 1)
        BY <2>1, <2>3
      <4>3. \A k \in 1..(i - 1) : k \in 1..i
        BY <2>1
      <4>4. \A k \in 2..(i - 1) : k \in 2..i
        BY <2>1
      <4>5. Selects(p, i, out, d)
        BY <4>1, <4>2, <4>3, <4>4 DEF Selects
      <4> QED  BY <4>5 DEF p
    <3> QED  BY <1>4, <3>1, <3>2
  <2>4. CASE out[i].peer = d
    <3>1. i = 1 => f[i - 1] = <<>>
      BY <1>3
    <3> QED  BY <1>4, <2>2, <2>4, <3>1, SelectsOneMore
  <2> QED  BY <2>3, <2>4
<1> HIDE DEF Good
<1>5. \A i \in 0..n : Good(i)
  <2> DEFINE bad == {i \in 0..n : ~Good(i)}
  <2> SUFFICES ASSUME bad # {}
               PROVE  FALSE
    OBVIOUS
  <2>1. bad \in SUBSET Nat
    BY <1>1
  <2>2. PICK i \in bad : \A j \in bad : i <= j
    <3> HIDE DEF bad
    <3> QED  BY <2>1, Least
  <2>3. i # 0
    BY <1>3, <2>2
  <2>4. i \in 1..n /\ i - 1 \in 0..n /\ ~(i <= i - 1)
    BY <1>1, <2>2, <2>3
  <2>5. Good(i - 1)
    BY <2>2, <2>4
  <2> QED  BY <1>4, <2>2, <2>4, <2>5
<1>6. Good(n)
  BY <1>1, <1>5
<1> QED  BY <1>2, <1>6 DEF Good

\* Taking out a message closes the gap and keeps the order of the others.
LEMMA WithoutIs ==
  ASSUME NEW S, NEW l \in Seq(S), NEW k \in 1..Len(l)
  PROVE  /\ Without(l, k) \in Seq(S) /\ Len(Without(l, k)) = Len(l) - 1
         /\ \A j \in 1..(Len(l) - 1) : Without(l, k)[j] = IF j < k THEN l[j] ELSE l[j + 1]
<1> DEFINE a == SubSeq(l, 1, k - 1)
           b == SubSeq(l, k + 1, Len(l))
<1>1. k \in Nat /\ k >= 1 /\ k <= Len(l) /\ Len(l) \in Nat
  OBVIOUS
<1>2. /\ a \in Seq(S) /\ Len(a) = k - 1
      /\ \A j \in 1..(k - 1) : a[j] = l[j]
  BY <1>1
<1>3. /\ b \in Seq(S) /\ Len(b) = Len(l) - k
      /\ \A j \in 1..(Len(l) - k) : b[j] = l[k + j]
  BY <1>1
<1>4. Without(l, k) = a \o b
  BY DEF Without
<1> HIDE DEF a, b
<1>5. /\ a \o b \in Seq(S) /\ Len(a \o b) = Len(a) + Len(b)
      /\ \A j \in 1..(Len(a) + Len(b)) : (a \o b)[j] = IF j <= Len(a) THEN a[j] ELSE b[j - Len(a)]
  <2>1. a \in Seq(S) /\ b \in Seq(S)
    BY <1>2, <1>3
  <2> QED  BY <2>1
<1>6. Len(a) + Len(b) = Len(l) - 1
  BY <1>1, <1>2, <1>3
<1>7. ASSUME NEW j \in 1..(Len(l) - 1)
      PROVE  (a \o b)[j] = IF j < k THEN l[j] ELSE l[j + 1]
  <2>1. CASE j < k
    BY <1>1, <1>2, <1>5, <1>6, <2>1
  <2>2. CASE ~(j < k)
    <3>1. j - (k - 1) \in 1..(Len(l) - k) /\ k + (j - (k - 1)) = j + 1
      BY <1>1, <2>2
    <3>2. b[j - (k - 1)] = l[j + 1]
      BY <1>3, <3>1
    <3>3. ~(j <= k - 1)
      BY <1>1, <2>2
    <3> QED  BY <1>2, <1>5, <1>6, <2>2, <3>2, <3>3
  <2> QED  BY <2>1, <2>2, Zenon
<1> QED  BY <1>4, <1>5, <1>6, <1>7

LEMMA WithoutElems ==
  ASSUME NEW S, NEW l \in Seq(S), NEW k \in 1..Len(l)
  PROVE  /\ Elems(Without(l, k)) \subseteq Elems(l)
         /\ Elems(l) \subseteq Elems(Without(l, k)) \cup {l[k]}
         /\ Single(l) => Single(Without(l, k))
         /\ Single(l) /\ l[k].type = "Login" => \A m \in Elems(Without(l, k)) : m.type # "Login"
<1> DEFINE w == Without(l, k)
<1>1. /\ w \in Seq(S) /\ Len(w) = Len(l) - 1 /\ Len(l) \in Nat
      /\ \A j \in 1..(Len(l) - 1) : w[j] = IF j < k THEN l[j] ELSE l[j + 1]
  BY WithoutIs
<1> HIDE DEF w
<1> DEFINE at(j) == IF j < k THEN j ELSE j + 1
<1>2. \A j \in 1..Len(w) : at(j) \in 1..Len(l) /\ w[j] = l[at(j)] /\ at(j) # k
  BY <1>1
<1>3. \A i, j \in 1..Len(w) : at(i) = at(j) => i = j
  BY <1>1
<1>4. \A i \in 1..Len(l) : i # k => \E j \in 1..Len(w) : at(j) = i
  <2> SUFFICES ASSUME NEW i \in 1..Len(l), i # k
               PROVE  \E j \in 1..Len(w) : at(j) = i
    OBVIOUS
  <2>1. CASE i < k
    <3>1. i \in 1..Len(w) /\ at(i) = i
      BY <1>1, <2>1
    <3> QED  BY <3>1
  <2>2. CASE i > k
    <3>1. i - 1 \in 1..Len(w) /\ at(i - 1) = i
      BY <1>1, <2>2
    <3> QED  BY <3>1
  <2> QED  BY <2>1, <2>2
<1> HIDE DEF at
<1>5. Elems(w) \subseteq Elems(l)
  BY <1>2 DEF Elems
<1>6. Elems(l) \subseteq Elems(w) \cup {l[k]}
  BY <1>2, <1>4 DEF Elems
<1>7. Single(l) => Single(w)
  BY <1>2, <1>3, Zenon DEF Single
<1>8. Single(l) /\ l[k].type = "Login" => \A m \in Elems(w) : m.type # "Login"
  BY <1>2 DEF Single, Elems
<1> QED  BY <1>5, <1>6, <1>7, <1>8 DEF w

\* A sequence whose messages but the first are Updates of the user n at c, by
\* position and by membership.
UpdatesAfter(l, n, c) ==
  \A k \in 2..Len(l) : l[k].type = "Update" /\ l[k].name = n /\ l[k].user = c

FirstOrUpdate(l, n, c) ==
  /\ l[1] \in Elems(l)
  /\ \A q \in Elems(l) : q = l[1] \/ (q.type = "Update" /\ q.name = n /\ q.user = c)

LEMMA FirstAndUpdates ==
  ASSUME NEW S, NEW l \in Seq(S), Len(l) >= 1, NEW n, NEW c, UpdatesAfter(l, n, c)
  PROVE  FirstOrUpdate(l, n, c)
<1>1. Len(l) \in Nat
  OBVIOUS
<1>2. 1 \in 1..Len(l) /\ \A k \in 1..Len(l) : k = 1 \/ k \in 2..Len(l)
  BY <1>1
<1>3. l[1] \in Elems(l)
  BY <1>2, Zenon DEF Elems
<1>4. ASSUME NEW q \in Elems(l)
      PROVE  q = l[1] \/ (q.type = "Update" /\ q.name = n /\ q.user = c)
  <2>1. PICK k \in 1..Len(l) : q = l[k]
    BY <1>4, Zenon DEF Elems
  <2> QED  BY <1>2, <2>1, Zenon DEF UpdatesAfter
<1> QED  BY <1>3, <1>4, Zenon DEF FirstOrUpdate

LEMMA ConcatElems ==
  ASSUME NEW S, NEW a \in Seq(S), NEW b \in Seq(S)
  PROVE  /\ a \o b \in Seq(S) /\ Len(a \o b) = Len(a) + Len(b)
         /\ \A i \in 1..Len(a) : (a \o b)[i] = a[i]
         /\ Elems(a \o b) = Elems(a) \cup Elems(b)
         /\ Single(a) /\ (\A m \in Elems(b) : m.type # "Login") => Single(a \o b)
         /\ Single(b) /\ (\A m \in Elems(a) : m.type # "Login") => Single(a \o b)
<1> DEFINE s == a \o b
<1>1. /\ s \in Seq(S) /\ Len(s) = Len(a) + Len(b) /\ Len(a) \in Nat /\ Len(b) \in Nat
      /\ \A j \in 1..(Len(a) + Len(b)) : s[j] = IF j <= Len(a) THEN a[j] ELSE b[j - Len(a)]
  OBVIOUS
<1> HIDE DEF s
<1>2. \A j \in 1..Len(a) : j \in 1..Len(s) /\ s[j] = a[j]
  BY <1>1
<1>3. \A j \in 1..Len(b) : Len(a) + j \in 1..Len(s) /\ s[Len(a) + j] = b[j]
  <2> TAKE j \in 1..Len(b)
  <2>1. Len(a) + j \in 1..(Len(a) + Len(b)) /\ ~(Len(a) + j <= Len(a)) /\ Len(a) + j - Len(a) = j
    BY <1>1
  <2> QED  BY <1>1, <2>1
<1>4. \A j \in 1..Len(s) : j \in 1..Len(a) \/ (j - Len(a) \in 1..Len(b) /\ s[j] = b[j - Len(a)])
  BY <1>1
<1>5. Elems(s) = Elems(a) \cup Elems(b)
  <2>1. Elems(a) \subseteq Elems(s)
    BY <1>2 DEF Elems
  <2>2. Elems(b) \subseteq Elems(s)
    BY <1>3, Zenon DEF Elems
  <2>3. Elems(s) \subseteq Elems(a) \cup Elems(b)
    BY <1>2, <1>4 DEF Elems
  <2> QED  BY <2>1, <2>2, <2>3
<1>6. Single(a) /\ (\A m \in Elems(b) : m.type # "Login") => Single(s)
  <2> SUFFICES ASSUME Single(a), \A m \in Elems(b) : m.type # "Login",
                      NEW i \in 1..Len(s), NEW j \in 1..Len(s),
                      s[i].type = "Login", s[j].type = "Login"
               PROVE  i = j
    BY DEF Single
  <2>1. i \in 1..Len(a) /\ j \in 1..Len(a)
    BY <1>4, Zenon DEF Elems
  <2> QED  BY <1>2, <2>1 DEF Single
<1>7. Single(b) /\ (\A m \in Elems(a) : m.type # "Login") => Single(s)
  <2> SUFFICES ASSUME Single(b), \A m \in Elems(a) : m.type # "Login",
                      NEW i \in 1..Len(s), NEW j \in 1..Len(s),
                      s[i].type = "Login", s[j].type = "Login"
               PROVE  i = j
    BY DEF Single
  <2>1. /\ i - Len(a) \in 1..Len(b) /\ s[i] = b[i - Len(a)]
        /\ j - Len(a) \in 1..Len(b) /\ s[j] = b[j - Len(a)]
    BY <1>2, <1>4, Zenon DEF Elems
  <2>2. i - Len(a) = j - Len(a)
    BY <2>1, Zenon DEF Single
  <2> QED  BY <1>1, <2>2
<1> QED  BY <1>1, <1>2, <1>5, <1>6, <1>7 DEF s

LEMMA ConcatFrom ==
  ASSUME NEW S, NEW a \in Seq(S), NEW b \in Seq(S)
  PROVE  \A m \in Elems(a \o b) : m \in Elems(a) \/ m \in Elems(b)
  BY ConcatElems

LEMMA AddressedElems ==
  ASSUME NEW S, NEW out \in Seq(S), NEW d
  PROVE  /\ Addressed(out, d) \in Seq(S)
         /\ Elems(Addressed(out, d)) = {m \in Elems(out) : m.peer = d}
         /\ (\A k \in 2..Len(out) : out[k].type # "Login") => Single(Addressed(out, d))
<1>1. Addressed(out, d) \in Seq(S) /\ Selects(Addressed(out, d), Len(out), out, d)
  BY AddressedIs
<1> DEFINE a == Addressed(out, d)
<1>2. Elems(a) = {m \in Elems(out) : m.peer = d}
  <2> HIDE DEF a
  <2>1. ASSUME NEW m \in Elems(a)
        PROVE  m \in Elems(out) /\ m.peer = d
    <3>1. PICK j \in 1..Len(a) : m = a[j]
      BY DEF Elems
    <3>2. PICK k \in 1..Len(out) : a[j] = out[k] /\ out[k].peer = d
      BY <1>1 DEF Selects, a
    <3> QED  BY <3>1, <3>2 DEF Elems
  <2>2. ASSUME NEW m \in Elems(out), m.peer = d
        PROVE  m \in Elems(a)
    <3>1. PICK k \in 1..Len(out) : m = out[k]
      BY DEF Elems
    <3>2. PICK j \in 1..Len(a) : a[j] = out[k]
      BY <1>1, <2>2, <3>1 DEF Selects, a
    <3> QED  BY <3>1, <3>2 DEF Elems
  <2> QED  BY <2>1, <2>2
<1>3. (\A k \in 2..Len(out) : out[k].type # "Login") => Single(Addressed(out, d))
  BY <1>1, Zenon DEF Selects, Single
<1> QED  BY <1>1, <1>2, <1>3

\* What is sent to d is among what is sent, under d's address.
LEMMA AddressedFrom ==
  ASSUME NEW S, NEW out \in Seq(S), NEW d
  PROVE  /\ Addressed(out, d) \in Seq(S)
         /\ Elems(Addressed(out, d)) \subseteq Elems(out)
         /\ \A m \in Elems(Addressed(out, d)) : m \in Elems(out) /\ m.peer = d
  BY AddressedElems

\* No message is sent to d when none is addressed to it.
LEMMA AddressedNone ==
  ASSUME NEW S, NEW out \in Seq(S), NEW d, \A m \in Elems(out) : m.peer # d
  PROVE  Addressed(out, d) = <<>>
<1>1. Addressed(out, d) \in Seq(S) /\ Elems(Addressed(out, d)) = {}
  BY AddressedElems
<1>2. Len(Addressed(out, d)) = 0
  <2> DEFINE a == Addressed(out, d)
  <2> HIDE DEF a
  <2>1. 1 \in 1..Len(a) => a[1] \in Elems(a)
    BY DEF Elems
  <2>2. Len(a) \in Nat /\ ~(1 \in 1..Len(a))
    BY <1>1, <2>1 DEF a
  <2>3. Len(a) = 0
    BY <2>2
  <2> QED  BY <2>3 DEF a
<1> QED  BY <1>1, <1>2

Channels == [Hosts -> [Hosts -> Seq(Mail)]]

\* What s makes of the channels by sending out.
IsPost(after, channels, s, out) ==
  /\ after \in Channels
  /\ \A r \in Hosts \ {s} : after[r] = channels[r]
  /\ \A d \in Hosts : after[s][d] =
       IF Gone(d) THEN <<>> ELSE channels[s][d] \o Addressed(out, d)

\* Only the sender's channels change.
LEMMA PostIs ==
  ASSUME NEW channels \in Channels, NEW s \in Hosts, NEW out \in Seq(Mail)
  PROVE  IsPost(Post(channels, s, out), channels, s, out)
<1> DEFINE row == [d \in Hosts |-> IF Gone(d) THEN <<>> ELSE channels[s][d] \o Addressed(out, d)]
<1>1. Post(channels, s, out) = [channels EXCEPT ![s] = row]
  BY DEF Post, Channels
<1>2. row \in [Hosts -> Seq(Mail)]
  <2>1. ASSUME NEW d \in Hosts
        PROVE  (IF Gone(d) THEN <<>> ELSE channels[s][d] \o Addressed(out, d)) \in Seq(Mail)
    <3>1. channels[s][d] \in Seq(Mail)
      BY DEF Channels
    <3>2. Addressed(out, d) \in Seq(Mail)
      BY AddressedElems
    <3>3. channels[s][d] \o Addressed(out, d) \in Seq(Mail)
      BY <3>1, <3>2, ConcatElems
    <3>4. <<>> \in Seq(Mail)
      OBVIOUS
    <3> QED  BY <3>3, <3>4
  <2> QED  BY <2>1
<1>3. \A d \in Hosts : row[d] = IF Gone(d) THEN <<>> ELSE channels[s][d] \o Addressed(out, d)
  OBVIOUS
<1> HIDE DEF row
<1>4. /\ [channels EXCEPT ![s] = row] \in Channels
      /\ \A r \in Hosts \ {s} : [channels EXCEPT ![s] = row][r] = channels[r]
      /\ [channels EXCEPT ![s] = row][s] = row
  BY <1>2 DEF Channels
<1> QED  BY <1>1, <1>3, <1>4 DEF IsPost

\* What d makes of the channels by taking the i-th message of s.
IsTake(after, s, d, i) ==
  /\ after \in Channels
  /\ \A r, e \in Hosts : after[r][e] =
       IF r = s /\ e = d THEN Without(net[s][d], i) ELSE net[r][e]

\* Only the channel a message is taken from changes.
LEMMA TakeIs ==
  ASSUME net \in Channels, NEW s \in Hosts, NEW d \in Hosts, NEW i \in 1..Len(net[s][d])
  PROVE  IsTake(Take(s, d, i), s, d, i)
<1> DEFINE row == [net[s] EXCEPT ![d] = Without(net[s][d], i)]
<1>1. net[s][d] \in Seq(Mail) /\ net[s] \in [Hosts -> Seq(Mail)]
  BY DEF Channels
<1>2. Without(net[s][d], i) \in Seq(Mail)
  BY <1>1, WithoutIs
<1>3. Take(s, d, i) = [net EXCEPT ![s] = row]
  BY <1>1 DEF Take, Channels
<1>4. /\ row \in [Hosts -> Seq(Mail)]
      /\ \A e \in Hosts : row[e] = IF e = d THEN Without(net[s][d], i) ELSE net[s][e]
  <2> DEFINE w == Without(net[s][d], i)
  <2>1. w \in Seq(Mail)
    BY <1>2
  <2> HIDE DEF w
  <2>2. row = [net[s] EXCEPT ![d] = w]
    BY DEF w
  <2>3. /\ [net[s] EXCEPT ![d] = w] \in [Hosts -> Seq(Mail)]
        /\ \A e \in Hosts : [net[s] EXCEPT ![d] = w][e] = IF e = d THEN w ELSE net[s][e]
    BY <1>1, <2>1
  <2> QED  BY <2>2, <2>3 DEF w
<1> HIDE DEF row
<1>5. /\ [net EXCEPT ![s] = row] \in Channels
      /\ \A r \in Hosts : [net EXCEPT ![s] = row][r] = IF r = s THEN row ELSE net[r]
  BY <1>4 DEF Channels
<1>6. \A r, e \in Hosts : [net EXCEPT ![s] = row][r][e] =
        IF r = s /\ e = d THEN Without(net[s][d], i) ELSE net[r][e]
  BY <1>4, <1>5
<1> QED  BY <1>3, <1>5, <1>6 DEF IsTake

\* What the receiver gets is the message under its sender's address.
LEMMA ReceivedIs ==
  ASSUME net \in Channels, NEW s \in Hosts, NEW d \in Hosts, NEW i \in 1..Len(net[s][d])
  PROVE  LET m == Received(s, d, i)
             sent == net[s][d][i]
         IN  /\ sent \in Elems(net[s][d]) /\ sent \in Mail
             /\ m \in Mail /\ m.peer = s
             /\ m.type = sent.type /\ m.name = sent.name /\ m.user = sent.user
<1>1. net[s][d] \in Seq(Mail)
  BY DEF Channels
<1>2. net[s][d][i] \in Mail /\ net[s][d][i] \in Elems(net[s][d])
  BY <1>1 DEF Elems
<1> QED  BY <1>2 DEF Received, Mail

-----------------------------------------------------------------------------
(* The handlers *)

\* hatchLocateUser finds the first entry with the name.
LEMMA Located ==
  ASSUME NEW S, NEW l \in Seq(S), NEW name, hatchIsUserInList(l, name)
  PROVE  LET k == hatchLocateUser(l, name)
         IN  /\ k \in 1..Len(l) /\ l[k].name = name
             /\ \A j \in 1..Len(l) : l[j].name = name => k <= j
<1>1. Places(l, name) \subseteq 1..Len(l) /\ Places(l, name) # {}
  BY DEF Places, hatchIsUserInList
<1>2. \E i \in Places(l, name) : \A j \in Places(l, name) : i <= j
  BY <1>1, Least
<1>3. LET k == hatchLocateUser(l, name)
      IN  k \in Places(l, name) /\ \A j \in Places(l, name) : k <= j
  BY <1>2 DEF hatchLocateUser
<1> QED  BY <1>1, <1>3 DEF Places

\* hatchPopUser takes out that entry.
LEMMA Popped ==
  ASSUME NEW S, NEW l \in Seq(S), NEW name, hatchIsUserInList(l, name)
  PROVE  LET k == hatchLocateUser(l, name)
             rest == hatchPopUser(l, name)
         IN  /\ rest = Without(l, k) /\ rest \in Seq(S) /\ Len(rest) = Len(l) - 1
             /\ \A j \in 1..Len(rest) : rest[j] = IF j < k THEN l[j] ELSE l[j + 1]
<1>1. hatchLocateUser(l, name) \in 1..Len(l)
  BY Located
<1>2. hatchPopUser(l, name) = Without(l, hatchLocateUser(l, name))
  BY Zenon DEF hatchPopUser, Without
<1> QED  BY <1>1, <1>2, WithoutIs, Zenon

\* hatchPushSendMsgGroup: the same message to everybody after the first.
LEMMA GroupIs ==
  ASSUME NEW l \in Seq(Users), Len(l) >= 1, NEW m \in Mail
  PROVE  LET group == Group(l, 1, m)
         IN  /\ group \in Seq(Mail) /\ Len(group) = Len(l) - 1
             /\ \A i \in 1..(Len(l) - 1) :
                  /\ group[i].type = m.type /\ group[i].name = m.name
                  /\ group[i].user = m.user /\ group[i].peer = l[i + 1].addr
<1> DEFINE n == Len(l) - 1
           copy(i) == [m EXCEPT !.peer = l[i + 1].addr]
<1>1. n \in Nat
  OBVIOUS
<1>2. ASSUME NEW i \in 1..n
      PROVE  /\ copy(i) \in Mail /\ copy(i).type = m.type /\ copy(i).name = m.name
             /\ copy(i).user = m.user /\ copy(i).peer = l[i + 1].addr
  <2>1. i + 1 \in 1..Len(l)
    BY <1>1
  <2>2. l[i + 1] \in Users
    BY <2>1
  <2>3. l[i + 1].addr \in Hosts
    BY <2>2 DEF Users
  <2> QED  BY <2>3 DEF Mail
<1>3. Group(l, 1, m) = [i \in 1..n |-> copy(i)]
  BY DEF Group
<1> HIDE DEF n, copy
<1>4. [i \in 1..n |-> copy(i)] \in Seq(Mail) /\ Len([i \in 1..n |-> copy(i)]) = n
  BY <1>1, <1>2
<1>5. \A i \in 1..n : Group(l, 1, m)[i] = copy(i)
  BY <1>3, Zenon
<1> QED  BY <1>2, <1>3, <1>4, <1>5, Zenon DEF n

\* what the register sees of the server's list
Entries(l) == {[name |-> l[i].name, addr |-> l[i].addr] : i \in 2..Len(l)}

\* The server's own entry is never in the way of a user's name.
LEMMA InListIsTaken ==
  ASSUME NEW l, ServerList(l), NEW n \in Names
  PROVE  hatchIsUserInList(l, n) <=> \E e \in Entries(l) : e.name = n
<1>1. l \in Seq(Users) /\ l[1].name # n
  BY ChatAssumption DEF ServerList
<1>2. hatchIsUserInList(l, n) <=> \E i \in 1..Len(l) : l[i].name = n
  BY <1>1 DEF hatchIsUserInList, Places
<1>3. ASSUME NEW i \in 1..Len(l), l[i].name = n
      PROVE  \E e \in Entries(l) : e.name = n
  <2>1. i \in 2..Len(l)
    BY <1>1, <1>3
  <2>2. [name |-> l[i].name, addr |-> l[i].addr] \in Entries(l)
    BY <2>1 DEF Entries
  <2> QED  BY <1>3, <2>2
<1>4. ASSUME NEW e \in Entries(l), e.name = n
      PROVE  \E i \in 1..Len(l) : l[i].name = n
  <2>1. PICK i \in 2..Len(l) : e = [name |-> l[i].name, addr |-> l[i].addr]
    BY DEF Entries
  <2>2. i \in 1..Len(l) /\ l[i].name = n
    BY <1>4, <2>1
  <2> QED  BY <2>2
<1> QED  BY <1>2, <1>3, <1>4

\* hatchMsgLogin when the name is in the list: the reply is "error".
LEMMA ServerRefuses ==
  ASSUME NEW l, NEW m \in Mail, m.type = "Login", hatchIsUserInList(l, m.name)
  PROVE  LET r == ServerMsgProc(l, m)
         IN  /\ r.users = l /\ r.out \in Seq(Mail) /\ Len(r.out) = 1
             /\ r.out[1].type = "Login" /\ r.out[1].name = "error" /\ r.out[1].peer = m.peer
<1> DEFINE reply == [m EXCEPT !.name = "error"]
<1>1. /\ reply \in Mail /\ reply.type = "Login" /\ reply.name = "error" /\ reply.peer = m.peer
  BY DEF Mail
<1>2. ServerMsgProc(l, m) = [Nothing(l) EXCEPT !.out = <<reply>>]
  BY DEF ServerMsgProc, ServerLogin
<1> HIDE DEF reply
<1>3. ServerMsgProc(l, m).users = l /\ ServerMsgProc(l, m).out = <<reply>>
  BY <1>2 DEF Nothing
<1>4. <<reply>> \in Seq(Mail) /\ Len(<<reply>>) = 1 /\ <<reply>>[1] = reply
  BY <1>1
<1> QED  BY <1>1, <1>3, <1>4

\* hatchMsgLogin when it is not: the user gets an entry, a reply, and then an
\* Update as everybody in the list does.
Grants(l, m, r) ==
  /\ ServerList(r.users)
  /\ Entries(r.users) = Entries(l) \cup {[name |-> m.name, addr |-> m.peer]}
  /\ r.out \in Seq(Mail) /\ Len(r.out) >= 1
  /\ r.out[1].type = "Login" /\ r.out[1].name = "server" /\ r.out[1].peer = m.peer
  /\ \A k \in 2..Len(r.out) :
       /\ r.out[k].type = "Update" /\ r.out[k].name = m.name /\ r.out[k].user = m.peer
       /\ \E e \in Entries(r.users) : r.out[k].peer = e.addr
  /\ \E k \in 2..Len(r.out) : r.out[k].peer = m.peer

LEMMA ServerGrants ==
  ASSUME NEW l, ServerList(l), NEW m \in Mail, m.type = "Login", m.name \in Names,
         m.peer \in Clients, ~hatchIsUserInList(l, m.name)
  PROVE  Grants(l, m, ServerMsgProc(l, m))
<1> DEFINE u == User(m.name, m.peer, "unset")
           all == Append(l, u)
           reply == [m EXCEPT !.name = "server"]
           update == Msg("Update", m.peer, m.name, m.peer)
           group == Group(all, 1, update)
           r == ServerMsgProc(l, m)
           n == Len(l)
<1>1. l \in Seq(Users) /\ n \in Nat /\ n >= 1
  BY DEF ServerList
<1>2. u \in Users /\ u.name = m.name /\ u.addr = m.peer
  BY DEF User, Users, Hosts, Statuses
<1>3. /\ reply \in Mail /\ reply.type = "Login" /\ reply.name = "server" /\ reply.peer = m.peer
  BY DEF Mail
<1>4. /\ update \in Mail /\ update.type = "Update" /\ update.name = m.name /\ update.user = m.peer
  BY DEF Msg, Mail, Hosts
<1>5. r.users = all /\ r.out = <<reply>> \o group
  <2>1. hatchPushUser(l, u) = all
    BY <1>2 DEF hatchPushUser
  <2>2. r = [Nothing(all) EXCEPT !.out = <<reply>> \o group]
    BY <2>1, Zenon DEF ServerMsgProc, ServerLogin
  <2> HIDE DEF all, group, reply, r
  <2> QED  BY <2>2 DEF Nothing
<1> HIDE DEF u, reply, update, r
<1>6. /\ all \in Seq(Users) /\ Len(all) = n + 1
      /\ (\A j \in 1..n : all[j] = l[j]) /\ all[n + 1] = u
  BY <1>1, <1>2
<1> HIDE DEF all
<1>7. /\ group \in Seq(Mail) /\ Len(group) = n
      /\ \A i \in 1..n :
           /\ group[i].type = "Update" /\ group[i].name = m.name
           /\ group[i].user = m.peer /\ group[i].peer = all[i + 1].addr
  <2>1. Len(all) >= 1 /\ Len(all) - 1 = n
    BY <1>1, <1>6
  <2>2. /\ group \in Seq(Mail) /\ Len(group) = Len(all) - 1
        /\ \A i \in 1..(Len(all) - 1) :
             /\ group[i].type = update.type /\ group[i].name = update.name
             /\ group[i].user = update.user /\ group[i].peer = all[i + 1].addr
    BY <1>4, <1>6, <2>1, GroupIs, Zenon
  <2> HIDE DEF group, n
  <2> QED  BY <1>4, <2>1, <2>2
<1> HIDE DEF group, n
<1>8. /\ r.out \in Seq(Mail) /\ Len(r.out) = n + 1 /\ r.out[1] = reply
      /\ \A k \in 2..(n + 1) : r.out[k] = group[k - 1]
  <2>1. <<reply>> \in Seq(Mail) /\ Len(<<reply>>) = 1 /\ <<reply>>[1] = reply
    BY <1>3
  <2> QED  BY <1>1, <1>5, <1>7, <2>1
<1>9. ServerList(all)
  <2>1. \A i \in 1..n : l[i].name # m.name
    BY <1>1 DEF hatchIsUserInList, Places, n
  <2>2. \A i \in 1..(n + 1) : i \in 1..n \/ i = n + 1
    BY <1>1
  <2>3. \A i \in 2..(n + 1) : i \in 2..n \/ i = n + 1
    BY <1>1
  <2>4. all[1].name = "server"
    BY <1>1, <1>6 DEF ServerList
  <2>5. \A i \in 2..(n + 1) : all[i].name \in Names /\ all[i].addr \in Clients
    BY <1>1, <1>2, <1>6, <2>3 DEF ServerList, n
  <2>6. \A i, j \in 1..(n + 1) : all[i].name = all[j].name => i = j
    BY <1>2, <1>6, <2>1, <2>2 DEF ServerList, n
  <2> QED  BY <1>1, <1>6, <2>4, <2>5, <2>6 DEF ServerList
<1> DEFINE new == [name |-> m.name, addr |-> m.peer]
           entry(q, i) == [name |-> q[i].name, addr |-> q[i].addr]
<1>10. Entries(all) = Entries(l) \cup {new}
  <2>1. \A i \in 2..n : i \in 2..(n + 1) /\ entry(all, i) = entry(l, i)
    BY <1>1, <1>6
  <2>2. n + 1 \in 2..(n + 1) /\ entry(all, n + 1) = new
    BY <1>1, <1>2, <1>6
  <2>3. \A i \in 2..(n + 1) : i \in 2..n \/ i = n + 1
    BY <1>1
  <2>4. Entries(all) = {entry(all, i) : i \in 2..(n + 1)} /\ Entries(l) = {entry(l, i) : i \in 2..n}
    BY <1>6 DEF Entries, n
  <2> HIDE DEF entry, new
  <2> QED  BY <2>1, <2>2, <2>3, <2>4
<1>11. ASSUME NEW k \in 2..(n + 1)
       PROVE  /\ r.out[k].type = "Update" /\ r.out[k].name = m.name /\ r.out[k].user = m.peer
              /\ r.out[k].peer = all[k].addr
              /\ \E e \in Entries(all) : r.out[k].peer = e.addr
  <2>1. k - 1 \in 1..n /\ (k - 1) + 1 = k
    BY <1>1
  <2>2. r.out[k].peer = all[k].addr
    BY <1>7, <1>8, <2>1, Zenon
  <2>3. entry(all, k) \in Entries(all) /\ entry(all, k).addr = all[k].addr
    BY <1>6 DEF Entries
  <2> QED  BY <1>7, <1>8, <2>1, <2>2, <2>3, Zenon
<1>12. n + 1 \in 2..(n + 1) /\ r.out[n + 1].peer = m.peer
  BY <1>1, <1>2, <1>6, <1>11
<1>13. Grants(l, m, r)
  BY <1>1, <1>3, <1>5, <1>8, <1>9, <1>10, <1>11, <1>12 DEF Grants
<1> QED  BY <1>13 DEF r

\* hatchMsgLogout: the entry goes, and who asked and the others are told.
Removes(l, m, r) ==
  /\ ServerList(r.users)
  /\ Entries(r.users) = {e \in Entries(l) : e.name # m.name}
  /\ r.out \in Seq(Mail)
  /\ \A k \in 1..Len(r.out) :
       /\ r.out[k].type = "Logout" /\ r.out[k].name = m.name
       /\ r.out[k].peer = m.peer \/ \E e \in Entries(r.users) : r.out[k].peer = e.addr

LEMMA ServerRemoves ==
  ASSUME NEW l, ServerList(l), NEW m \in Mail, m.type = "Logout", m.name \in Names,
         hatchIsUserInList(l, m.name)
  PROVE  Removes(l, m, ServerMsgProc(l, m))
<1> DEFINE k == hatchLocateUser(l, m.name)
           rest == hatchPopUser(l, m.name)
           group == Group(rest, 1, m)
           r == ServerMsgProc(l, m)
           n == Len(l)
<1>1. l \in Seq(Users) /\ n \in Nat /\ n >= 1 /\ l[1].name = "server"
  BY DEF ServerList
<1>2. k \in 2..n /\ l[k].name = m.name
  <2>1. k \in 1..n /\ l[k].name = m.name
    BY <1>1, Located
  <2>2. k # 1
    BY <1>1, <2>1, ChatAssumption
  <2> QED  BY <1>1, <2>1, <2>2
<1>3. r.users = rest /\ r.out = <<m>> \o group
  <2>1. r = [Nothing(rest) EXCEPT !.out = <<m>> \o group]
    BY DEF ServerMsgProc, ServerLogout
  <2> HIDE DEF rest, group, r
  <2> QED  BY <2>1 DEF Nothing
<1>4. /\ rest \in Seq(Users) /\ Len(rest) = n - 1
      /\ \A j \in 1..(n - 1) : rest[j] = IF j < k THEN l[j] ELSE l[j + 1]
  BY <1>1, Popped
<1> HIDE DEF rest, k, r
<1>5. /\ group \in Seq(Mail) /\ Len(group) = n - 2
      /\ \A i \in 1..(n - 2) :
           group[i].type = "Logout" /\ group[i].name = m.name /\ group[i].peer = rest[i + 1].addr
  <2>1. Len(rest) >= 1 /\ Len(rest) - 1 = n - 2
    BY <1>1, <1>2, <1>4
  <2>2. /\ group \in Seq(Mail) /\ Len(group) = Len(rest) - 1
        /\ \A i \in 1..(Len(rest) - 1) :
             /\ group[i].type = m.type /\ group[i].name = m.name
             /\ group[i].user = m.user /\ group[i].peer = rest[i + 1].addr
    BY <1>4, <2>1, GroupIs, Zenon
  <2> HIDE DEF group, n
  <2> QED  BY <2>1, <2>2, Zenon
<1> HIDE DEF group, n
<1>6. /\ r.out \in Seq(Mail) /\ Len(r.out) = n - 1 /\ r.out[1] = m
      /\ \A i \in 2..(n - 1) : r.out[i] = group[i - 1]
  <2>1. <<m>> \in Seq(Mail) /\ Len(<<m>>) = 1 /\ <<m>>[1] = m
    OBVIOUS
  <2> QED  BY <1>1, <1>2, <1>3, <1>5, <2>1
<1> DEFINE at(j) == IF j < k THEN j ELSE j + 1
           entry(q, i) == [name |-> q[i].name, addr |-> q[i].addr]
<1>7. \A j \in 1..(n - 1) : at(j) \in 1..n /\ rest[j] = l[at(j)] /\ at(j) # k
                            /\ (j \in 2..(n - 1) => at(j) \in 2..n)
  BY <1>1, <1>2, <1>4
<1>8. \A i, j \in 1..(n - 1) : at(i) = at(j) => i = j
  BY <1>1, <1>2
<1>9. \A i \in 2..n : i # k => \E j \in 2..(n - 1) : at(j) = i
  <2> SUFFICES ASSUME NEW i \in 2..n, i # k
               PROVE  \E j \in 2..(n - 1) : at(j) = i
    OBVIOUS
  <2>1. CASE i < k
    <3>1. i \in 2..(n - 1) /\ at(i) = i
      BY <1>1, <1>2, <2>1
    <3> QED  BY <3>1
  <2>2. CASE i > k
    <3>1. i - 1 \in 2..(n - 1) /\ at(i - 1) = i
      BY <1>1, <1>2, <2>2
    <3> QED  BY <3>1
  <2> QED  BY <1>2, <2>1, <2>2
<1>10. rest[1] = l[1]
  BY <1>1, <1>2, <1>4
<1> HIDE DEF at
<1>11. ServerList(rest)
  <2>1. /\ \A i \in 2..n : l[i].name \in Names /\ l[i].addr \in Clients
        /\ \A i, j \in 1..n : l[i].name = l[j].name => i = j
    BY Zenon DEF ServerList, n
  <2>2. ASSUME NEW i \in 1..(n - 1), NEW j \in 1..(n - 1), rest[i].name = rest[j].name
        PROVE  i = j
    <3>1. at(i) \in 1..n /\ at(j) \in 1..n /\ l[at(i)].name = l[at(j)].name
      BY <1>7, <2>2, Zenon
    <3>2. at(i) = at(j)
      BY <2>1, <3>1, Zenon
    <3> QED  BY <1>8, <3>2, Zenon
  <2>3. ASSUME NEW i \in 2..(n - 1)
        PROVE  rest[i].name \in Names /\ rest[i].addr \in Clients
    <3>1. i \in 1..(n - 1)
      BY <1>1
    <3> QED  BY <1>7, <2>1, <3>1, Zenon
  <2>4. n - 1 >= 1
    BY <1>1, <1>2
  <2> QED  BY <1>1, <1>4, <1>10, <2>2, <2>3, <2>4 DEF ServerList
<1>12. Entries(rest) = {e \in Entries(l) : e.name # m.name}
  <2>1. Entries(rest) = {entry(rest, i) : i \in 2..(n - 1)} /\ Entries(l) = {entry(l, i) : i \in 2..n}
    BY <1>4 DEF Entries, n
  <2>2. \A j \in 2..(n - 1) : j \in 1..(n - 1) /\ at(j) \in 2..n /\ at(j) \in 1..n
                              /\ at(j) # k /\ entry(rest, j) = entry(l, at(j))
    BY <1>1, <1>7
  <2>3. \A i \in 2..n : entry(l, i).name = m.name <=> i = k
    <3>1. \A i \in 2..n : i \in 1..n /\ entry(l, i).name = l[i].name
      OBVIOUS
    <3> QED  BY <1>2, <3>1 DEF ServerList, n
  <2>4. ASSUME NEW i \in 2..n, i # k
        PROVE  entry(l, i) \in Entries(rest)
    <3>1. PICK j \in 2..(n - 1) : at(j) = i
      BY <1>9, <2>4
    <3> QED  BY <2>1, <2>2, <3>1
  <2> HIDE DEF entry
  <2> QED  BY <2>1, <2>2, <2>3, <2>4
<1>13. ASSUME NEW i \in 1..(n - 1)
       PROVE  /\ r.out[i].type = "Logout" /\ r.out[i].name = m.name
              /\ r.out[i].peer = m.peer \/ \E e \in Entries(rest) : r.out[i].peer = e.addr
  <2>1. CASE i = 1
    BY <1>6, <2>1
  <2>2. CASE i \in 2..(n - 1)
    <3>1. i - 1 \in 1..(n - 2) /\ (i - 1) + 1 = i
      BY <1>1, <2>2
    <3>2. entry(rest, i) \in Entries(rest) /\ entry(rest, i).addr = rest[i].addr
      BY <1>4, <2>2 DEF Entries
    <3> QED  BY <1>5, <1>6, <2>2, <3>1, <3>2
  <2> QED  BY <2>1, <2>2
<1>14. Removes(l, m, r)
  BY <1>3, <1>6, <1>11, <1>12, <1>13 DEF Removes
<1> QED  BY <1>14 DEF r

\* what a client's handler may give for the message m
ClientResult(l, c, m, r) ==
  /\ ClientList(r.users, c) /\ r.users[2].name = l[2].name
  /\ r.out \in Seq(Mail)
  /\ \A b \in Elems(r.out) : IsBackSyn(b) /\ b.peer \in Clients
  /\ r.start = (m.type = "Login" /\ m.name = "server")

\* and for the client's own status
StatusChange(own, m, new) ==
  /\ m.type = "Login" /\ m.name = "server" => new.status = "Login"
  /\ m.type = "Update" /\ own.status = "Login" /\ m.name = own.name => new.status = "Online"
  /\ m.type = "Update" /\ own.status = "Online" => new.status = "Online"
  /\ m.type = "BackSyn" => new.status = own.status
  /\ m.type = "Logout" /\ m.name # own.name => new.status = own.status

StatusResult(l, m, r) == StatusChange(l[2], m, r.users[2])

LEMMA OwnStatusSet ==
  ASSUME NEW c \in Clients, NEW l, ClientList(l, c), NEW s \in Statuses
  PROVE  LET new == SetOwnStatus(l, s)
         IN  ClientList(new, c) /\ new[2].name = l[2].name /\ new[2].status = s
<1> DEFINE e == [l[2] EXCEPT !.status = s]
           new == [l EXCEPT ![2] = e]
<1>1. l \in Seq(Users) /\ 2 \in 1..Len(l) /\ 1 \in 1..Len(l)
  BY DEF ClientList
<1>2. l[2] \in Users
  BY <1>1
<1>3. e \in Users /\ e.name = l[2].name /\ e.addr = l[2].addr /\ e.status = s
  BY <1>2 DEF Users
<1>4. SetOwnStatus(l, s) = new
  BY DEF SetOwnStatus
<1> HIDE DEF e
<1>5. new \in Seq(Users) /\ Len(new) = Len(l) /\ new[1] = l[1] /\ new[2] = e
  BY <1>1, <1>3
<1> HIDE DEF new
<1> QED  BY <1>3, <1>4, <1>5 DEF ClientList

LEMMA Pushed ==
  ASSUME NEW c \in Clients, NEW l, ClientList(l, c), NEW u \in Users
  PROVE  LET new == hatchPushUser(l, u)
         IN  ClientList(new, c) /\ new[2] = l[2]
<1> DEFINE new == Append(l, u)
<1>1. l \in Seq(Users) /\ 2 \in 1..Len(l) /\ 1 \in 1..Len(l) /\ Len(l) \in Nat
  BY DEF ClientList
<1>2. new \in Seq(Users) /\ Len(new) = Len(l) + 1 /\ new[1] = l[1] /\ new[2] = l[2]
  BY <1>1
<1> HIDE DEF new
<1>3. ClientList(new, c)
  BY <1>1, <1>2 DEF ClientList
<1> QED  BY <1>2, <1>3, Zenon DEF hatchPushUser, new

\* A handler that sends nothing and starts nothing.
LEMMA NothingSent ==
  ASSUME NEW c, NEW l, NEW new, ClientList(new, c), new[2].name = l[2].name, NEW m,
         ~(m.type = "Login" /\ m.name = "server")
  PROVE  ClientResult(l, c, m, Nothing(new)) /\ Nothing(new).users = new
<1>1. <<>> \in Seq(Mail) /\ Elems(<<>>) = {}
  BY DEF Elems
<1>2. /\ Nothing(new).users = new /\ Nothing(new).out = <<>> /\ Nothing(new).start = FALSE
  BY DEF Nothing
<1> QED  BY <1>1, <1>2, Zenon DEF ClientResult

\* A client's handlers, for everything that is sent to one.
LEMMA ClientHandled ==
  ASSUME NEW c \in Clients, NEW l, ClientList(l, c), l[2].name \in Names,
         NEW m \in Mail, IsReport(m) \/ IsBackSyn(m)
  PROVE  /\ ClientResult(l, c, m, ClientMsgProc(l, m))
         /\ StatusResult(l, m, ClientMsgProc(l, m))
<1> DEFINE r == ClientMsgProc(l, m)
           u == User(m.name, m.user, "Online")
<1>1. CASE m.type = "Login"
  <2>1. r = ClientLogin(l, m)
    BY <1>1 DEF ClientMsgProc
  <2>2. /\ ClientList(SetOwnStatus(l, "Login"), c) /\ SetOwnStatus(l, "Login")[2].name = l[2].name
        /\ SetOwnStatus(l, "Login")[2].status = "Login"
        /\ ClientList(SetOwnStatus(l, "NULL"), c) /\ SetOwnStatus(l, "NULL")[2].name = l[2].name
    BY OwnStatusSet DEF Statuses
  <2>3. CASE m.name = "server"
    <3> DEFINE new == SetOwnStatus(l, "Login")
    <3>1. r = [Nothing(new) EXCEPT !.start = TRUE]
      BY <2>1, <2>3 DEF ClientLogin
    <3> HIDE DEF new, r
    <3>2. r.users = new /\ r.out = <<>> /\ r.start = TRUE
      BY <3>1 DEF Nothing
    <3>3. <<>> \in Seq(Mail) /\ Elems(<<>>) = {}
      BY DEF Elems
    <3>4. ClientResult(l, c, m, r)
      BY <1>1, <2>2, <2>3, <3>2, <3>3, Zenon DEF ClientResult, new
    <3>5. StatusResult(l, m, r)
      BY <1>1, <2>2, <3>2 DEF StatusResult, StatusChange, new
    <3> QED  BY <3>4, <3>5 DEF r
  <2>4. CASE m.name # "server"
    <3>1. r = Nothing(SetOwnStatus(l, "NULL"))
      BY <2>1, <2>4, Zenon DEF ClientLogin
    <3>2. ClientResult(l, c, m, r)
      BY <2>2, <2>4, <3>1, NothingSent
    <3>3. StatusResult(l, m, r)
      BY <1>1, <2>4, Zenon DEF StatusResult, StatusChange
    <3> QED  BY <3>2, <3>3
  <2> QED  BY <2>3, <2>4
<1>2. CASE m.type = "Update"
  <2>1. m.name \in Names /\ m.user \in Clients
    BY <1>2 DEF IsReport, IsBackSyn
  <2>2. r = ClientUpdate(l, m)
    BY <1>2 DEF ClientMsgProc
  <2>3. CASE l[2].status = "Login"
    <3> DEFINE s == IF m.name = l[2].name THEN "Online" ELSE "NULL"
               new == SetOwnStatus(l, s)
    <3>1. r = Nothing(new)
      BY <2>2, <2>3 DEF ClientUpdate, Own
    <3>2. s \in Statuses
      BY DEF Statuses
    <3>3. (m.name = l[2].name => s = "Online")
      OBVIOUS
    <3> HIDE DEF s
    <3>4. ClientList(new, c) /\ new[2].name = l[2].name /\ new[2].status = s
      BY <3>2, OwnStatusSet
    <3> HIDE DEF new, r
    <3>5. ClientResult(l, c, m, r) /\ r.users = new
      BY <1>2, <3>1, <3>4, NothingSent, Zenon
    <3>6. StatusResult(l, m, r)
      BY <1>2, <2>3, <3>3, <3>4, <3>5 DEF StatusResult, StatusChange
    <3> QED  BY <3>5, <3>6 DEF r
  <2>4. CASE l[2].status \in {"Online", "Hide", "Busy"} /\ ~hatchIsUserInList(l, m.name)
    <3> DEFINE new == hatchPushUser(l, u)
               back == Msg("BackSyn", m.user, l[2].name, l[2].addr)
    <3>1. r = [Nothing(new) EXCEPT !.out = <<back>>]
      <4>1. m.name # "error" /\ l[2].status # "Login"
        BY <2>1, <2>4, ChatAssumption
      <4> QED  BY <2>2, <2>4, <4>1 DEF ClientUpdate, Own
    <3>2. u \in Users
      BY <2>1 DEF User, Users, Hosts, Statuses
    <3>3. ClientList(new, c) /\ new[2] = l[2]
      BY <3>2, Pushed
    <3>4. back \in Mail /\ IsBackSyn(back) /\ back.peer \in Clients
      BY <2>1 DEF Msg, Mail, IsBackSyn, Hosts, ClientList
    <3> HIDE DEF new, back, r
    <3>5. r.users = new /\ r.out = <<back>> /\ r.start = FALSE
      BY <3>1 DEF Nothing
    <3>6. <<back>> \in Seq(Mail) /\ Elems(<<back>>) = {back}
      BY <3>4 DEF Elems
    <3>7. ClientResult(l, c, m, r)
      BY <1>2, <3>3, <3>4, <3>5, <3>6, Zenon DEF ClientResult
    <3>8. StatusResult(l, m, r)
      BY <1>2, <2>4, <3>3, <3>5, Zenon DEF StatusResult, StatusChange
    <3> QED  BY <3>7, <3>8 DEF r
  <2>5. CASE l[2].status # "Login"
             /\ ~(l[2].status \in {"Online", "Hide", "Busy"} /\ ~hatchIsUserInList(l, m.name))
    <3>1. r = Nothing(l)
      BY <2>2, <2>5 DEF ClientUpdate, Own
    <3>2. ClientResult(l, c, m, r) /\ r.users = l
      BY <1>2, <3>1, NothingSent
    <3>3. StatusResult(l, m, r)
      BY <1>2, <2>5, <3>2 DEF StatusResult, StatusChange
    <3> QED  BY <3>2, <3>3 DEF r
  <2> QED  BY <2>3, <2>4, <2>5
<1>3. CASE m.type = "BackSyn"
  <2> DEFINE new == hatchPushUser(l, u)
  <2>1. m.name \in Names /\ m.user \in Clients
    BY <1>3 DEF IsReport, IsBackSyn
  <2>2. r = Nothing(new)
    BY <1>3 DEF ClientMsgProc, ClientBackSyn
  <2>3. u \in Users
    BY <2>1 DEF User, Users, Hosts, Statuses
  <2>4. ClientList(new, c) /\ new[2] = l[2]
    BY <2>3, Pushed
  <2> HIDE DEF new, r
  <2>5. ClientResult(l, c, m, r) /\ r.users = new
    BY <1>3, <2>2, <2>4, NothingSent, Zenon
  <2>6. StatusResult(l, m, r)
    BY <1>3, <2>4, <2>5, Zenon DEF StatusResult, StatusChange
  <2> QED  BY <2>5, <2>6 DEF r
<1>4. CASE m.type = "Logout"
  <2>1. m.name \in Names
    BY <1>4 DEF IsReport, IsBackSyn
  <2>2. r = ClientLogout(l, m)
    BY <1>4 DEF ClientMsgProc
  <2>3. CASE ~hatchIsUserInList(l, m.name)
    <3>1. r = Nothing(l)
      BY <2>2, <2>3 DEF ClientLogout
    <3>2. ClientResult(l, c, m, r) /\ r.users = l
      BY <1>4, <3>1, NothingSent
    <3>3. StatusResult(l, m, r)
      BY <1>4, <3>2 DEF StatusResult, StatusChange
    <3> QED  BY <3>2, <3>3 DEF r
  <2>4. CASE hatchIsUserInList(l, m.name) /\ m.name = l[2].name
    <3> DEFINE new == SetOwnStatus(l, "NULL")
    <3>1. r = [Nothing(new) EXCEPT !.end = TRUE]
      BY <2>2, <2>4 DEF ClientLogout, Own
    <3>2. ClientList(new, c) /\ new[2].name = l[2].name
      BY OwnStatusSet DEF Statuses
    <3> HIDE DEF new, r
    <3>3. r.users = new /\ r.out = <<>> /\ r.start = FALSE
      BY <3>1 DEF Nothing
    <3>4. <<>> \in Seq(Mail) /\ Elems(<<>>) = {}
      BY DEF Elems
    <3>5. ClientResult(l, c, m, r)
      BY <1>4, <3>2, <3>3, <3>4, Zenon DEF ClientResult
    <3>6. StatusResult(l, m, r)
      BY <1>4, <2>4 DEF StatusResult, StatusChange
    <3> QED  BY <3>5, <3>6 DEF r
  <2>5. CASE hatchIsUserInList(l, m.name) /\ m.name # l[2].name
    <3> DEFINE k == hatchLocateUser(l, m.name)
               rest == hatchPopUser(l, m.name)
    <3>1. l \in Seq(Users) /\ Len(l) >= 2 /\ Len(l) \in Nat /\ l[1].name = "server"
      BY DEF ClientList
    <3>2. k \in 1..Len(l) /\ l[k].name = m.name
      BY <2>5, <3>1, Located
    <3>3. k # 1 /\ k # 2
      BY <2>1, <2>5, <3>1, <3>2, ChatAssumption, Zenon
    <3>4. /\ rest \in Seq(Users) /\ Len(rest) = Len(l) - 1
          /\ \A j \in 1..Len(rest) : rest[j] = IF j < k THEN l[j] ELSE l[j + 1]
      BY <2>5, <3>1, Popped
    <3>5. r = Nothing(rest)
      BY <2>2, <2>5 DEF ClientLogout, Own
    <3> HIDE DEF k, rest, r
    <3>6. Len(rest) >= 2 /\ rest[1] = l[1] /\ rest[2] = l[2]
      BY <3>1, <3>2, <3>3, <3>4
    <3>7. ClientList(rest, c)
      BY <3>4, <3>6 DEF ClientList
    <3>8. ClientResult(l, c, m, r) /\ r.users = rest
      BY <1>4, <3>5, <3>6, <3>7, NothingSent, Zenon
    <3>9. StatusResult(l, m, r)
      BY <1>4, <3>6, <3>8 DEF StatusResult, StatusChange
    <3> QED  BY <3>8, <3>9 DEF r
  <2> QED  BY <2>3, <2>4, <2>5
<1> QED  BY <1>1, <1>2, <1>3, <1>4 DEF IsReport, IsBackSyn

-----------------------------------------------------------------------------
(* What is on its way *)

Asked(n, c, type) == \E m \in Elems(n[c][Server]) : m.type = type
Answered(n, c, reply) == \E m \in Elems(n[Server][c]) : m.type = "Login" /\ m.name = reply

LEMMA AskedIs ==
  ASSUME NEW n \in Channels, NEW c \in Clients, NEW type
  PROVE  (\E i \in DOMAIN n[c][Server] : n[c][Server][i].type = type) <=> Asked(n, c, type)
<1>1. n[c][Server] \in Seq(Mail)
  BY DEF Channels, Hosts
<1>2. DOMAIN n[c][Server] = 1..Len(n[c][Server])
  BY <1>1
<1> QED  BY <1>2 DEF Asked, Elems

LEMMA AnsweredIs ==
  ASSUME NEW n \in Channels, NEW c \in Clients, NEW reply
  PROVE  (\E i \in DOMAIN n[Server][c] :
            n[Server][c][i].type = "Login" /\ n[Server][c][i].name = reply)
         <=> Answered(n, c, reply)
<1>1. n[Server][c] \in Seq(Mail)
  BY DEF Channels, Hosts
<1>2. DOMAIN n[Server][c] = 1..Len(n[Server][c])
  BY <1>1
<1> QED  BY <1>2 DEF Answered, Elems

\* The register's sets of messages.
LEMMA Mapped ==
  ASSUME net \in Channels
  PROVE  /\ \A type : ToServer(type) = {c \in Clients : Asked(net, c, type)}
         /\ \A reply : Replied(reply) = {c \in Clients : Answered(net, c, reply)}
  BY AskedIs, AnsweredIs DEF ToServer, Replied

LEMMA MappedNext ==
  ASSUME net' \in Channels
  PROVE  /\ \A type : ToServer(type)' = {c \in Clients : Asked(net', c, type)}
         /\ \A reply : Replied(reply)' = {c \in Clients : Answered(net', c, reply)}
  BY AskedIs, AnsweredIs DEF ToServer, Replied

\* A message is its own only sequence.
LEMMA AddressedOne ==
  ASSUME NEW m \in Mail
  PROVE  /\ Addressed(<<m>>, m.peer) = <<m>>
         /\ \A d : d # m.peer => Addressed(<<m>>, d) = <<>>
<1>1. <<m>> \in Seq(Mail) /\ Len(<<m>>) = 1 /\ <<m>>[1] = m /\ Elems(<<m>>) = {m}
  BY DEF Elems
<1>2. PICK f : Picks(f, 1, <<m>>, m.peer) /\ Addressed(<<m>>, m.peer) = f[1]
  <2>1. \E f : Picks(f, 1, <<m>>, m.peer)
    BY PicksExists
  <2> QED  BY <1>1, <2>1, Zenon DEF Picks, Addressed
<1>3. f[0] = <<>> /\ f[1] = Append(f[0], m)
  BY <1>1, <1>2 DEF Picks
<1>4. f[1] = <<m>>
  BY <1>3
<1>5. ASSUME NEW d, d # m.peer
      PROVE  Addressed(<<m>>, d) = <<>>
  BY <1>1, <1>5, AddressedNone, Zenon
<1> QED  BY <1>2, <1>4, <1>5

\* A client that sends to the server, and nobody else.
LEMMA Requested ==
  ASSUME NEW channels \in Channels, NEW c \in Clients, NEW m \in Mail, m.peer = Server
  PROVE  LET new == Post(channels, c, <<m>>)
         IN  /\ new \in Channels
             /\ \A r \in Hosts \ {c} : new[r] = channels[r]
             /\ new[c][Server] = channels[c][Server] \o <<m>>
             /\ \A d \in Clients : Elems(new[c][d]) \subseteq Elems(channels[c][d])
<1> DEFINE new == Post(channels, c, <<m>>)
<1>1. <<m>> \in Seq(Mail) /\ c \in Hosts /\ Server \in Hosts /\ ~Gone(Server)
  BY ChatAssumption DEF Hosts, Gone
<1>2. /\ new \in Channels
      /\ \A r \in Hosts \ {c} : new[r] = channels[r]
      /\ \A d \in Hosts : new[c][d] =
           IF Gone(d) THEN <<>> ELSE channels[c][d] \o Addressed(<<m>>, d)
  <2>1. IsPost(new, channels, c, <<m>>)
    BY <1>1, PostIs, Zenon
  <2> HIDE DEF new
  <2> QED  BY <2>1, Zenon DEF IsPost
<1> HIDE DEF new
<1>3. new[c][Server] = channels[c][Server] \o <<m>>
  BY <1>1, <1>2, AddressedOne, Zenon
<1>4. ASSUME NEW d \in Clients
      PROVE  Elems(new[c][d]) \subseteq Elems(channels[c][d])
  <2>1. d \in Hosts /\ d # Server /\ channels[c][d] \in Seq(Mail)
    BY <1>1, ChatAssumption DEF Hosts, Channels
  <2>2. Addressed(<<m>>, d) = <<>>
    BY <2>1, AddressedOne
  <2>3. channels[c][d] \o <<>> = channels[c][d]
    BY <2>1
  <2>4. Elems(<<>>) = {}
    BY DEF Elems
  <2> QED  BY <1>2, <2>1, <2>2, <2>3, <2>4, Zenon
<1> QED  BY <1>2, <1>3, <1>4, Zenon DEF new

\* What the register says of a client.
LEMMA RegisterSays ==
  ASSUME Register, NEW c \in Clients
  PROVE  /\ phase \in [Clients -> {"off", "asked", "chat", "leaving", "gone"}]
         /\ phase[c] # "asked" =>
              c \notin ToServer("Login") /\ c \notin Replied("server") /\ c \notin Replied("error")
         /\ phase[c] \in {"off", "asked", "chat"} => c \notin ToServer("Logout")
         /\ c \in ToServer("Login") => c \notin Replied("server") /\ c \notin Replied("error")
         /\ c \in Replied("server") => c \notin Replied("error")
         /\ c \in ToServer("Logout") \/ phase[c] = "chat" \/ c \in Replied("server") =>
              [name |-> NamesOf[c], addr |-> c] \in Listed
<1> USE DEF Register, Registered!TypeOK, Registered!RegistryInvariant
<1>1. Registered!Entry(c) = [name |-> NamesOf[c], addr |-> c] /\ Registered!Entry(c).addr = c
  BY DEF Registered!Entry
<1>2. phase \in [Clients -> {"off", "asked", "chat", "leaving", "gone"}]
  OBVIOUS
<1>3. /\ c \in ToServer("Login") => phase[c] = "asked" /\ c \notin Replied("error")
      /\ c \in Replied("server") => phase[c] = "asked" /\ Registered!Entry(c) \in Listed
      /\ c \in Replied("error") => phase[c] = "asked"
      /\ c \in ToServer("Logout") => phase[c] \in {"leaving", "gone"} /\ Registered!Entry(c) \in Listed
      /\ phase[c] = "chat" => Registered!Entry(c) \in Listed
  OBVIOUS
<1>4. Registered!Entry(c) \in Listed => c \notin ToServer("Login") /\ c \notin Replied("error")
  BY <1>1
<1> HIDE DEF Register, Registered!TypeOK, Registered!RegistryInvariant
<1> QED  BY <1>1, <1>2, <1>3, <1>4, Zenon

\* and of an entry.
LEMMA ListedSays ==
  ASSUME Register, NEW e \in Listed
  PROVE  /\ e.addr \in Clients /\ e.name = NamesOf[e.addr]
         /\ phase[e.addr] # "off" /\ e.addr \notin ToServer("Login")
         /\ \A f \in Listed : e.name = f.name => e = f
<1> USE DEF Register, Registered!TypeOK, Registered!RegistryInvariant
<1>1. e.addr \in Clients
  OBVIOUS
<1>2. e = Registered!Entry(e.addr) /\ e.addr \notin ToServer("Login")
  OBVIOUS
<1>3. e.name = NamesOf[e.addr]
  BY <1>2 DEF Registered!Entry
<1>4. phase[e.addr] # "off"
  <2>1. e.addr \in Replied("server") \/ phase[e.addr] = "chat" \/ e.addr \in ToServer("Logout")
    OBVIOUS
  <2> QED  BY <2>1
<1> QED  BY <1>1, <1>2, <1>3, <1>4

LEMMA NamesKept ==
  ASSUME users' = users
  PROVE  NamesOf' = NamesOf /\ \A c : NameOf(c)' = NameOf(c)
  BY DEF NamesOf, NameOf

LEMMA ListedKept ==
  ASSUME serverUsers' = serverUsers
  PROVE  Listed' = Listed
  BY DEF Listed

LEMMA ListedIs == Listed = Entries(serverUsers) /\ Listed' = Entries(serverUsers')
  BY DEF Listed, Entries

-----------------------------------------------------------------------------
(* The steps *)

\* nothing is on its way from c to the server
Idle(c) == Len(net[c][Server]) = 0 /\ Elems(net[c][Server]) = {}

\* A client with no request on its way has an empty channel to the server.
LEMMA NoRequest ==
  ASSUME Wire, NEW c \in Clients, c \notin ToServer("Login"), c \notin ToServer("Logout")
  PROVE  Idle(c)
<1>1. net \in Channels /\ net[c][Server] \in Seq(Mail)
  BY DEF Wire, Channels, Hosts
<1>2. ~Asked(net, c, "Login") /\ ~Asked(net, c, "Logout")
  BY <1>1, Mapped
<1>3. Elems(net[c][Server]) = {}
  BY <1>2, Zenon DEF Asked, Wire, IsRequest
<1>4. ~(1 \in 1..Len(net[c][Server]))
  BY <1>3, Zenon DEF Elems
<1>5. Len(net[c][Server]) = 0
  BY <1>1, <1>4
<1> QED  BY <1>3, <1>5 DEF Idle

Sends(c, m) == net' = Post(net, c, <<m>>)

\* A request of a client c with an empty channel to the server: the wire stays
\* in order, and the register gets the request.
LEMMA RequestSent ==
  ASSUME Wire, NEW c \in Clients, NEW m \in Mail, m.peer = Server, IsRequest(m, c)',
         Idle(c), Sends(c, m),
         \A d \in Clients \ {c} : NameOf(d)' = NameOf(d)
  PROVE  /\ Wire'
         /\ \A type : ToServer(type)' = IF type = m.type THEN ToServer(type) \cup {c}
                                        ELSE ToServer(type)
         /\ \A reply : Replied(reply)' = Replied(reply)
<1>1. net \in Channels /\ c \in Hosts /\ Server \in Hosts /\ Server # c /\ Clients \subseteq Hosts
  BY ChatAssumption, Zenon DEF Wire, Channels, Hosts
<1>2. /\ net' \in Channels
      /\ \A r \in Hosts \ {c} : net'[r] = net[r]
      /\ net'[c][Server] = net[c][Server] \o <<m>>
      /\ \A d \in Clients : Elems(net'[c][d]) \subseteq Elems(net[c][d])
  BY <1>1, Requested, Zenon DEF Sends
<1> DEFINE old == net[c][Server]
           one == <<m>>
<1>3. net'[c][Server] = old \o one /\ old \in Seq(Mail) /\ one \in Seq(Mail)
  BY <1>1, <1>2 DEF Channels
<1>4. Len(old) = 0 /\ Len(one) = 1
  BY DEF Idle
<1>5. Elems(old) = {} /\ Elems(one) = {m}
  BY DEF Idle, Elems
<1> HIDE DEF old, one
<1>6. Len(old \o one) = Len(old) + Len(one) /\ Elems(old \o one) = Elems(old) \cup Elems(one)
  BY <1>3, ConcatElems
<1>7. Len(net'[c][Server]) <= 1
  BY <1>3, <1>4, <1>6
<1>8. Elems(net'[c][Server]) = {m}
  BY <1>3, <1>5, <1>6, Zenon
<1>9. \A r \in Hosts \ {c} : \A d : net'[r][d] = net[r][d]
  BY <1>2
<1>10. net'[Server] = net[Server]
  BY <1>1, <1>2, Zenon
<1>11. ASSUME NEW d \in Clients
      PROVE  /\ Len(net'[d][Server]) <= 1
             /\ \A q \in Elems(net'[d][Server]) : IsRequest(q, d)'
  <2>1. CASE d = c
    <3>1. \A q \in {m} : IsRequest(q, c)'
      BY DEF IsRequest
    <3>2. \A q \in Elems(net'[d][Server]) : IsRequest(q, c)'
      BY <1>8, <2>1, <3>1
    <3>3. Len(net'[d][Server]) <= 1
      BY <1>7, <2>1, Zenon
    <3> QED  BY <2>1, <3>2, <3>3 DEF IsRequest
  <2>2. CASE d # c
    <3>1. net'[d][Server] = net[d][Server] /\ NameOf(d)' = NameOf(d)
      BY <1>1, <1>9, <2>2
    <3>2. Len(net[d][Server]) <= 1 /\ \A q \in Elems(net[d][Server]) : IsRequest(q, d)
      BY Zenon DEF Wire
    <3> QED  BY <3>1, <3>2 DEF IsRequest
  <2> QED  BY <2>1, <2>2, Zenon
<1>12. ASSUME NEW d \in Clients, NEW e \in Clients
      PROVE  \A q \in Elems(net'[d][e]) : IsBackSyn(q)
  <2>1. Elems(net'[d][e]) \subseteq Elems(net[d][e])
    BY <1>1, <1>2, <1>9, Zenon
  <2> QED  BY <2>1 DEF Wire
<1>13. Wire'
  BY <1>2, <1>10, <1>11, <1>12, Zenon DEF Wire, Channels, Hosts, IsReport, IsBackSyn
<1>14. \A d \in Clients : \A type : Asked(net', d, type) <=>
        Asked(net, d, type) \/ (d = c /\ type = m.type)
  BY <1>1, <1>8, <1>9 DEF Asked, Idle
<1>15. \A d \in Clients : \A reply : Answered(net', d, reply) <=> Answered(net, d, reply)
  BY <1>10 DEF Answered
<1>16. /\ \A type : ToServer(type) = {d \in Clients : Asked(net, d, type)}
       /\ \A reply : Replied(reply) = {d \in Clients : Answered(net, d, reply)}
  BY <1>1, Mapped, Zenon
<1>17. /\ \A type : ToServer(type)' = {d \in Clients : Asked(net', d, type)}
       /\ \A reply : Replied(reply)' = {d \in Clients : Answered(net', d, reply)}
  BY <1>2, MappedNext
<1>18. ASSUME NEW type
       PROVE  ToServer(type)' = IF type = m.type THEN ToServer(type) \cup {c} ELSE ToServer(type)
  <2>1. /\ ToServer(type) = {d \in Clients : Asked(net, d, type)}
        /\ ToServer(type)' = {d \in Clients : Asked(net', d, type)}
    BY <1>16, <1>17
  <2>2. \A d \in Clients : Asked(net', d, type) <=> Asked(net, d, type) \/ (d = c /\ type = m.type)
    BY <1>14
  <2>3. CASE type = m.type
    BY <2>1, <2>2, <2>3
  <2>4. CASE type # m.type
    BY <2>1, <2>2, <2>4, Zenon
  <2> QED  BY <2>3, <2>4
<1>19. ASSUME NEW reply
       PROVE  Replied(reply)' = Replied(reply)
  BY <1>15, <1>16, <1>17
<1> QED  BY <1>13, <1>18, <1>19

\* hatchClientLogin
LEMMA LoginStep ==
  ASSUME Inv, NEW c \in Clients, NEW n \in Names, Login(c, n)
  PROVE  Lists' /\ Wire' /\ Registered!Login(c, n)
<1> DEFINE m == LoginRequest(Server, n)
           u == [users[c][2] EXCEPT !.name = n]
           l == [users[c] EXCEPT ![2] = u]
<1>1. Lists /\ Wire /\ Register /\ phase[c] = "off"
  BY DEF Inv, Login
<1>2. m \in Mail /\ m.type = "Login" /\ m.name = n /\ m.peer = Server
  BY DEF LoginRequest, Msg, Mail, Hosts
<1>3. Idle(c)
  BY <1>1, RegisterSays, NoRequest, Zenon
<1>4. ClientList(users[c], c) /\ DOMAIN users = Clients
  BY <1>1 DEF Lists
<1>5. users[c] \in Seq(Users) /\ 1 \in 1..Len(users[c]) /\ 2 \in 1..Len(users[c])
  BY <1>4 DEF ClientList
<1>6. users[c][2] \in Users
  BY <1>5
<1>7. u \in Users /\ u.name = n /\ u.addr = users[c][2].addr
  BY <1>6 DEF Users
<1>8. users' = [users EXCEPT ![c] = l]
  BY DEF Login
<1> HIDE DEF u
<1>9. l \in Seq(Users) /\ Len(l) = Len(users[c]) /\ l[1] = users[c][1] /\ l[2] = u
  BY <1>5, <1>7
<1> HIDE DEF l, m
<1>10. ClientList(l, c)
  BY <1>4, <1>7, <1>9 DEF ClientList
<1>11. users'[c] = l /\ DOMAIN users' = Clients /\ \A d \in Clients \ {c} : users'[d] = users[d]
  BY <1>4, <1>8
<1>12. NameOf(c)' = n /\ \A d \in Clients \ {c} : NameOf(d)' = NameOf(d)
  BY <1>7, <1>9, <1>11 DEF NameOf, Own
<1>13. IsRequest(m, c)'
  BY <1>2, <1>12, Zenon DEF IsRequest
<1>14. /\ Wire'
       /\ ToServer("Login")' = ToServer("Login") \cup {c}
       /\ ToServer("Logout")' = ToServer("Logout")
       /\ \A reply : Replied(reply)' = Replied(reply)
  <2>1. Sends(c, m)
    BY DEF Login, Sends, m
  <2> QED  BY <1>1, <1>2, <1>3, <1>12, <1>13, <2>1, RequestSent
<1>15. phase' = [phase EXCEPT ![c] = "asked"] /\ serverUsers' = serverUsers
  BY DEF Login
<1>16. phase \in [Clients -> {"off", "asked", "chat", "leaving", "gone"}]
  BY <1>1, RegisterSays, Zenon
<1>17. Lists'
  <2>1. \A d \in Clients : ClientList(users'[d], d)
    BY <1>1, <1>10, <1>11 DEF Lists
  <2>2. \A d \in Clients : phase'[d] # "off" => NameOf(d)' \in Names
    BY <1>1, <1>12, <1>15, <1>16 DEF Lists
  <2>3. ServerList(serverUsers')
    BY <1>1, <1>15 DEF Lists
  <2> QED  BY <1>11, <2>1, <2>2, <2>3, Zenon DEF Lists, ClientList, ServerList
<1>18. NamesOf' = [NamesOf EXCEPT ![c] = n]
  BY <1>12, Zenon DEF NamesOf
<1>19. Listed' = Listed
  BY <1>15, ListedKept
<1>20. Registered!Login(c, n)
  BY <1>1, <1>14, <1>15, <1>18, <1>19 DEF Registered!Login
<1> QED  BY <1>14, <1>17, <1>20

\* hatchClientLogout
LEMMA CloseStep ==
  ASSUME Inv, NEW c \in Clients, Close(c)
  PROVE  Lists' /\ Wire' /\ Registered!Close(c)
<1>1. Lists /\ Wire /\ Register /\ phase[c] = "chat"
  BY DEF Inv, Close
<1>2. PICK n \in Names : n = NameOf(c)
  BY <1>1 DEF Lists
<1> DEFINE m == LogoutRequest(Server, n)
<1>3. m \in Mail /\ m.type = "Logout" /\ m.name = n /\ m.peer = Server
  BY <1>2 DEF LogoutRequest, Msg, Mail, Hosts
<1>4. Idle(c)
  BY <1>1, RegisterSays, NoRequest, Zenon
<1>5. Sends(c, m)
  BY <1>2, Zenon DEF Close, Sends, NameOf
<1> HIDE DEF m
<1>6. users' = users /\ serverUsers' = serverUsers /\ phase' = [phase EXCEPT ![c] = "leaving"]
  BY DEF Close
<1>7. NamesOf' = NamesOf /\ \A d : NameOf(d)' = NameOf(d)
  BY <1>6, NamesKept
<1>8. IsRequest(m, c)'
  BY <1>2, <1>3, <1>7 DEF IsRequest
<1>9. /\ Wire'
      /\ ToServer("Login")' = ToServer("Login")
      /\ ToServer("Logout")' = ToServer("Logout") \cup {c}
      /\ \A reply : Replied(reply)' = Replied(reply)
  BY <1>1, <1>3, <1>4, <1>5, <1>7, <1>8, RequestSent
<1>10. phase \in [Clients -> {"off", "asked", "chat", "leaving", "gone"}]
  BY <1>1, RegisterSays, Zenon
<1>11. Lists'
  <2>1. \A d \in Clients : phase'[d] # "off" => NameOf(d)' \in Names
    BY <1>1, <1>6, <1>7, <1>10 DEF Lists
  <2> QED  BY <1>1, <1>6, <2>1 DEF Lists, ClientList, ServerList
<1>12. Listed' = Listed
  BY <1>6, ListedKept
<1>13. Registered!Close(c)
  BY <1>1, <1>6, <1>7, <1>9, <1>12 DEF Registered!Close
<1> QED  BY <1>9, <1>11, <1>13, Zenon

\* The process ends.
LEMMA ExitStep ==
  ASSUME Inv, NEW c \in Clients, Exit(c)
  PROVE  Lists' /\ Wire' /\ Registered!Exit(c)
<1>1. Lists /\ Wire /\ Register /\ phase[c] = "leaving"
  BY DEF Inv, Exit
<1>2. /\ net \in Channels /\ c \in Hosts /\ Server \in Hosts /\ Server # c
      /\ Clients \subseteq Hosts
  BY <1>1, ChatAssumption, Zenon DEF Wire, Channels, Hosts
<1>3. users' = users /\ serverUsers' = serverUsers /\ phase' = [phase EXCEPT ![c] = "gone"]
  BY DEF Exit
<1>4. /\ net' \in Channels
      /\ \A s, d \in Hosts : net'[s][d] = IF d = c THEN <<>> ELSE net[s][d]
  <2>1. \A s \in Hosts : /\ [net[s] EXCEPT ![c] = <<>>] \in [Hosts -> Seq(Mail)]
                         /\ \A d \in Hosts : [net[s] EXCEPT ![c] = <<>>][d] =
                                               IF d = c THEN <<>> ELSE net[s][d]
    <3>1. <<>> \in Seq(Mail)
      OBVIOUS
    <3>2. \A s \in Hosts : net[s] \in [Hosts -> Seq(Mail)]
      BY <1>2, Zenon DEF Channels
    <3>3. TAKE s \in Hosts
    <3>4. PICK row \in [Hosts -> Seq(Mail)] : row = net[s]
      BY <3>2, Zenon
    <3>5. /\ [row EXCEPT ![c] = <<>>] \in [Hosts -> Seq(Mail)]
          /\ \A d \in Hosts : [row EXCEPT ![c] = <<>>][d] = IF d = c THEN <<>> ELSE row[d]
      BY <3>1, Zenon
    <3> QED  BY <3>4, <3>5, Zenon
  <2>2. net' = [s \in Hosts |-> [net[s] EXCEPT ![c] = <<>>]]
    BY DEF Exit
  <2> QED  BY <2>1, <2>2 DEF Channels
<1>5. NamesOf' = NamesOf /\ \A d : NameOf(d)' = NameOf(d)
  BY <1>3, NamesKept
<1>6. Elems(<<>>) = {} /\ Single(<<>>)
  BY DEF Elems, Single
<1>7. Wire'
  <2>1. \A d \in Clients : net'[d][Server] = net[d][Server]
    BY <1>2, <1>4
  <2>2. \A d \in Clients : net'[Server][d] = <<>> \/ net'[Server][d] = net[Server][d]
    BY <1>2, <1>4
  <2>3. \A d, e \in Clients : net'[d][e] = <<>> \/ net'[d][e] = net[d][e]
    BY <1>2, <1>4, Zenon
  <2>4. \A d \in Clients : /\ Len(net'[d][Server]) <= 1
                           /\ \A q \in Elems(net'[d][Server]) : IsRequest(q, d)'
    BY <1>1, <1>5, <2>1, Zenon DEF Wire, IsRequest
  <2>5. \A d \in Clients : /\ \A q \in Elems(net'[Server][d]) : IsReport(q)
                           /\ Single(net'[Server][d])
    BY <1>1, <1>6, <2>2, Zenon DEF Wire
  <2>6. \A d, e \in Clients : \A q \in Elems(net'[d][e]) : IsBackSyn(q)
    BY <1>1, <1>6, <2>3, Zenon DEF Wire
  <2> QED  BY <1>4, <2>4, <2>5, <2>6, Zenon DEF Wire, Channels, Hosts, IsReport, IsBackSyn
<1>8. \A d \in Clients : \A type : Asked(net', d, type) <=> Asked(net, d, type)
  BY <1>2, <1>4, Zenon DEF Asked
<1>9. \A d \in Clients : \A reply : Answered(net', d, reply) <=> d # c /\ Answered(net, d, reply)
  BY <1>2, <1>4, <1>6 DEF Answered
<1>10. c \notin Replied("server") /\ c \notin Replied("error")
  BY <1>1, RegisterSays, Zenon
<1>11. /\ ToServer("Login")' = ToServer("Login") /\ ToServer("Logout")' = ToServer("Logout")
       /\ Replied("server")' = Replied("server") /\ Replied("error")' = Replied("error")
  <2>1. ~Answered(net, c, "server") /\ ~Answered(net, c, "error")
    BY <1>2, <1>10, Mapped
  <2>2. /\ \A type : ToServer(type) = {d \in Clients : Asked(net, d, type)}
        /\ \A reply : Replied(reply) = {d \in Clients : Answered(net, d, reply)}
    BY <1>2, Mapped, Zenon
  <2>3. /\ \A type : ToServer(type)' = {d \in Clients : Asked(net', d, type)}
        /\ \A reply : Replied(reply)' = {d \in Clients : Answered(net', d, reply)}
    BY <1>4, MappedNext
  <2>4. \A type : ToServer(type)' = ToServer(type)
    BY <1>8, <2>2, <2>3
  <2>5. /\ \A d \in Clients : Answered(net', d, "server") <=> Answered(net, d, "server")
        /\ \A d \in Clients : Answered(net', d, "error") <=> Answered(net, d, "error")
    BY <1>9, <2>1
  <2>6. Replied("server")' = Replied("server") /\ Replied("error")' = Replied("error")
    BY <2>2, <2>3, <2>5, ZenonT(40)
  <2> QED  BY <2>4, <2>6
<1>12. Lists'
  <2>1. phase \in [Clients -> {"off", "asked", "chat", "leaving", "gone"}]
    BY <1>1, RegisterSays, Zenon
  <2>2. \A d \in Clients : phase'[d] # "off" => NameOf(d)' \in Names
    BY <1>1, <1>3, <1>5, <2>1, Zenon DEF Lists
  <2> QED  BY <1>1, <1>3, <2>2 DEF Lists, ClientList, ServerList
<1>13. Registered!Exit(c)
  BY <1>1, <1>3, <1>5, <1>11, ListedKept, Zenon DEF Registered!Exit
<1> QED  BY <1>7, <1>12, <1>13

\* the server takes the i-th request of c and sends out
Handles(c, i, out) == net' = Post(Take(c, Server, i), Server, out)

\* What the server sends: reports, and a Login only as the first of them, to
\* the client whose request it is, when no other is on its way to it.
IsAnswer(out, c) ==
  /\ \A m \in Elems(out) : IsReport(m)
  /\ \A k \in 2..Len(out) : out[k].type # "Login"
  /\ \A m \in Elems(out) : m.type = "Login" =>
       m.peer = c /\ \A q \in Elems(net[Server][c]) : q.type # "Login"

\* the server sends out, and with it that reply to whoever it is addressed to
Sent(out) ==
  /\ out \in Seq(Mail)
  /\ \A d \in Clients : net'[Server][d] =
       IF Gone(d) THEN <<>> ELSE net[Server][d] \o Addressed(out, d)
RepliesWith(reply, out) ==
  Replied(reply)' =
    {d \in Clients : ~Gone(d) /\
       (d \in Replied(reply) \/
          \E m \in Elems(out) : m.peer = d /\ m.type = "Login" /\ m.name = reply)}

LEMMA RequestHandled ==
  ASSUME Wire, NEW c \in Clients, NEW i \in 1..Len(net[c][Server]), NEW out \in Seq(Mail),
         IsAnswer(out, c), Handles(c, i, out), users' = users
  PROVE  /\ Wire'
         /\ \A type : ToServer(type)' = ToServer(type) \ {c}
         /\ \A reply : RepliesWith(reply, out)
         /\ Sent(out)
<1>1. net \in Channels /\ c \in Hosts /\ Server \in Hosts /\ Server # c /\ Clients \subseteq Hosts
  BY ChatAssumption, Zenon DEF Wire, Channels, Hosts
<1> DEFINE took == Take(c, Server, i)
<1>2. /\ took \in Channels
      /\ \A r, e \in Hosts : took[r][e] =
           IF r = c /\ e = Server THEN Without(net[c][Server], i) ELSE net[r][e]
  <2>1. IsTake(took, c, Server, i)
    BY <1>1, TakeIs, Zenon
  <2> HIDE DEF took
  <2> QED  BY <2>1 DEF IsTake
<1>3. /\ net' \in Channels
      /\ \A r \in Hosts \ {Server} : net'[r] = took[r]
      /\ \A d \in Hosts : net'[Server][d] =
           IF Gone(d) THEN <<>> ELSE took[Server][d] \o Addressed(out, d)
  <2>1. net' = Post(took, Server, out)
    BY Zenon DEF Handles
  <2> HIDE DEF took
  <2>2. IsPost(Post(took, Server, out), took, Server, out)
    BY <1>1, <1>2, PostIs, Zenon
  <2> QED  BY <2>1, <2>2, Zenon DEF IsPost
<1> HIDE DEF took
<1>4. \A d \in Clients : net'[Server][d] =
        IF Gone(d) THEN <<>> ELSE net[Server][d] \o Addressed(out, d)
  <2>1. \A d \in Clients : took[Server][d] = net[Server][d]
    BY <1>1, <1>2, Zenon
  <2> QED  BY <1>1, <1>3, <2>1
<1>5. /\ net'[c][Server] = Without(net[c][Server], i)
      /\ \A d \in Clients \ {c} : net'[d][Server] = net[d][Server]
      /\ \A d, e \in Clients : net'[d][e] = net[d][e]
  <2>1. \A d \in Clients : d \in Hosts \ {Server}
    BY ChatAssumption DEF Hosts
  <2>2. \A d \in Clients : d # Server
    BY <2>1, Zenon
  <2> QED  BY <1>1, <1>2, <1>3, <2>1, <2>2
<1>6. Elems(net'[c][Server]) = {} /\ Len(net'[c][Server]) <= 1
  <2> DEFINE q == net[c][Server]
             w == Without(q, i)
  <2>1. q \in Seq(Mail) /\ Len(q) \in Nat /\ Len(q) <= 1
    BY <1>1 DEF Channels, Wire
  <2>2. w \in Seq(Mail) /\ Len(w) = Len(q) - 1
    BY <2>1, WithoutIs, Zenon
  <2>3. Len(w) = 0
    <3>1. Len(w) \in Nat
      BY <2>2
    <3> HIDE DEF w, q
    <3> QED  BY <2>1, <2>2, <3>1
  <2> HIDE DEF w
  <2>4. Elems(w) = {} /\ Len(w) <= 1
    BY <2>3 DEF Elems
  <2> QED  BY <1>5, <2>4 DEF w
<1>7. \A d : NameOf(d)' = NameOf(d)
  BY NamesKept
<1>8. ASSUME NEW d \in Clients
      PROVE  /\ Len(net'[d][Server]) <= 1
             /\ \A q \in Elems(net'[d][Server]) : IsRequest(q, d)'
  <2>1. CASE d = c
    BY <1>6, <2>1, Zenon
  <2>2. CASE d # c
    <3>1. net'[d][Server] = net[d][Server] /\ NameOf(d)' = NameOf(d)
      BY <1>5, <1>7, <2>2, Zenon
    <3>2. Len(net[d][Server]) <= 1 /\ \A q \in Elems(net[d][Server]) : IsRequest(q, d)
      BY Zenon DEF Wire
    <3> QED  BY <3>1, <3>2, Zenon DEF IsRequest
  <2> QED  BY <2>1, <2>2
<1>9. ASSUME NEW d \in Clients
      PROVE  /\ Elems(net'[Server][d]) =
                  IF Gone(d) THEN {} ELSE Elems(net[Server][d]) \cup {m \in Elems(out) : m.peer = d}
             /\ Single(net'[Server][d])
  <2> DEFINE old == net[Server][d]
             new == Addressed(out, d)
  <2>1. old \in Seq(Mail) /\ Single(old)
    BY <1>1, Zenon DEF Channels, Wire
  <2>2. new \in Seq(Mail) /\ Elems(new) = {m \in Elems(out) : m.peer = d} /\ Single(new)
    <3>1. \A k \in 2..Len(out) : out[k].type # "Login"
      BY DEF IsAnswer
    <3> QED  BY <3>1, AddressedElems
  <2>3. (\A m \in Elems(new) : m.type # "Login") \/ (\A m \in Elems(old) : m.type # "Login")
    <3>1. CASE d = c
      BY <2>2, <3>1, Zenon DEF IsAnswer
    <3>2. CASE d # c
      BY <2>2, <3>2, Zenon DEF IsAnswer
    <3> QED  BY <3>1, <3>2, Zenon
  <2>4. net'[Server][d] = IF Gone(d) THEN <<>> ELSE old \o new
    BY <1>4, Zenon
  <2> HIDE DEF old, new
  <2>5. Elems(old \o new) = Elems(old) \cup Elems(new) /\ Single(old \o new)
    BY <2>1, <2>2, <2>3, ConcatElems
  <2>6. Elems(<<>>) = {} /\ Single(<<>>)
    BY DEF Elems, Single
  <2>7. Elems(net'[Server][d]) = IF Gone(d) THEN {} ELSE Elems(old) \cup Elems(new)
    BY <2>4, <2>5, <2>6, Zenon
  <2>8. Single(net'[Server][d])
    BY <2>4, <2>5, <2>6, Zenon
  <2> QED  BY <2>2, <2>7, <2>8, Zenon DEF old
<1>10. ASSUME NEW d \in Clients
      PROVE  \A m \in Elems(net'[Server][d]) : IsReport(m)
  <2>1. Elems(net'[Server][d]) \subseteq Elems(net[Server][d]) \cup Elems(out)
    BY <1>9, Zenon
  <2> QED  BY <2>1 DEF Wire, IsAnswer
<1>11. \A d, e \in Clients : \A q \in Elems(net'[d][e]) : IsBackSyn(q)
  BY <1>5, Zenon DEF Wire
<1>12. Wire'
  BY <1>3, <1>8, <1>9, <1>10, <1>11, Zenon DEF Wire, Channels, Hosts, IsReport, IsBackSyn
<1>13. /\ \A type : ToServer(type) = {d \in Clients : Asked(net, d, type)}
       /\ \A reply : Replied(reply) = {d \in Clients : Answered(net, d, reply)}
  BY <1>1, Mapped, Zenon
<1>14. /\ \A type : ToServer(type)' = {d \in Clients : Asked(net', d, type)}
       /\ \A reply : Replied(reply)' = {d \in Clients : Answered(net', d, reply)}
  BY <1>3, MappedNext
<1>15. ASSUME NEW type
       PROVE  ToServer(type)' = ToServer(type) \ {c}
  <2>1. ~Asked(net', c, type)
    BY <1>6, Zenon DEF Asked
  <2>2. \A d \in Clients \ {c} : Asked(net', d, type) <=> Asked(net, d, type)
    BY <1>5 DEF Asked
  <2> QED  BY <1>13, <1>14, <2>1, <2>2
<1>16. ASSUME NEW reply
       PROVE  RepliesWith(reply, out)
  <2>1. ASSUME NEW d \in Clients
        PROVE  Answered(net', d, reply) <=>
                 ~Gone(d) /\ (Answered(net, d, reply) \/
                   \E m \in Elems(out) : m.peer = d /\ m.type = "Login" /\ m.name = reply)
    BY <1>9, Zenon DEF Answered
  <2>2. Replied(reply)' = {d \in Clients : Answered(net', d, reply)}
    BY <1>14
  <2>3. Replied(reply) = {d \in Clients : Answered(net, d, reply)}
    BY <1>13, Zenon
  <2> QED  BY <2>1, <2>2, <2>3 DEF RepliesWith
<1>17. Sent(out)
  BY <1>4 DEF Sent
<1> QED  BY <1>12, <1>15, <1>16, <1>17

\* The reply to a Login of c: only c's set changes.
Carries(out, reply) == \E m \in Elems(out) : m.type = "Login" /\ m.name = reply
LoginsTo(out, c) == \A m \in Elems(out) : m.type = "Login" => m.peer = c

LEMMA RepliesKept ==
  ASSUME Register, NEW out, NEW reply \in {"server", "error"}, RepliesWith(reply, out), ~Carries(out, reply)
  PROVE  Replied(reply)' = Replied(reply)
<1>1. \A d \in Clients : d \in Replied(reply) => ~Gone(d)
  BY RegisterSays, Zenon DEF Gone
<1>2. Replied(reply) \subseteq Clients
  BY DEF Replied
<1> QED  BY <1>1, <1>2 DEF RepliesWith, Carries

LEMMA RepliesGrow ==
  ASSUME Register, NEW c \in Clients, NEW out, NEW reply \in {"server", "error"}, RepliesWith(reply, out),
         LoginsTo(out, c), Carries(out, reply), phase[c] = "asked"
  PROVE  Replied(reply)' = Replied(reply) \cup {c}
<1>1. \A d \in Clients : d \in Replied(reply) => ~Gone(d)
  BY RegisterSays, Zenon DEF Gone
<1>2. Replied(reply) \subseteq Clients
  BY DEF Replied
<1>3. ~Gone(c)
  BY DEF Gone
<1>4. \E m \in Elems(out) : m.peer = c /\ m.type = "Login" /\ m.name = reply
  BY DEF Carries, LoginsTo
<1>5. \A d \in Clients \ {c} : ~\E m \in Elems(out) : m.peer = d /\ m.type = "Login" /\ m.name = reply
  BY DEF LoginsTo
<1> QED  BY <1>1, <1>2, <1>3, <1>4, <1>5 DEF RepliesWith

LEMMA OneElem ==
  ASSUME NEW out \in Seq(Mail), Len(out) = 1
  PROVE  Elems(out) = {out[1]} /\ 2..Len(out) = {}
  BY DEF Elems

\* What the server sends when it refuses the login of c, grants it with name n,
\* and handles the Logout of c, to c and to those with an entry.
Refusing(out, c) == \A m \in Elems(out) : m.type = "Login" /\ m.peer = c
Granting(out, c, n, entries) ==
  /\ Len(out) >= 1 /\ out[1].type = "Login" /\ out[1].peer = c
  /\ \A k \in 2..Len(out) : IsUpdateOf(out[k], n) /\ \E e \in entries : out[k].peer = e.addr
  /\ \E k \in 2..Len(out) : out[k].peer = c
Removing(out, c, n, entries) ==
  \A m \in Elems(out) :
    /\ m.type = "Logout" /\ m.name = n
    /\ m.peer = c \/ \E e \in entries : m.peer = e.addr

\* The server handles a request.
LEMMA ServerStep ==
  ASSUME Inv, NEW c \in Clients, NEW i \in 1..Len(net[c][Server]), ServerReceive(c, i)
  PROVE  /\ Lists' /\ Wire'
         /\ \E out : Sent(out) /\
              \/ Registered!Grant(c) /\ Granting(out, c, NameOf(c), Listed')
              \/ Registered!Refuse(c) /\ Refusing(out, c)
              \/ Registered!Remove(c) /\ Removing(out, c, NameOf(c), Listed')
<1>1. Lists /\ Wire /\ Register /\ users' = users /\ phase' = phase
  BY DEF Inv, ServerReceive
<1>2. net \in Channels /\ c \in Hosts /\ Server \in Hosts
  BY <1>1 DEF Wire, Channels, Hosts
<1>3. PICK m : m = Received(c, Server, i)
  BY Zenon
<1>4. /\ m \in Mail /\ m.peer = c /\ m.type \in {"Login", "Logout"}
      /\ m.name = NameOf(c) /\ m.name \in Names /\ c \in ToServer(m.type)
  <2> DEFINE sent == net[c][Server][i]
  <2>1. /\ sent \in Elems(net[c][Server]) /\ m \in Mail /\ m.peer = c
        /\ m.type = sent.type /\ m.name = sent.name
    BY <1>2, <1>3, ReceivedIs, ZenonT(40)
  <2>2. IsRequest(sent, c)
    BY <1>1, <2>1, Zenon DEF Wire
  <2>3. Asked(net, c, m.type)
    BY <2>1 DEF Asked
  <2>4. c \in ToServer(m.type)
    BY <1>2, <2>3, Mapped, Zenon
  <2> QED  BY <2>1, <2>2, <2>4, Zenon DEF IsRequest
<1>5. NamesOf[c] = m.name /\ NamesOf' = NamesOf
  BY <1>1, <1>4, NamesKept, Zenon DEF NamesOf
<1>6. ServerList(serverUsers) /\ Listed = Entries(serverUsers) /\ Listed' = Entries(serverUsers')
  BY <1>1, ListedIs, Zenon DEF Lists
<1>7. hatchIsUserInList(serverUsers, m.name) <=> Registered!Taken(NamesOf[c])
  BY <1>4, <1>5, <1>6, InListIsTaken DEF Registered!Taken
<1>8. PICK r : r = ServerMsgProc(serverUsers, m)
  OBVIOUS
<1>9. serverUsers' = r.users /\ Handles(c, i, r.out)
  BY <1>3, <1>8, Zenon DEF ServerReceive, Handles
<1>10. ServerList(serverUsers') => Lists'
  <2>1. \A d : NameOf(d)' = NameOf(d)
    BY <1>1, NamesKept
  <2> QED  BY <1>1, <2>1 DEF Lists, ClientList, ServerList
<1>11. c \in ToServer("Login") =>
         /\ phase[c] = "asked" /\ c \notin ToServer("Logout")
         /\ \A q \in Elems(net[Server][c]) : q.type # "Login"
  <2> SUFFICES ASSUME c \in ToServer("Login")
               PROVE  /\ phase[c] = "asked" /\ c \notin ToServer("Logout")
                      /\ \A q \in Elems(net[Server][c]) : q.type # "Login"
    OBVIOUS
  <2>1. /\ phase[c] = "asked" /\ c \notin ToServer("Logout")
        /\ c \notin Replied("server") /\ c \notin Replied("error")
    BY <1>1, RegisterSays, Zenon
  <2>2. ~Answered(net, c, "server") /\ ~Answered(net, c, "error")
    BY <1>2, <2>1, Mapped, Zenon
  <2> QED  BY <1>1, <2>1, <2>2, Zenon DEF Answered, Wire, IsReport
<1>12. CASE m.type = "Login" /\ hatchIsUserInList(serverUsers, m.name)
  <2>1. /\ r.users = serverUsers /\ r.out \in Seq(Mail) /\ Len(r.out) = 1
        /\ r.out[1].type = "Login" /\ r.out[1].name = "error" /\ r.out[1].peer = c
    BY <1>4, <1>8, <1>12, ServerRefuses
  <2>2. PICK out \in Seq(Mail) : out = r.out
    BY <2>1
  <2>3. Elems(out) = {out[1]} /\ 2..Len(out) = {}
    BY <2>1, <2>2, OneElem, Zenon
  <2>4. out[1].type = "Login" /\ out[1].name = "error" /\ out[1].peer = c
    BY <2>1, <2>2, Zenon
  <2>5. IsAnswer(out, c)
    BY <1>4, <1>11, <1>12, <2>3, <2>4, Zenon DEF IsAnswer, IsReport
  <2>6. /\ Wire'
        /\ \A type : ToServer(type)' = ToServer(type) \ {c}
        /\ \A reply : RepliesWith(reply, out)
        /\ Sent(out)
    BY <1>1, <1>9, <2>2, <2>5, RequestHandled, Zenon
  <2>7. Replied("error")' = Replied("error") \cup {c}
    <3>1. phase[c] = "asked" /\ Register
      BY <1>1, <1>4, <1>11, <1>12, Zenon
    <3>2. LoginsTo(out, c) /\ Carries(out, "error")
      BY <2>3, <2>4 DEF LoginsTo, Carries
    <3>3. RepliesWith("error", out)
      BY <2>6
    <3> QED  BY <3>1, <3>2, <3>3, RepliesGrow, Zenon
  <2>8. Replied("server")' = Replied("server")
    <3>1. ~Carries(out, "server") /\ Register
      BY <1>1, <2>3, <2>4 DEF Carries
    <3>2. RepliesWith("server", out)
      BY <2>6
    <3> QED  BY <3>1, <3>2, RepliesKept
  <2>9. ToServer("Logout")' = ToServer("Logout") /\ ToServer("Login")' = ToServer("Login") \ {c}
    BY <1>4, <1>11, <1>12, <2>6, ZenonT(40)
  <2>10. Listed' = Listed /\ Lists'
    BY <1>6, <1>9, <1>10, <2>1
  <2>11. Registered!Refuse(c)
    BY <1>1, <1>4, <1>5, <1>7, <1>12, <2>7, <2>8, <2>9, <2>10, ZenonT(40) DEF Registered!Refuse
  <2>12. Refusing(out, c)
    BY <2>3, <2>4 DEF Refusing
  <2> QED  BY <2>6, <2>10, <2>11, <2>12, ZenonT(40)
<1>13. CASE m.type = "Login" /\ ~hatchIsUserInList(serverUsers, m.name)
  <2>1. /\ ServerList(r.users)
        /\ Entries(r.users) = Entries(serverUsers) \cup {[name |-> m.name, addr |-> c]}
        /\ r.out \in Seq(Mail) /\ Len(r.out) >= 1
        /\ r.out[1].type = "Login" /\ r.out[1].name = "server" /\ r.out[1].peer = c
        /\ \A k \in 2..Len(r.out) :
             /\ r.out[k].type = "Update" /\ r.out[k].name = m.name /\ r.out[k].user = c
             /\ \E e \in Entries(r.users) : r.out[k].peer = e.addr
        /\ \E k \in 2..Len(r.out) : r.out[k].peer = c
    <3>1. Grants(serverUsers, m, ServerMsgProc(serverUsers, m))
      BY <1>4, <1>6, <1>13, ServerGrants, Zenon
    <3> QED  BY <1>4, <1>8, <3>1, Zenon DEF Grants
  <2>2. PICK out \in Seq(Mail) : out = r.out
    BY <2>1, Zenon
  <2>3. /\ Len(out) >= 1 /\ out[1].type = "Login" /\ out[1].name = "server" /\ out[1].peer = c
        /\ \A k \in 2..Len(out) : out[k].type = "Update" /\ out[k].name = m.name /\ out[k].user = c
    BY <2>1, <2>2, Zenon
  <2>4. out[1] \in Elems(out) /\ \A q \in Elems(out) : q = out[1] \/
          (q.type = "Update" /\ q.name = m.name /\ q.user = c)
    <3>1. UpdatesAfter(out, m.name, c)
      BY <2>3, Zenon DEF UpdatesAfter
    <3>2. FirstOrUpdate(out, m.name, c)
      BY <2>3, <3>1, FirstAndUpdates, Zenon
    <3> QED  BY <3>2, Zenon DEF FirstOrUpdate
  <2>5. IsAnswer(out, c)
    <3>1. \A q \in Elems(out) : IsReport(q)
      BY <1>4, <2>3, <2>4, Zenon DEF IsReport
    <3>2. \A k \in 2..Len(out) : out[k].type # "Login"
      BY <2>3, Zenon
    <3>3. \A q \in Elems(out) : q.type = "Login" => q.peer = c
      BY <2>3, <2>4, Zenon
    <3> QED  BY <1>4, <1>11, <1>13, <3>1, <3>2, <3>3, Zenon DEF IsAnswer
  <2>6. /\ Wire'
        /\ \A type : ToServer(type)' = ToServer(type) \ {c}
        /\ \A reply : RepliesWith(reply, out)
        /\ Sent(out)
    BY <1>1, <1>9, <2>2, <2>5, RequestHandled
  <2>7. \A q \in Elems(out) : q.type = "Login" => q.peer = c /\ q.name = "server"
    BY <2>3, <2>4, Zenon
  <2>8. Replied("server")' = Replied("server") \cup {c}
    <3>1. phase[c] = "asked" /\ Register
      BY <1>1, <1>4, <1>11, <1>13, ZenonT(40)
    <3>2. LoginsTo(out, c) /\ Carries(out, "server")
      BY <2>3, <2>4, <2>7 DEF LoginsTo, Carries
    <3>3. RepliesWith("server", out)
      BY <2>6
    <3> QED  BY <3>1, <3>2, <3>3, RepliesGrow, Zenon
  <2>9. Replied("error")' = Replied("error")
    <3>1. ~Carries(out, "error") /\ Register
      BY <1>1, <2>7 DEF Carries
    <3>2. RepliesWith("error", out)
      BY <2>6
    <3> QED  BY <3>1, <3>2, RepliesKept
  <2>10. ToServer("Logout")' = ToServer("Logout") /\ ToServer("Login")' = ToServer("Login") \ {c}
    BY <1>4, <1>11, <1>13, <2>6, Zenon
  <2>11. Listed' = Listed \cup {Registered!Entry(c)} /\ Lists'
    BY <1>5, <1>6, <1>9, <1>10, <2>1, Zenon DEF Registered!Entry
  <2>12. Registered!Grant(c)
    BY <1>1, <1>4, <1>5, <1>7, <1>13, <2>8, <2>9, <2>10, <2>11, ZenonT(40) DEF Registered!Grant
  <2>13. Granting(out, c, NameOf(c), Listed')
    BY <1>4, <1>6, <1>9, <2>1, <2>2, Zenon DEF Granting, IsUpdateOf
  <2> QED  BY <2>6, <2>11, <2>12, <2>13
<1>14. CASE m.type = "Logout"
  <2>1. c \in ToServer("Logout") /\ c \notin ToServer("Login") /\ hatchIsUserInList(serverUsers, m.name)
    <3>1. c \in ToServer("Logout")
      BY <1>4, <1>14, Zenon
    <3>2. [name |-> NamesOf[c], addr |-> c] \in Listed
      BY <1>1, <3>1, RegisterSays, ZenonT(40)
    <3>3. c \notin ToServer("Login")
      BY <1>11, <3>1
    <3>4. [name |-> NamesOf[c], addr |-> c].name = NamesOf[c]
      BY Zenon
    <3> QED  BY <1>7, <3>1, <3>2, <3>3, <3>4, Zenon DEF Registered!Taken
  <2>2. /\ ServerList(r.users)
        /\ Entries(r.users) = {e \in Entries(serverUsers) : e.name # m.name}
        /\ r.out \in Seq(Mail)
        /\ \A k \in 1..Len(r.out) :
             /\ r.out[k].type = "Logout" /\ r.out[k].name = m.name
             /\ r.out[k].peer = c \/ \E e \in Entries(r.users) : r.out[k].peer = e.addr
    <3>1. Removes(serverUsers, m, ServerMsgProc(serverUsers, m))
      BY <1>4, <1>6, <1>14, <2>1, ServerRemoves, Zenon
    <3> QED  BY <1>4, <1>8, <3>1, Zenon DEF Removes
  <2>3. PICK out \in Seq(Mail) : out = r.out
    BY <2>2, Zenon
  <2>4. \A q \in Elems(out) : q.type = "Logout" /\ q.name = m.name
    BY <2>2, <2>3, Zenon DEF Elems
  <2>5. \A k \in 2..Len(out) : out[k].type # "Login"
    <3>1. \A k \in 2..Len(out) : k \in 1..Len(out)
      OBVIOUS
    <3> QED  BY <2>2, <2>3, <3>1
  <2>6. IsAnswer(out, c)
    BY <1>4, <2>4, <2>5, Zenon DEF IsAnswer, IsReport
  <2>7. /\ Wire'
        /\ \A type : ToServer(type)' = ToServer(type) \ {c}
        /\ \A reply : RepliesWith(reply, out)
        /\ Sent(out)
    BY <1>1, <1>9, <2>3, <2>6, RequestHandled
  <2>8. Replied("server")' = Replied("server") /\ Replied("error")' = Replied("error")
    <3>1. ~Carries(out, "server") /\ ~Carries(out, "error") /\ Register
      BY <1>1, <2>4, Zenon DEF Carries
    <3>2. RepliesWith("server", out) /\ RepliesWith("error", out)
      BY <2>7
    <3> QED  BY <3>1, <3>2, RepliesKept, Zenon
  <2>9. ToServer("Login")' = ToServer("Login") /\ ToServer("Logout")' = ToServer("Logout") \ {c}
    BY <2>1, <2>7, Zenon
  <2>10. Listed' = {e \in Listed : e.name # NamesOf[c]} /\ Lists'
    BY <1>5, <1>6, <1>9, <1>10, <2>2, Zenon
  <2>11. Registered!Remove(c)
    BY <1>1, <1>5, <2>1, <2>8, <2>9, <2>10, ZenonT(40) DEF Registered!Remove
  <2>12. Removing(out, c, NameOf(c), Listed')
    BY <1>4, <1>6, <1>9, <2>2, <2>3, ZenonT(40) DEF Removing, Elems
  <2> QED  BY <2>7, <2>10, <2>11, <2>12, Zenon
<1> QED  BY <1>4, <1>12, <1>13, <1>14

\* the client c takes the i-th message from s and sends out
Gets(s, c, i, out) == net' = Post(Take(s, c, i), c, out)

\* what the other clients have, and are sent by the server, stays the same
OnlyTakes(s, c, i) ==
  /\ \A d \in Clients \ {c} : users'[d] = users[d] /\ net'[Server][d] = net[Server][d]
  /\ net'[Server][c] = IF s = Server THEN Without(net[s][c], i) ELSE net[Server][c]

\* the message at place i, as it is received
IsAt(m, s, c, i) ==
  /\ m.type = net[s][c][i].type /\ m.name = net[s][c][i].name
  /\ IF s = Server THEN IsReport(m) ELSE IsBackSyn(m)

\* the phase and the own entry of c after it has handled m
Started(ph, m) == IF m.type = "Login" /\ m.name = "server" /\ ph = "asked" THEN "chat" ELSE ph
TurnsTo(c, m) ==
  /\ phase'[c] = Started(phase[c], m)
  /\ Own(users'[c]).name = Own(users[c]).name
  /\ StatusChange(Own(users[c]), m, Own(users'[c]))

\* what happens to the requests, the replies and what the server has sent
Moves(s, c, i) ==
  /\ \A type : ToServer(type)' = ToServer(type)
  /\ \A d \in Clients : net'[Server][d] =
       IF s = Server /\ d = c THEN Without(net[s][c], i) ELSE net[Server][d]
  /\ s # Server \/ net[s][c][i].type # "Login" =>
       \A reply : Replied(reply)' = Replied(reply)
  /\ s = Server /\ net[s][c][i].type = "Login" =>
       \A reply : Replied(reply)' = Replied(reply) \ {c}

LEMMA MessageHandled ==
  ASSUME Wire, NEW s \in Hosts, NEW c \in Clients, NEW i \in 1..Len(net[s][c]), NEW out \in Seq(Mail),
         \A m \in Elems(out) : IsBackSyn(m) /\ m.peer \in Clients,
         Gets(s, c, i, out), \A d \in Clients : NameOf(d)' = NameOf(d)
  PROVE  Wire' /\ Moves(s, c, i)
<1>1. net \in Channels /\ c \in Hosts /\ Server \in Hosts /\ Server # c /\ Clients \subseteq Hosts
  BY ChatAssumption, Zenon DEF Wire, Channels, Hosts
<1>2. \A d \in Clients : d # Server
  BY ChatAssumption, ZenonT(40)
<1> DEFINE took == Take(s, c, i)
           w == Without(net[s][c], i)
<1>3. /\ took \in Channels
      /\ \A r, e \in Hosts : took[r][e] = IF r = s /\ e = c THEN w ELSE net[r][e]
  <2>1. IsTake(took, s, c, i)
    BY <1>1, TakeIs, Zenon
  <2> HIDE DEF took
  <2> QED  BY <2>1 DEF IsTake
<1>4. /\ net' \in Channels
      /\ \A r \in Hosts \ {c} : net'[r] = took[r]
      /\ \A d \in Hosts : net'[c][d] =
           IF Gone(d) THEN <<>> ELSE took[c][d] \o Addressed(out, d)
  <2>1. net' = Post(took, c, out)
    BY Zenon DEF Gets
  <2> HIDE DEF took
  <2>2. IsPost(Post(took, c, out), took, c, out)
    BY <1>1, <1>3, PostIs, Zenon
  <2> QED  BY <2>1, <2>2, Zenon DEF IsPost
<1> HIDE DEF took
<1>5. net[s][c] \in Seq(Mail)
  BY <1>1 DEF Channels
<1>6. /\ Elems(w) \subseteq Elems(net[s][c])
      /\ Elems(net[s][c]) \subseteq Elems(w) \cup {net[s][c][i]}
      /\ Single(net[s][c]) => Single(w)
      /\ Single(net[s][c]) /\ net[s][c][i].type = "Login" => \A m \in Elems(w) : m.type # "Login"
  BY <1>5, WithoutElems, Zenon
<1> HIDE DEF w
<1>7. \A d \in Clients : net'[d][Server] = net[d][Server]
  <2>1. \A d \in Clients : took[d][Server] = net[d][Server]
    BY <1>1, <1>3, Zenon
  <2>2. Addressed(out, Server) = <<>>
    BY <1>2, AddressedNone, Zenon
  <2>3. ~Gone(Server)
    BY ChatAssumption DEF Gone
  <2>4. net[c][Server] \in Seq(Mail)
    BY <1>1, Zenon DEF Channels
  <2>5. net[c][Server] \o <<>> = net[c][Server]
    BY <2>4
  <2>6. net'[c][Server] = net[c][Server]
    BY <1>1, <1>4, <2>1, <2>2, <2>3, <2>5, Zenon
  <2>7. \A d \in Clients \ {c} : net'[d][Server] = net[d][Server]
    BY <1>1, <1>4, <2>1, Zenon
  <2> QED  BY <2>6, <2>7, Zenon
<1>8. \A d \in Clients : net'[Server][d] = IF s = Server /\ d = c THEN w ELSE net[Server][d]
  <2>1. net'[Server] = took[Server]
    BY <1>1, <1>4, Zenon
  <2>2. \A d \in Clients : took[Server][d] = IF s = Server /\ d = c THEN w ELSE net[Server][d]
    BY <1>1, <1>3, Zenon
  <2> QED  BY <2>1, <2>2, Zenon
<1>9. ASSUME NEW d \in Clients, NEW e \in Clients
      PROVE  \A m \in Elems(net'[d][e]) : IsBackSyn(m)
  <2>1. took[d][e] \in Seq(Mail) /\ Elems(took[d][e]) \subseteq Elems(net[d][e])
    BY <1>1, <1>3, <1>6, ZenonT(40) DEF Channels
  <2>2. CASE d # c
    <3>1. net'[d][e] = took[d][e]
      BY <1>1, <1>4, <2>2, Zenon
    <3> QED  BY <2>1, <3>1, Zenon DEF Wire
  <2>3. CASE d = c
    <3> DEFINE a == Addressed(out, e)
               t == took[d][e]
    <3>1. a \in Seq(Mail) /\ Elems(a) \subseteq Elems(out)
      BY AddressedFrom, Zenon
    <3>2. net'[d][e] = IF Gone(e) THEN <<>> ELSE t \o a
      BY <1>1, <1>4, <2>3, Zenon
    <3>3. Elems(<<>>) = {}
      BY DEF Elems
    <3> HIDE DEF a, t
    <3>4. \A m \in Elems(t \o a) : m \in Elems(t) \/ m \in Elems(a)
      <4>1. t \in Seq(Mail)
        BY <2>1, Zenon DEF t
      <4> QED  BY <3>1, <4>1, ConcatFrom, Zenon
    <3>5. Elems(net'[d][e]) \subseteq Elems(t) \cup Elems(a)
      BY <3>2, <3>3, <3>4, Zenon
    <3>6. Elems(net'[d][e]) \subseteq Elems(net[d][e]) \cup Elems(out)
      BY <2>1, <3>1, <3>5, Zenon DEF t
    <3> QED  BY <3>6, Zenon DEF Wire
  <2> QED  BY <2>2, <2>3
<1>10. Wire'
  <2>1. \A d \in Clients : /\ Len(net'[d][Server]) <= 1
                           /\ \A q \in Elems(net'[d][Server]) : IsRequest(q, d)'
    BY <1>7, Zenon DEF Wire, IsRequest
  <2>2. \A d \in Clients : /\ \A q \in Elems(net'[Server][d]) : IsReport(q)
                           /\ Single(net'[Server][d])
    <3> TAKE d \in Clients
    <3>1. (\A q \in Elems(net[Server][d]) : IsReport(q)) /\ Single(net[Server][d])
      BY Zenon DEF Wire
    <3>2. CASE s = Server /\ d = c
      BY <1>6, <1>8, <3>1, <3>2, Zenon
    <3>3. CASE ~(s = Server /\ d = c)
      BY <1>8, <3>1, <3>3, Zenon
    <3> QED  BY <3>2, <3>3, Zenon
  <2> QED  BY <1>4, <1>9, <2>1, <2>2, Zenon DEF Wire, Channels, Hosts, IsReport, IsBackSyn
<1>11. /\ \A type : ToServer(type) = {d \in Clients : Asked(net, d, type)}
      /\ \A reply : Replied(reply) = {d \in Clients : Answered(net, d, reply)}
  BY <1>1, Mapped
<1>12. /\ \A type : ToServer(type)' = {d \in Clients : Asked(net', d, type)}
       /\ \A reply : Replied(reply)' = {d \in Clients : Answered(net', d, reply)}
  BY <1>4, MappedNext, Zenon
<1>13. ASSUME NEW type
       PROVE  ToServer(type)' = ToServer(type)
  <2>1. \A d \in Clients : Asked(net', d, type) <=> Asked(net, d, type)
    BY <1>7, Zenon DEF Asked
  <2> QED  BY <1>11, <1>12, <2>1, Zenon
<1>14. ASSUME NEW reply, s # Server \/ net[s][c][i].type # "Login"
       PROVE  Replied(reply)' = Replied(reply)
  <2>1. \A d \in Clients : Answered(net', d, reply) <=> Answered(net, d, reply)
    <3> TAKE d \in Clients
    <3>1. CASE s = Server /\ d = c
      BY <1>6, <1>8, <1>14, <3>1, Zenon DEF Answered
    <3>2. CASE ~(s = Server /\ d = c)
      BY <1>8, <3>2, Zenon DEF Answered
    <3> QED  BY <3>1, <3>2, Zenon
  <2> QED  BY <1>11, <1>12, <2>1, Zenon
<1>15. ASSUME NEW reply, s = Server, net[s][c][i].type = "Login"
       PROVE  Replied(reply)' = Replied(reply) \ {c}
  <2>1. \A d \in Clients \ {c} : Answered(net', d, reply) <=> Answered(net, d, reply)
    BY <1>8, Zenon DEF Answered
  <2>2. Single(net[s][c])
    BY <1>15, Zenon DEF Wire
  <2>3. ~Answered(net', c, reply)
    BY <1>6, <1>8, <1>15, <2>2, Zenon DEF Answered
  <2> QED  BY <1>11, <1>12, <2>1, <2>3, Zenon
<1> QED  BY <1>8, <1>10, <1>13, <1>14, <1>15, Zenon DEF w, Moves

\* What a client may get.
LEMMA Delivered ==
  ASSUME Wire, NEW s \in Hosts, NEW c \in Clients, NEW i \in 1..Len(net[s][c])
  PROVE  LET m == Received(s, c, i)
         IN  /\ m \in Mail /\ m.type = net[s][c][i].type /\ m.name = net[s][c][i].name
             /\ net[s][c][i] \in Elems(net[s][c])
             /\ s = Server => IsReport(m)
             /\ s # Server => IsBackSyn(m)
<1>1. net \in Channels /\ c \in Hosts
  BY ZenonT(40) DEF Wire, Channels, Hosts
<1> DEFINE m == Received(s, c, i)
           sent == net[s][c][i]
<1>2. /\ sent \in Elems(net[s][c]) /\ m \in Mail
      /\ m.type = sent.type /\ m.name = sent.name /\ m.user = sent.user
  BY <1>1, ReceivedIs
<1>3. CASE s = Server
  <2>1. IsReport(sent)
    BY <1>2, <1>3 DEF Wire
  <2> QED  BY <1>2, <1>3, <2>1, ZenonT(40) DEF IsReport
<1>4. CASE s # Server
  <2>1. s \in Clients
    BY <1>4 DEF Hosts
  <2>2. IsBackSyn(sent)
    BY <1>2, <2>1, Zenon DEF Wire
  <2> QED  BY <1>2, <1>4, <2>2, Zenon DEF IsBackSyn
<1> QED  BY <1>2, <1>3, <1>4, Zenon

\* A client handles a message.
LEMMA ClientStep ==
  ASSUME Inv, NEW s \in Hosts, NEW c \in Clients, NEW i \in 1..Len(net[s][c]), ClientReceive(s, c, i)
  PROVE  /\ Lists' /\ Wire'
         /\ Registered!Start(c) \/ Registered!GiveUp(c) \/ UNCHANGED Registered!vars
         /\ OnlyTakes(s, c, i)
         /\ \E m : IsAt(m, s, c, i) /\ TurnsTo(c, m)
<1>1. Lists /\ Wire /\ Register /\ serverUsers' = serverUsers /\ Running(c)
  BY DEF Inv, ClientReceive
<1>2. phase \in [Clients -> {"off", "asked", "chat", "leaving", "gone"}]
  BY <1>1, RegisterSays, Zenon
<1>3. PICK m : m = Received(s, c, i)
  OBVIOUS
<1>4. /\ m \in Mail /\ m.type = net[s][c][i].type /\ m.name = net[s][c][i].name
      /\ net[s][c][i] \in Elems(net[s][c])
      /\ (s = Server => IsReport(m)) /\ (s # Server => IsBackSyn(m))
  BY <1>1, <1>3, Delivered, Zenon
<1>5. ClientList(users[c], c) /\ users[c][2].name = NameOf(c) /\ NameOf(c) \in Names
      /\ DOMAIN users = Clients
  BY <1>1, Zenon DEF Lists, NameOf, Own, Running
<1>6. PICK r : r = ClientMsgProc(users[c], m)
  OBVIOUS
<1>7. ClientResult(users[c], c, m, r) /\ StatusResult(users[c], m, r)
  BY <1>4, <1>5, <1>6, ClientHandled, ZenonT(40)
<1>8. /\ users' = [users EXCEPT ![c] = r.users] /\ Gets(s, c, i, r.out)
      /\ phase' = [phase EXCEPT ![c] = IF r.start /\ phase[c] = "asked" THEN "chat" ELSE phase[c]]
  BY <1>3, <1>6 DEF ClientReceive, Gets
<1>9. /\ users'[c] = r.users /\ DOMAIN users' = Clients
      /\ \A d \in Clients \ {c} : users'[d] = users[d]
  BY <1>5, <1>8, Zenon
<1>10. \A d \in Clients : NameOf(d)' = NameOf(d)
  BY <1>5, <1>7, <1>9, Zenon DEF NameOf, Own, ClientResult
<1>11. NamesOf' = NamesOf /\ Listed' = Listed
  BY <1>1, <1>10, ListedKept, ZenonT(40) DEF NamesOf
<1>12. PICK out \in Seq(Mail) : out = r.out /\ \A q \in Elems(out) : IsBackSyn(q) /\ q.peer \in Clients
  BY <1>7 DEF ClientResult
<1>13. Wire' /\ Moves(s, c, i)
  <2>1. Wire /\ Gets(s, c, i, out)
    BY <1>1, <1>8, <1>12, Zenon
  <2>2. \A q \in Elems(out) : IsBackSyn(q) /\ q.peer \in Clients
    BY <1>12, Zenon
  <2> QED  BY <1>10, <2>1, <2>2, MessageHandled, Zenon
<1>14. phase' \in [Clients -> {"off", "asked", "chat", "leaving", "gone"}]
       /\ \A d \in Clients : phase'[d] # "off" => phase[d] # "off"
  BY <1>1, <1>2, <1>8, Zenon DEF Running
<1>15. Lists'
  <2>1. \A d \in Clients : ClientList(users'[d], d)
    BY <1>1, <1>7, <1>9, Zenon DEF Lists, ClientResult
  <2>2. \A d \in Clients : phase'[d] # "off" => NameOf(d)' \in Names
    BY <1>1, <1>10, <1>14, Zenon DEF Lists
  <2> QED  BY <1>1, <1>9, <2>1, <2>2, Zenon DEF Lists, ClientList, ServerList
<1>16. r.start = (m.type = "Login" /\ m.name = "server")
  BY <1>7, Zenon DEF ClientResult
<1>17. OnlyTakes(s, c, i)
  BY <1>9, <1>13, Zenon DEF OnlyTakes, Moves
<1>18. IsAt(m, s, c, i)
  BY <1>4, Zenon DEF IsAt
<1>19. TurnsTo(c, m)
  <2>1. phase'[c] = IF r.start /\ phase[c] = "asked" THEN "chat" ELSE phase[c]
    BY <1>2, <1>8
  <2>2. Own(users'[c]).name = Own(users[c]).name
    BY <1>7, <1>9, Zenon DEF Own, ClientResult
  <2>3. StatusChange(Own(users[c]), m, Own(users'[c]))
    BY <1>7, <1>9, Zenon DEF Own, StatusResult
  <2> QED  BY <1>16, <2>1, <2>2, <2>3, Zenon DEF TurnsTo, Started
<1>20. CASE s = Server /\ m.type = "Login"
  <2>1. Answered(net, c, m.name) /\ m.name \in {"server", "error"}
    BY <1>4, <1>20, Zenon DEF Answered, IsReport
  <2>2. c \in Replied(m.name)
    <3>1. net \in Channels
      BY <1>1 DEF Wire, Channels
    <3> QED  BY <2>1, <3>1, Mapped, Zenon
  <2>3. phase[c] = "asked"
    BY <1>1, <2>1, <2>2, RegisterSays, Zenon
  <2>4. /\ Replied("server")' = Replied("server") \ {c} /\ Replied("error")' = Replied("error") \ {c}
        /\ ToServer("Login")' = ToServer("Login") /\ ToServer("Logout")' = ToServer("Logout")
    BY <1>4, <1>13, <1>20, Zenon DEF Moves
  <2>5. CASE m.name = "server"
    <3>1. Replied("error")' = Replied("error")
      BY <1>1, <2>2, <2>4, <2>5, RegisterSays, Zenon
    <3>2. phase' = [phase EXCEPT ![c] = "chat"]
      BY <1>8, <1>16, <1>20, <2>3, <2>5, Zenon
    <3> QED  BY <1>11, <1>13, <1>15, <1>17, <1>18, <1>19, <2>2, <2>4, <2>5, <3>1, <3>2, ZenonT(40) DEF Registered!Start
  <2>6. CASE m.name = "error"
    <3>1. Replied("server")' = Replied("server")
      BY <1>1, <2>2, <2>4, <2>6, RegisterSays, Zenon
    <3>2. phase' = phase
      BY <1>2, <1>8, <1>16, <2>6, Zenon
    <3> QED  BY <1>11, <1>13, <1>15, <1>17, <1>18, <1>19, <2>2, <2>4, <2>6, <3>1, <3>2, ZenonT(40) DEF Registered!GiveUp
  <2> QED  BY <2>1, <2>5, <2>6
<1>21. CASE ~(s = Server /\ m.type = "Login")
  <2>1. m.type # "Login"
    BY <1>4, <1>21, Zenon DEF IsBackSyn
  <2>2. phase' = phase
    BY <1>2, <1>8, <1>16, <2>1, Zenon
  <2>3. /\ Replied("server")' = Replied("server") /\ Replied("error")' = Replied("error")
        /\ ToServer("Login")' = ToServer("Login") /\ ToServer("Logout")' = ToServer("Logout")
    BY <1>4, <1>13, <2>1, Zenon DEF Moves
  <2>4. UNCHANGED Registered!vars
    BY <1>11, <2>2, <2>3, Zenon DEF Registered!vars
  <2> QED  BY <1>13, <1>15, <1>17, <1>18, <1>19, <2>4, Zenon
<1> QED  BY <1>20, <1>21, Zenon

-----------------------------------------------------------------------------
(* The invariant *)

\* Nobody has logged in, and nothing is on its way.
LEMMA InitInv == Init => Inv /\ Registered!Init
<1> SUFFICES ASSUME Init
             PROVE  Inv /\ Registered!Init
  OBVIOUS
<1>1. /\ serverUsers = ServerUsers(Server) /\ users = [c \in Clients |-> ClientUsers(Server, c)]
      /\ phase = [c \in Clients |-> "off"]
      /\ net = [s \in Hosts |-> [d \in Hosts |-> <<>>]]
  BY DEF Init
<1>2. net \in Channels /\ \A s, d \in Hosts : net[s][d] = <<>>
  <2>1. <<>> \in Seq(Mail)
    OBVIOUS
  <2> QED  BY <1>1, <2>1 DEF Channels
<1>3. Len(<<>>) = 0 /\ Elems(<<>>) = {} /\ Single(<<>>)
  BY DEF Elems, Single
<1>4. Wire
  <2>1. Len(<<>>) <= 1
    BY <1>3
  <2> QED  BY <1>2, <1>3, <2>1, Zenon DEF Wire, Channels, Hosts
<1>5. ServerList(serverUsers) /\ Len(serverUsers) = 1
  <2> DEFINE e == User("server", Server, "Online")
  <2>1. e \in Users /\ e.name = "server"
    BY DEF User, Users, Hosts, Statuses
  <2> HIDE DEF e
  <2>2. serverUsers = <<e>>
    BY <1>1 DEF ServerUsers, e
  <2>3. <<e>> \in Seq(Users) /\ Len(<<e>>) = 1 /\ <<e>>[1] = e
    BY <2>1
  <2> QED  BY <2>1, <2>2, <2>3 DEF ServerList
<1>6. ASSUME NEW c \in Clients
      PROVE  ClientList(users[c], c) /\ NameOf(c) = "client_init"
  <2> DEFINE e == User("server", Server, "Online")
             f == User("client_init", c, "Online")
  <2>1. e \in Users /\ e.name = "server" /\ f \in Users /\ f.name = "client_init" /\ f.addr = c
    BY DEF User, Users, Hosts, Statuses
  <2> HIDE DEF e, f
  <2>2. users[c] = <<e, f>>
    BY <1>1 DEF ClientUsers, e, f
  <2>3. <<e, f>> \in Seq(Users) /\ Len(<<e, f>>) = 2 /\ <<e, f>>[1] = e /\ <<e, f>>[2] = f
    BY <2>1
  <2> QED  BY <2>1, <2>2, <2>3 DEF ClientList, NameOf, Own
<1>7. Lists
  BY <1>1, <1>5, <1>6, Zenon DEF Lists
<1>8. /\ ToServer("Login") = {} /\ ToServer("Logout") = {}
      /\ Replied("server") = {} /\ Replied("error") = {}
  <2>1. \A c \in Clients : net[c][Server] = <<>> /\ net[Server][c] = <<>>
    BY <1>2, Zenon DEF Hosts
  <2>2. \A c \in Clients : \A type : ~Asked(net, c, type) /\ ~Answered(net, c, type)
    BY <1>3, <2>1, Zenon DEF Asked, Answered
  <2> QED  BY <1>2, <2>2, Mapped, Zenon
<1>9. Listed = {}
  BY <1>5 DEF Listed
<1>10. NamesOf = [c \in Clients |-> "client_init"]
  BY <1>6, Zenon DEF NamesOf
<1>11. Registered!Init
  BY <1>1, <1>8, <1>9, <1>10, Zenon DEF Registered!Init
<1>12. Register
  BY <1>11 DEF Register, Registered!Init, Registered!TypeOK, Registered!RegistryInvariant
<1> QED  BY <1>4, <1>7, <1>11, <1>12, Zenon DEF Inv

\* Every step keeps the invariant, and is one of the register's or none.
LEMMA NextInv == Inv /\ [Next]_vars => Inv' /\ [Registered!Next]_(Registered!vars)
<1> SUFFICES ASSUME Inv, [Next]_vars
             PROVE  Inv' /\ [Registered!Next]_(Registered!vars)
  OBVIOUS
<1>1. ASSUME Lists', Wire', [Registered!Next]_(Registered!vars)
      PROVE  Inv' /\ [Registered!Next]_(Registered!vars)
  BY <1>1, RegisterKept DEF Inv
<1>2. CASE UNCHANGED vars
  <2>1. users' = users /\ serverUsers' = serverUsers /\ net' = net /\ phase' = phase
    BY <1>2 DEF vars
  <2>2. NamesOf' = NamesOf /\ Listed' = Listed /\ \A c : NameOf(c)' = NameOf(c)
    BY <2>1, NamesKept, ListedKept, Zenon
  <2>3. /\ ToServer("Login")' = ToServer("Login") /\ ToServer("Logout")' = ToServer("Logout")
        /\ Replied("server")' = Replied("server") /\ Replied("error")' = Replied("error")
    BY <2>1, Zenon DEF ToServer, Replied
  <2>4. UNCHANGED Registered!vars
    BY <2>1, <2>2, <2>3 DEF Registered!vars
  <2>5. Lists' /\ Wire'
    <3>1. Lists'
      BY <2>1, <2>2, Zenon DEF Inv, Lists, ClientList, ServerList
    <3>2. \A c \in Clients : \A m \in Elems(net[c][Server]) : IsRequest(m, c)'
      BY <2>2 DEF Inv, Wire, IsRequest
    <3>3. Wire'
      BY <2>1, <3>2, Zenon DEF Inv, Wire, Hosts, IsReport, IsBackSyn
    <3> QED  BY <3>1, <3>3, Zenon
  <2> QED  BY <1>1, <2>4, <2>5, Zenon
<1>3. ASSUME NEW c \in Clients, NEW n \in Names, Login(c, n)
      PROVE  Inv' /\ [Registered!Next]_(Registered!vars)
  <2>1. Lists' /\ Wire' /\ Registered!Login(c, n)
    BY <1>3, LoginStep, Zenon
  <2> QED  BY <1>1, <2>1, Zenon DEF Registered!Next
<1>4. ASSUME NEW c \in Clients, Close(c)
      PROVE  Inv' /\ [Registered!Next]_(Registered!vars)
  <2>1. Lists' /\ Wire' /\ Registered!Close(c)
    BY <1>4, CloseStep, Zenon
  <2> QED  BY <1>1, <2>1 DEF Registered!Next
<1>5. ASSUME NEW c \in Clients, Exit(c)
      PROVE  Inv' /\ [Registered!Next]_(Registered!vars)
  <2>1. Lists' /\ Wire' /\ Registered!Exit(c)
    BY <1>5, ExitStep
  <2> QED  BY <1>1, <2>1, Zenon DEF Registered!Next
<1>6. \A s, d \in Hosts : DOMAIN net[s][d] = 1..Len(net[s][d])
  <2>1. \A s, d \in Hosts : net[s][d] \in Seq(Mail)
    BY Zenon DEF Inv, Wire
  <2> QED  BY <2>1
<1>7. ASSUME NEW c \in Clients, NEW s \in Hosts, NEW i \in DOMAIN net[s][c], ClientReceive(s, c, i)
      PROVE  Inv' /\ [Registered!Next]_(Registered!vars)
  <2>1. i \in 1..Len(net[s][c])
    BY <1>6, Zenon DEF Hosts
  <2>2. /\ Lists' /\ Wire'
        /\ Registered!Start(c) \/ Registered!GiveUp(c) \/ UNCHANGED Registered!vars
    BY <1>7, <2>1, ClientStep, Zenon
  <2> QED  BY <1>1, <2>2, Zenon DEF Registered!Next
<1>8. ASSUME NEW c \in Clients, NEW i \in DOMAIN net[c][Server], ServerReceive(c, i)
      PROVE  Inv' /\ [Registered!Next]_(Registered!vars)
  <2>1. i \in 1..Len(net[c][Server])
    BY <1>6 DEF Hosts
  <2>2. /\ Lists' /\ Wire'
        /\ Registered!Grant(c) \/ Registered!Refuse(c) \/ Registered!Remove(c)
    BY <1>8, <2>1, ServerStep, Zenon
  <2> QED  BY <1>1, <2>2, Zenon DEF Registered!Next
<1> QED  BY <1>2, <1>3, <1>4, <1>5, <1>7, <1>8, Zenon DEF Next, Client

-----------------------------------------------------------------------------
(* Channels that keep the order *)

\* More messages come in: none for a client that is off or whose Login is on its
\* way, and none under its own name that logs out.
LEMMA QueueGrows ==
  ASSUME NEW ph, NEW own, NEW asked \in BOOLEAN, NEW granted \in BOOLEAN, NEW queue \in Seq(Mail), NEW more \in Seq(Mail),
         Queued(ph, own, asked, granted, queue),
         ph = "off" \/ asked => more = <<>>,
         ph \in {"asked", "chat"} =>
           \A m \in Elems(more) : ~(m.type = "Logout" /\ m.name = own.name)
  PROVE  Queued(ph, own, asked, granted, queue \o more)
<1>1. /\ queue \o more \in Seq(Mail) /\ Len(queue \o more) = Len(queue) + Len(more)
      /\ \A i \in 1..Len(queue) : (queue \o more)[i] = queue[i]
      /\ Elems(queue \o more) = Elems(queue) \cup Elems(more)
  BY ConcatElems
<1>2. Len(queue) \in Nat /\ Len(more) \in Nat
  OBVIOUS
<1>3. ph = "off" \/ asked => queue \o more = <<>>
  BY DEF Queued
<1>4. granted => /\ Len(queue \o more) >= 2 /\ (queue \o more)[1].type = "Login"
                 /\ IsUpdateOf((queue \o more)[2], own.name)
  BY <1>1, <1>2 DEF Queued
<1>5. ph = "chat" =>
        \/ own.status = "Online"
        \/ /\ own.status = "Login" /\ Len(queue \o more) >= 1
           /\ IsUpdateOf((queue \o more)[1], own.name)
  BY <1>1, <1>2 DEF Queued
<1>6. ph \in {"asked", "chat"} =>
        \A m \in Elems(queue \o more) : ~(m.type = "Logout" /\ m.name = own.name)
  BY <1>1 DEF Queued
<1> QED  BY <1>3, <1>4, <1>5, <1>6, ZenonT(40) DEF Queued

\* The client whose login is granted gets the reply and then its own Update.
LEMMA QueueGranted ==
  ASSUME NEW own, NEW c, NEW out \in Seq(Mail), Len(out) >= 1,
         out[1].type = "Login", out[1].peer = c,
         \A k \in 2..Len(out) : IsUpdateOf(out[k], own.name),
         \E k \in 2..Len(out) : out[k].peer = c
  PROVE  Queued("asked", own, FALSE, TRUE, Addressed(out, c))
<1> DEFINE a == Addressed(out, c)
<1> HIDE DEF a
<1>1. a \in Seq(Mail) /\ Selects(a, Len(out), out, c)
  BY AddressedIs, Zenon DEF a
<1>2. Len(a) \in Nat /\ Len(out) \in Nat
  BY <1>1
<1>3. \A j \in 1..Len(a) : \E k \in 1..Len(out) : a[j] = out[k]
  BY <1>1, Zenon DEF Selects
<1>4. \A j \in 1..Len(a) : a[j].type = "Login" => j = 1
  BY <1>1, <1>2, Zenon DEF Selects, IsUpdateOf
<1>5. \A j \in 1..Len(a) : a[j].type = "Login" \/ IsUpdateOf(a[j], own.name)
  BY <1>2, <1>3
<1>6. PICK j \in 1..Len(a) : a[j] = out[1]
  BY <1>1, <1>2 DEF Selects
<1>7. a[1].type = "Login"
  BY <1>4, <1>6, Zenon
<1>8. PICK k \in 2..Len(out) : out[k].peer = c
  BY Zenon
<1>9. PICK j2 \in 1..Len(a) : a[j2] = out[k]
  BY <1>1, <1>2, <1>8 DEF Selects
<1>10. a[j2].type = "Update"
  BY <1>8, <1>9, Zenon DEF IsUpdateOf
<1>11. j2 # 1 /\ Len(a) >= 2
  <2>1. j2 # 1
    BY <1>7, <1>10, Zenon
  <2>2. ASSUME NEW n \in Nat, NEW j3 \in 1..n, j3 # 1
        PROVE  n >= 2
    BY <2>2
  <2> QED  BY <1>2, <1>9, <2>1, <2>2, Zenon
<1>12. IsUpdateOf(a[2], own.name)
  BY <1>2, <1>4, <1>5, <1>11
<1>13. \A m \in Elems(a) : m.type # "Logout"
  BY <1>5, Zenon DEF Elems, IsUpdateOf
<1>14. Queued("asked", own, FALSE, TRUE, a)
  BY <1>7, <1>11, <1>12, <1>13, Zenon DEF Queued
<1> QED  BY <1>14, Zenon DEF a

\* A client that leaves has no login any more.
LEMMA QueueLeft ==
  ASSUME NEW ph \in {"leaving", "gone"}, NEW own, NEW queue
  PROVE  Queued(ph, own, FALSE, FALSE, queue)
  BY Zenon DEF Queued

\* The first message of a client whose login is granted is the reply.
LEMMA QueueHead ==
  ASSUME NEW ph, NEW own, NEW asked \in BOOLEAN, NEW granted \in BOOLEAN,
         NEW queue, Len(queue) >= 1, Queued(ph, own, asked, granted, queue)
  PROVE  ~asked /\ (granted => queue[1].type = "Login")
  BY DEF Queued

\* A client takes the first message: the reply, then its own Update, then others.
LEMMA QueueTaken ==
  ASSUME NEW ph \in {"asked", "chat", "leaving"}, NEW own, NEW new,
         NEW asked \in BOOLEAN, NEW granted \in BOOLEAN,
         NEW queue \in Seq(Mail), Len(queue) >= 1, Queued(ph, own, asked, granted, queue),
         NEW m, m.type = queue[1].type, m.name = queue[1].name, IsReport(m),
         m.type = "Login" => ph = "asked", m.type = "Login" /\ m.name = "server" => granted,
         new.name = own.name, StatusChange(own, m, new)
  PROVE  Queued(Started(ph, m), new, FALSE, FALSE, Without(queue, 1))
<1> DEFINE rest == Without(queue, 1)
           ph2 == Started(ph, m)
<1>1. /\ rest \in Seq(Mail) /\ Len(rest) = Len(queue) - 1 /\ Len(queue) \in Nat
      /\ \A j \in 1..(Len(queue) - 1) : rest[j] = IF j < 1 THEN queue[j] ELSE queue[j + 1]
  <2>1. 1 \in 1..Len(queue) /\ Len(queue) \in Nat
    OBVIOUS
  <2> QED  BY <2>1, WithoutIs, Zenon
<1>2. Elems(rest) \subseteq Elems(queue)
  <2>1. 1 \in 1..Len(queue)
    BY <1>1
  <2> QED  BY <2>1, WithoutElems, Zenon
<1>3. queue[1] \in Elems(queue)
  BY <1>1 DEF Elems
<1> HIDE DEF rest
<1>4. ph2 \in {"asked", "chat"} =>
        \A q \in Elems(rest) : ~(q.type = "Logout" /\ q.name = new.name)
  BY <1>2, Zenon DEF Queued, Started
<1>5. ASSUME m.type = "Login" /\ m.name = "server"
      PROVE  Queued(ph2, new, FALSE, FALSE, rest)
  <2>1. Len(queue) >= 2 /\ IsUpdateOf(queue[2], own.name)
    BY <1>5, Zenon DEF Queued
  <2>2. Len(rest) >= 1 /\ rest[1] = queue[2]
    BY <1>1, <2>1
  <2>3. new.status = "Login"
    BY <1>5, Zenon DEF StatusChange
  <2>4. ph2 = "chat"
    BY <1>5, Zenon DEF Started
  <2> HIDE DEF ph2
  <2> QED  BY <1>4, <2>1, <2>2, <2>3, <2>4, Zenon DEF Queued
<1>6. ASSUME ~(m.type = "Login" /\ m.name = "server")
      PROVE  Queued(ph2, new, FALSE, FALSE, rest)
  <2>1. ph = "chat" => new.status = "Online"
    <3> SUFFICES ASSUME ph = "chat"
                 PROVE  new.status = "Online"
      BY Zenon
    <3>1. own.status = "Online" \/ (own.status = "Login" /\ IsUpdateOf(queue[1], own.name))
      BY Zenon DEF Queued
    <3>2. m.type # "Login" /\ ~(m.type = "Logout" /\ m.name = own.name)
      BY <1>3, Zenon DEF Queued
    <3>3. m.type = "Update" \/ m.type = "Logout"
      BY <3>2, Zenon DEF IsReport
    <3> QED  BY <3>1, <3>2, <3>3, Zenon DEF StatusChange, IsUpdateOf
  <2>2. ph2 = ph
    BY <1>6 DEF Started
  <2> HIDE DEF ph2
  <2> QED  BY <1>4, <2>1, <2>2, Zenon DEF Queued
<1> QED  BY <1>5, <1>6, Zenon DEF rest

\* A client to which nothing happens.
LEMMA OrderKept ==
  ASSUME NEW d \in Clients, InOrder(d),
         phase'[d] = phase[d], users'[d] = users[d], net'[Server][d] = net[Server][d],
         d \in ToServer("Login")' <=> d \in ToServer("Login"),
         d \in Replied("server")' <=> d \in Replied("server")
  PROVE  InOrder(d)'
<1>1. (d \in ToServer("Login")') = (d \in ToServer("Login"))
      /\ (d \in Replied("server")') = (d \in Replied("server"))
  OBVIOUS
<1> QED  BY <1>1, Zenon DEF InOrder

\* A client that has left.
LEMMA OrderLeft ==
  ASSUME NEW d \in Clients, phase'[d] \in {"leaving", "gone"},
         d \notin ToServer("Login")', d \notin Replied("server")'
  PROVE  InOrder(d)'
<1>1. (d \in ToServer("Login")') = FALSE /\ (d \in Replied("server")') = FALSE
  OBVIOUS
<1> QED  BY <1>1, QueueLeft, Zenon DEF InOrder

LEMMA LoginOrder ==
  ASSUME Inv, NEW c \in Clients, NEW n \in Names, Login(c, n), \A d \in Clients : InOrder(d)
  PROVE  \A d \in Clients : InOrder(d)'
<1>1. Lists' /\ Wire' /\ Registered!Login(c, n)
  BY LoginStep
<1>2. phase \in [Clients -> {"off", "asked", "chat", "leaving", "gone"}] /\ Wire /\ Register
      /\ DOMAIN users = Clients
  BY RegisterSays, Zenon DEF Inv, Lists
<1>3. /\ phase[c] = "off" /\ phase' = [phase EXCEPT ![c] = "asked"]
      /\ ToServer("Login")' = ToServer("Login") \cup {c}
      /\ Replied("server")' = Replied("server")
  BY <1>1, Zenon DEF Registered!Login
<1>4. \A d \in Clients : net'[Server][d] = net[Server][d]
  <2> DEFINE m == LoginRequest(Server, n)
  <2>1. m \in Mail /\ m.peer = Server
    BY DEF LoginRequest, Msg, Mail, Hosts
  <2>2. net' = Post(net, c, <<m>>)
    BY DEF Login
  <2> HIDE DEF m
  <2>3. net \in Channels /\ Server \in Hosts \ {c}
    BY <1>2, ChatAssumption, Zenon DEF Wire, Channels, Hosts
  <2>4. net'[Server] = net[Server]
    BY <2>1, <2>2, <2>3, Requested, Zenon
  <2> QED  BY <2>4, Zenon
<1>5. \A d \in Clients \ {c} : users'[d] = users[d]
  BY <1>2 DEF Login
<1>6. ASSUME NEW d \in Clients, d # c
      PROVE  InOrder(d)'
  BY <1>2, <1>3, <1>4, <1>5, <1>6, OrderKept, Zenon
<1>7. InOrder(c)'
  <2>1. net'[Server][c] = <<>>
    BY <1>3, <1>4, Zenon DEF InOrder, Queued
  <2>2. phase'[c] = "asked" /\ c \notin Replied("server")'
    BY <1>2, <1>3, RegisterSays, Zenon
  <2>3. Elems(<<>>) = {}
    BY DEF Elems
  <2> QED  BY <2>1, <2>2, <2>3, Zenon DEF InOrder, Queued
<1> QED  BY <1>6, <1>7

LEMMA CloseOrder ==
  ASSUME Inv, NEW c \in Clients, Close(c), \A d \in Clients : InOrder(d)
  PROVE  \A d \in Clients : InOrder(d)'
<1>1. Lists' /\ Wire' /\ Registered!Close(c)
  BY CloseStep
<1>2. phase \in [Clients -> {"off", "asked", "chat", "leaving", "gone"}] /\ Wire /\ Register
  BY RegisterSays, Zenon DEF Inv
<1>3. /\ phase[c] = "chat" /\ phase' = [phase EXCEPT ![c] = "leaving"]
      /\ ToServer("Login")' = ToServer("Login") /\ Replied("server")' = Replied("server")
  BY <1>1, Zenon DEF Registered!Close
<1>4. \A d \in Clients : net'[Server][d] = net[Server][d]
  <2>1. PICK n \in Names : n = NameOf(c)
    BY <1>3, Zenon DEF Inv, Lists
  <2> DEFINE m == LogoutRequest(Server, n)
  <2>2. m \in Mail /\ m.peer = Server
    BY Zenon DEF LogoutRequest, Msg, Mail, Hosts
  <2>3. net' = Post(net, c, <<m>>)
    BY <2>1 DEF Close, NameOf
  <2> HIDE DEF m
  <2>4. net \in Channels /\ Server \in Hosts \ {c}
    BY <1>2, ChatAssumption, Zenon DEF Wire, Channels, Hosts
  <2>5. net'[Server] = net[Server]
    BY <2>2, <2>3, <2>4, Requested, ZenonT(40)
  <2> QED  BY <2>5, Zenon
<1>5. users' = users
  BY DEF Close
<1>6. ASSUME NEW d \in Clients, d # c
      PROVE  InOrder(d)'
  BY <1>2, <1>3, <1>4, <1>5, <1>6, OrderKept, Zenon
<1>7. InOrder(c)'
  <2>1. phase'[c] = "leaving" /\ c \notin ToServer("Login")' /\ c \notin Replied("server")'
    BY <1>2, <1>3, RegisterSays, Zenon
  <2> QED  BY <2>1, OrderLeft
<1> QED  BY <1>6, <1>7

LEMMA ExitOrder ==
  ASSUME Inv, NEW c \in Clients, Exit(c), \A d \in Clients : InOrder(d)
  PROVE  \A d \in Clients : InOrder(d)'
<1>1. Lists' /\ Wire' /\ Registered!Exit(c)
  BY ExitStep
<1>2. phase \in [Clients -> {"off", "asked", "chat", "leaving", "gone"}] /\ Wire /\ Register
  BY RegisterSays, Zenon DEF Inv
<1>3. /\ phase[c] = "leaving" /\ phase' = [phase EXCEPT ![c] = "gone"]
      /\ ToServer("Login")' = ToServer("Login") /\ Replied("server")' = Replied("server")
  BY <1>1, Zenon DEF Registered!Exit
<1>4. \A d \in Clients \ {c} : net'[Server][d] = net[Server][d]
  BY <1>2, Zenon DEF Exit, Wire, Hosts
<1>5. users' = users
  BY Zenon DEF Exit
<1>6. ASSUME NEW d \in Clients, d # c
      PROVE  InOrder(d)'
  BY <1>2, <1>3, <1>4, <1>5, <1>6, OrderKept, Zenon
<1>7. InOrder(c)'
  <2>1. phase'[c] = "gone" /\ c \notin ToServer("Login")' /\ c \notin Replied("server")'
    BY <1>2, <1>3, RegisterSays, Zenon
  <2> QED  BY <2>1, OrderLeft, Zenon
<1> QED  BY <1>6, <1>7

LEMMA TruthValue ==
  ASSUME NEW e, NEW S
  PROVE  \E b \in BOOLEAN : b = (e \in S)
<1>1. CASE e \in S
  <2>1. TRUE \in BOOLEAN /\ TRUE = (e \in S)
    BY <1>1, Zenon
  <2> QED  BY <2>1, Zenon
<1>2. CASE e \notin S
  <2>1. FALSE \in BOOLEAN /\ FALSE = (e \in S)
    BY <1>2
  <2> QED  BY <2>1, Zenon
<1> QED  BY <1>1, <1>2, Zenon

\* A client to which the server sends, and that has not asked for it.
LEMMA OrderSent ==
  ASSUME Inv, NEW d \in Clients, InOrder(d), NEW out, Sent(out),
         phase'[d] = phase[d], users'[d] = users[d],
         d \in ToServer("Login")' <=> d \in ToServer("Login"),
         d \in Replied("server")' <=> d \in Replied("server"),
         phase[d] = "off" \/ d \in ToServer("Login") => \A m \in Elems(out) : m.peer # d,
         \A m \in Elems(out) : m.peer = d /\ m.type = "Logout" => m.name # NameOf(d)
  PROVE  InOrder(d)'
<1>1. PICK asked \in BOOLEAN :
        asked = (d \in ToServer("Login")) /\ asked = (d \in ToServer("Login")')
  BY TruthValue
<1>2. PICK granted \in BOOLEAN :
        granted = (d \in Replied("server")) /\ granted = (d \in Replied("server")')
  BY TruthValue
<1>3. out \in Seq(Mail) /\ net[Server][d] \in Seq(Mail)
  BY Zenon DEF Sent, Inv, Wire, Hosts
<1>4. CASE Gone(d)
  <2>1. phase'[d] = "gone" /\ d \notin ToServer("Login")' /\ d \notin Replied("server")'
    BY <1>4, RegisterSays, Zenon DEF Gone, Inv
  <2> QED  BY <2>1, OrderLeft, Zenon
<1>5. CASE ~Gone(d)
  <2> DEFINE more == Addressed(out, d)
  <2>1. more \in Seq(Mail) /\ \A m \in Elems(more) : m \in Elems(out) /\ m.peer = d
    BY <1>3, AddressedFrom, Zenon
  <2>2. phase[d] = "off" \/ d \in ToServer("Login") => more = <<>>
    BY <1>3, AddressedNone, Zenon
  <2>3. net'[Server][d] = net[Server][d] \o more
    BY <1>5, Zenon DEF Sent
  <2> HIDE DEF more
  <2>4. \A m \in Elems(more) : ~(m.type = "Logout" /\ m.name = Own(users[d]).name)
    BY <2>1, Zenon DEF NameOf
  <2>5. Queued(phase[d], Own(users[d]), asked, granted, net[Server][d])
    BY <1>1, <1>2, Zenon DEF InOrder
  <2>6. phase[d] = "off" \/ asked => more = <<>>
    BY <1>1, <2>2, Zenon
  <2>7. Queued(phase[d], Own(users[d]), asked, granted, net[Server][d] \o more)
    BY <1>3, <2>1, <2>4, <2>5, <2>6, QueueGrows, ZenonT(40)
  <2> QED  BY <1>1, <1>2, <2>3, <2>7, Zenon DEF InOrder
<1> QED  BY <1>4, <1>5, ZenonT(40)

LEMMA ServerOrder ==
  ASSUME Inv, NEW c \in Clients, NEW i \in 1..Len(net[c][Server]), ServerReceive(c, i),
         \A d \in Clients : InOrder(d)
  PROVE  \A d \in Clients : InOrder(d)'
<1>1. PICK out : Sent(out) /\
        \/ Registered!Grant(c) /\ Granting(out, c, NameOf(c), Listed')
        \/ Registered!Refuse(c) /\ Refusing(out, c)
        \/ Registered!Remove(c) /\ Removing(out, c, NameOf(c), Listed')
  BY ServerStep, Zenon
<1>2. Register /\ users' = users /\ phase' = phase
  BY DEF Inv, ServerReceive
<1>3. out \in Seq(Mail)
  BY <1>1, Zenon DEF Sent
<1>4. \A d \in Clients : NamesOf[d] = NameOf(d)
  BY Zenon DEF NamesOf
<1>5. \A e \in Listed : /\ e.addr \in Clients /\ e.name = NameOf(e.addr)
                        /\ phase[e.addr] # "off" /\ e.addr \notin ToServer("Login")
  BY <1>2, <1>4, ListedSays, Zenon
<1>6. c \in ToServer("Login") =>
        /\ phase[c] = "asked" /\ c \notin Replied("server")
        /\ net[Server][c] = <<>>
  BY <1>2, RegisterSays, Zenon DEF InOrder, Queued
<1>7. ASSUME Registered!Grant(c), Granting(out, c, NameOf(c), Listed'), NEW d \in Clients
      PROVE  InOrder(d)'
  <2>1. /\ c \in ToServer("Login") /\ ToServer("Login")' = ToServer("Login") \ {c}
        /\ Replied("server")' = Replied("server") \cup {c}
        /\ Listed' = Listed \cup {Registered!Entry(c)} /\ Registered!Entry(c).addr = c
    BY <1>7 DEF Registered!Grant, Registered!Entry
  <2>2. CASE d = c
    <3>1. Queued("asked", Own(users[c]), FALSE, TRUE, Addressed(out, c))
      <4>1. /\ Len(out) >= 1 /\ out[1].type = "Login" /\ out[1].peer = c
            /\ \A k \in 2..Len(out) : IsUpdateOf(out[k], Own(users[c]).name)
            /\ \E k \in 2..Len(out) : out[k].peer = c
        BY <1>7, Zenon DEF Granting, NameOf
      <4> QED  BY <1>3, <4>1, QueueGranted, Zenon
    <3>2. Addressed(out, c) \in Seq(Mail)
      BY <1>3, AddressedIs, Zenon
    <3>3. net'[Server][c] = Addressed(out, c)
      <4>1. net'[Server][c] = <<>> \o Addressed(out, c)
        BY <1>1, <1>6, <2>1, ZenonT(40) DEF Sent, Gone
      <4> QED  BY <3>2, <4>1
    <3>4. (c \in ToServer("Login")') = FALSE /\ (c \in Replied("server")') = TRUE
      BY <2>1
    <3> QED  BY <1>2, <1>6, <2>1, <2>2, <3>1, <3>3, <3>4, ZenonT(40) DEF InOrder
  <2>3. CASE d # c
    <3>1. \A k \in 1..Len(out) : k = 1 \/ k \in 2..Len(out)
      BY <1>3
    <3>2. \A k \in 1..Len(out) : /\ out[k].type # "Logout"
                                 /\ out[k].peer = d => \E e \in Listed : e.addr = d
      <4>1. out[1].type = "Login" /\ out[1].peer = c
        BY <1>7, Zenon DEF Granting
      <4>2. \A k \in 2..Len(out) : out[k].type = "Update" /\ \E e \in Listed' : out[k].peer = e.addr
        BY <1>7, Zenon DEF Granting, IsUpdateOf
      <4>3. \A e \in Listed' : e \in Listed \/ e.addr = c
        BY <2>1, Zenon
      <4>4. ASSUME NEW k \in 2..Len(out), out[k].peer = d
            PROVE  \E e \in Listed : e.addr = d
        <5>1. PICK e \in Listed' : out[k].peer = e.addr
          BY <4>2, Zenon
        <5>2. e.addr = d
          BY <4>4, <5>1, Zenon
        <5>3. e \in Listed
          BY <2>3, <4>3, <5>2, Zenon
        <5> QED  BY <5>2, <5>3, Zenon
      <4>5. \A k \in 2..Len(out) : out[k].type # "Logout"
        BY <4>2, Zenon
      <4>6. out[1].type # "Logout" /\ out[1].peer # d
        BY <2>3, <4>1, Zenon
      <4> QED  BY <3>1, <4>4, <4>5, <4>6, Zenon
    <3>3. \A m \in Elems(out) : /\ m.type # "Logout"
                                /\ m.peer = d => \E e \in Listed : e.addr = d
      BY <3>2, Zenon DEF Elems
    <3>4. phase[d] = "off" \/ d \in ToServer("Login") => \A m \in Elems(out) : m.peer # d
      BY <1>5, <3>3, Zenon
    <3> QED  BY <1>1, <1>2, <2>1, <2>3, <3>3, <3>4, OrderSent, ZenonT(40)
  <2> QED  BY <2>2, <2>3, ZenonT(40)
<1>8. ASSUME Registered!Refuse(c), Refusing(out, c), NEW d \in Clients
      PROVE  InOrder(d)'
  <2>1. /\ c \in ToServer("Login") /\ ToServer("Login")' = ToServer("Login") \ {c}
        /\ Replied("server")' = Replied("server")
    BY <1>8 DEF Registered!Refuse
  <2>2. CASE d = c
    <3>1. /\ Addressed(out, c) \in Seq(Mail)
          /\ \A m \in Elems(Addressed(out, c)) : m.type = "Login"
      <4>1. /\ Addressed(out, c) \in Seq(Mail)
            /\ \A m \in Elems(Addressed(out, c)) : m \in Elems(out) /\ m.peer = c
        BY <1>3, AddressedFrom, Zenon
      <4> QED  BY <1>8, <4>1, Zenon DEF Refusing
    <3>2. net'[Server][c] = Addressed(out, c)
      <4>1. net'[Server][c] = <<>> \o Addressed(out, c)
        BY <1>1, <1>6, <2>1, Zenon DEF Sent, Gone
      <4> QED  BY <3>1, <4>1
    <3>3. (c \in ToServer("Login")') = FALSE /\ (c \in Replied("server")') = FALSE
      BY <1>6, <2>1
    <3> QED  BY <1>2, <1>6, <2>1, <2>2, <3>1, <3>2, <3>3, Zenon DEF InOrder, Queued
  <2>3. CASE d # c
    <3>1. \A m \in Elems(out) : m.type # "Logout" /\ m.peer # d
      BY <1>8, <2>3, Zenon DEF Refusing
    <3> QED  BY <1>1, <1>2, <2>1, <2>3, <3>1, OrderSent, Zenon
  <2> QED  BY <2>2, <2>3
<1>9. ASSUME Registered!Remove(c), Removing(out, c, NameOf(c), Listed'), NEW d \in Clients
      PROVE  InOrder(d)'
  <2>1. /\ c \in ToServer("Logout") /\ ToServer("Login")' = ToServer("Login")
        /\ Replied("server")' = Replied("server")
        /\ Listed' = {e \in Listed : e.name # NameOf(c)}
    BY <1>4, <1>9, Zenon DEF Registered!Remove
  <2>2. CASE d = c
    <3>1. /\ phase[c] \in {"leaving", "gone"} /\ c \notin ToServer("Login")
          /\ c \notin Replied("server")
      BY <1>2, <2>1, RegisterSays, Zenon
    <3> QED  BY <1>2, <2>1, <2>2, <3>1, OrderLeft, Zenon
  <2>3. CASE d # c
    <3>1. \A m \in Elems(out) : m.peer = d =>
            m.name = NameOf(c) /\ \E e \in Listed : e.addr = d /\ e.name # NameOf(c)
      BY <1>9, <2>1, <2>3, Zenon DEF Removing
    <3>2. phase[d] = "off" \/ d \in ToServer("Login") => \A m \in Elems(out) : m.peer # d
      BY <1>5, <3>1, Zenon
    <3>3. \A m \in Elems(out) : m.peer = d /\ m.type = "Logout" => m.name # NameOf(d)
      BY <1>5, <3>1, Zenon
    <3> QED  BY <1>1, <1>2, <2>1, <3>2, <3>3, OrderSent, Zenon
  <2> QED  BY <2>2, <2>3
<1> QED  BY <1>1, <1>7, <1>8, <1>9, Zenon

LEMMA ClientOrder ==
  ASSUME Ordered, Inv, NEW s \in Hosts, NEW c \in Clients, NEW i \in 1..Len(net[s][c]),
         ClientReceive(s, c, i), \A d \in Clients : InOrder(d)
  PROVE  \A d \in Clients : InOrder(d)'
<1>1. /\ Registered!Start(c) \/ Registered!GiveUp(c) \/ UNCHANGED Registered!vars
      /\ OnlyTakes(s, c, i)
  BY ClientStep, Zenon
<1>2. PICK m : IsAt(m, s, c, i) /\ TurnsTo(c, m)
  BY ClientStep
<1>3. /\ Wire /\ Register /\ phase[c] \in {"asked", "chat", "leaving"} /\ i = 1
      /\ phase \in [Clients -> {"off", "asked", "chat", "leaving", "gone"}]
  BY RegisterSays, Zenon DEF Inv, ClientReceive, Running, Deliverable
<1>4. ToServer("Login")' = ToServer("Login")
  BY <1>1, Zenon DEF Registered!Start, Registered!GiveUp, Registered!vars
<1>5. \/ Replied("server")' = Replied("server") /\ phase' = phase
      \/ Replied("server")' = Replied("server") \ {c} /\ phase' = [phase EXCEPT ![c] = "chat"]
  BY <1>1 DEF Registered!Start, Registered!GiveUp, Registered!vars
<1>6. ASSUME NEW d \in Clients, d # c
      PROVE  InOrder(d)'
  BY <1>1, <1>3, <1>4, <1>5, <1>6, OrderKept, Zenon DEF OnlyTakes
<1>7. PICK asked \in BOOLEAN : asked = (c \in ToServer("Login"))
  BY TruthValue, Zenon
<1>8. PICK granted \in BOOLEAN : granted = (c \in Replied("server"))
  BY TruthValue, Zenon
<1>9. Queued(phase[c], Own(users[c]), asked, granted, net[Server][c])
  BY <1>7, <1>8, Zenon DEF InOrder
<1>10. ASSUME s # Server
       PROVE  InOrder(c)'
  <2>1. m.type = "BackSyn"
    BY <1>2, <1>10 DEF IsAt, IsBackSyn
  <2>2. phase'[c] = phase[c] /\ net'[Server][c] = net[Server][c]
    BY <1>1, <1>2, <1>10, <2>1, Zenon DEF TurnsTo, OnlyTakes, Started
  <2>3. /\ Own(users'[c]).name = Own(users[c]).name
        /\ Own(users'[c]).status = Own(users[c]).status
    BY <1>2, <2>1, Zenon DEF TurnsTo, StatusChange
  <2>4. c \in Replied("server")' <=> c \in Replied("server")
    <3>1. c \in Replied("server") => phase[c] = "asked"
      BY <1>3, RegisterSays, Zenon
    <3> QED  BY <1>3, <1>5, <2>2, <3>1, Zenon
  <2>5. (c \in ToServer("Login")') = asked /\ (c \in Replied("server")') = granted
    BY <1>4, <1>7, <1>8, <2>4
  <2>6. Queued(phase[c], Own(users'[c]), asked, granted, net[Server][c])
    BY <1>9, <2>3, Zenon DEF Queued
  <2> QED  BY <2>2, <2>5, <2>6, Zenon DEF InOrder
<1>11. ASSUME s = Server
       PROVE  InOrder(c)'
  <2> DEFINE queue == net[Server][c]
  <2>1. /\ queue \in Seq(Mail) /\ Len(queue) >= 1 /\ net \in Channels
        /\ net'[Server][c] = Without(queue, 1)
    <3>1. net \in Channels /\ Server \in Hosts /\ c \in Hosts
      BY <1>3, Zenon DEF Wire, Hosts, Channels
    <3>2. queue \in Seq(Mail)
      BY <3>1, Zenon DEF Channels
    <3>3. net'[Server][c] = Without(queue, 1)
      BY <1>1, <1>3, <1>11, Zenon DEF OnlyTakes
    <3>4. 1 \in 1..Len(queue)
      BY <1>3, <1>11, Zenon
    <3> HIDE DEF queue
    <3>5. Len(queue) >= 1
      BY <3>2, <3>4
    <3> QED  BY <3>1, <3>2, <3>3, <3>5, Zenon
  <2>2. m.type = queue[1].type /\ m.name = queue[1].name /\ IsReport(m)
    BY <1>2, <1>3, <1>11, Zenon DEF IsAt
  <2>3. m.type = "Login" => c \in Replied(m.name) /\ m.name \in {"server", "error"}
    <3>1. queue[1] \in Elems(queue)
      BY <2>1 DEF Elems
    <3>2. m.type = "Login" => Answered(net, c, m.name)
      BY <2>2, <3>1, Zenon DEF Answered
    <3> QED  BY <2>1, <2>2, <3>2, Mapped, Zenon DEF IsReport
  <2>4. m.type = "Login" => phase[c] = "asked" /\ (m.name = "error" => c \notin Replied("server"))
    BY <1>3, <2>3, RegisterSays, Zenon
  <2>5. m.type = "Login" /\ m.name = "server" => granted
    BY <1>8, <2>3, Zenon
  <2>6. Own(users'[c]).name = Own(users[c]).name /\ StatusChange(Own(users[c]), m, Own(users'[c]))
    BY <1>2, Zenon DEF TurnsTo
  <2>7. phase'[c] = Started(phase[c], m)
    BY <1>2, Zenon DEF TurnsTo
  <2> HIDE DEF queue
  <2>8. Queued(Started(phase[c], m), Own(users'[c]), FALSE, FALSE, Without(queue, 1))
    <3>1. PICK ph \in {"asked", "chat", "leaving"} : ph = phase[c]
      BY <1>3
    <3>2. PICK own : own = Own(users[c])
      OBVIOUS
    <3>3. PICK new : new = Own(users'[c])
      OBVIOUS
    <3>4. PICK q \in Seq(Mail) : q = queue
      BY <2>1
    <3>5. Queued(ph, own, asked, granted, q) /\ Len(q) >= 1
      BY <1>9, <2>1, <3>1, <3>2, <3>4, ZenonT(40) DEF queue
    <3>6. /\ m.type = q[1].type /\ m.name = q[1].name /\ IsReport(m)
          /\ (m.type = "Login" => ph = "asked")
      BY <2>2, <2>4, <3>1, <3>4, Zenon
    <3>7. new.name = own.name /\ StatusChange(own, m, new)
      BY <2>6, <3>2, <3>3, Zenon
    <3>8. Queued(Started(ph, m), new, FALSE, FALSE, Without(q, 1))
      BY <2>5, <3>5, <3>6, <3>7, QueueTaken, ZenonT(40)
    <3> QED  BY <3>1, <3>3, <3>4, <3>8, Zenon
  <2>9. ~asked /\ (granted => m.type = "Login")
    <3>1. Queued(phase[c], Own(users[c]), asked, granted, queue) /\ Len(queue) >= 1
      BY <1>9, <2>1, Zenon DEF queue
    <3>2. ~asked /\ (granted => queue[1].type = "Login")
      BY <3>1, QueueHead, ZenonT(40)
    <3> QED  BY <2>2, <3>2
  <2>10. c \notin Replied("server")'
    <3>1. CASE granted
      <4>1. m.type = "Login" /\ m.name = "server" /\ phase[c] = "asked"
        BY <1>8, <2>3, <2>4, <2>9, <3>1, Zenon
      <4>2. phase'[c] = "chat"
        BY <2>7, <4>1, Zenon DEF Started
      <4> QED  BY <1>5, <4>1, <4>2, Zenon
    <3>2. CASE ~granted
      BY <1>5, <1>8, <3>2, Zenon
    <3> QED  BY <3>1, <3>2, Zenon
  <2>11. (c \in ToServer("Login")') = FALSE /\ (c \in Replied("server")') = FALSE
    <3>1. c \notin ToServer("Login")
      BY <1>7, <2>9, Zenon
    <3>2. c \notin ToServer("Login")'
      BY <1>4, <3>1, Zenon
    <3> QED  BY <2>10, <3>2
  <2>12. Queued(phase'[c], Own(users'[c]), FALSE, FALSE, net'[Server][c])
    BY <2>1, <2>7, <2>8, Zenon
  <2> QED  BY <2>11, <2>12, Zenon DEF InOrder
<1> QED  BY <1>6, <1>10, <1>11, Zenon

\* Init and every step keep the order.
LEMMA OrderInit == Init => \A c \in Clients : InOrder(c)
<1> SUFFICES ASSUME Init, NEW c \in Clients
             PROVE  InOrder(c)
  OBVIOUS
<1>1. net[Server][c] = <<>> /\ phase[c] = "off"
  BY Zenon DEF Init, Hosts
<1>2. c \notin Replied("server")
  BY <1>1 DEF Replied
<1> QED  BY <1>1, <1>2, Zenon DEF InOrder, Queued

LEMMA OrderNext ==
  ASSUME Ordered, Inv, [Next]_vars, \A c \in Clients : InOrder(c)
  PROVE  \A c \in Clients : InOrder(c)'
<1>1. CASE UNCHANGED vars
  BY <1>1, OrderKept, Zenon DEF vars, ToServer, Replied
<1>2. ASSUME NEW c \in Clients, NEW n \in Names, Login(c, n)
      PROVE  \A d \in Clients : InOrder(d)'
  BY <1>2, LoginOrder, Zenon
<1>3. ASSUME NEW c \in Clients, Close(c)
      PROVE  \A d \in Clients : InOrder(d)'
  BY <1>3, CloseOrder, Zenon
<1>4. ASSUME NEW c \in Clients, Exit(c)
      PROVE  \A d \in Clients : InOrder(d)'
  BY <1>4, ExitOrder, Zenon
<1>5. \A s, d \in Hosts : DOMAIN net[s][d] = 1..Len(net[s][d])
  <2>1. \A s, d \in Hosts : net[s][d] \in Seq(Mail)
    BY Zenon DEF Inv, Wire
  <2> QED  BY <2>1
<1>6. ASSUME NEW c \in Clients, NEW s \in Hosts, NEW i \in DOMAIN net[s][c], ClientReceive(s, c, i)
      PROVE  \A d \in Clients : InOrder(d)'
  <2>1. i \in 1..Len(net[s][c])
    BY <1>5, Zenon DEF Hosts
  <2> QED  BY <1>6, <2>1, ClientOrder, Zenon
<1>7. ASSUME NEW c \in Clients, NEW i \in DOMAIN net[c][Server], ServerReceive(c, i)
      PROVE  \A d \in Clients : InOrder(d)'
  <2>1. i \in 1..Len(net[c][Server])
    BY <1>5 DEF Hosts
  <2> QED  BY <1>7, <2>1, ServerOrder, Zenon
<1> QED  BY <1>1, <1>2, <1>3, <1>4, <1>6, <1>7, Zenon DEF Next, Client
-----------------------------------------------------------------------------

\* The lists keep the server first and the client second, whatever is pushed,
\* popped and passed on (CHatchUserList).
THEOREM ListsKeepShape == Spec => []TypeOK
<1>1. Inv => TypeOK
  BY Zenon DEF Inv, Lists, ServerList, ClientList, Wire, Own, TypeOK, Register, Registered!TypeOK
<1> QED  BY InitInv, NextInv, <1>1, PTL DEF Spec

\* Entries, requests and replies match as the register says, in whatever order
\* messages arrive, and whether they do (hatchMsgLogin, hatchMsgLogout).
THEOREM RegisterIsConsistent == Spec => []Registered!RegistryInvariant
<1>1. Inv => Registered!RegistryInvariant
  BY Zenon DEF Inv, Register
<1> QED  BY InitInv, NextInv, <1>1, PTL DEF Spec

\* A client that chats stays in the server's list, although the server takes
\* out whoever has the name of a Logout (hatchMsgLogout).
THEOREM ChattingStaysListed == Spec => []ChattingIsListed
<1>1. ASSUME Inv, NEW c \in Chatting
      PROVE  \E i \in DOMAIN serverUsers : serverUsers[i].name = NameOf(c) /\ serverUsers[i].addr = c
  <2>1. c \in Clients /\ phase[c] = "chat" /\ Register /\ serverUsers \in Seq(Users)
    BY <1>1, Zenon DEF Chatting, Inv, Lists, ServerList
  <2>2. [name |-> NamesOf[c], addr |-> c] \in Listed /\ NamesOf[c] = NameOf(c)
    BY <2>1, RegisterSays DEF NamesOf
  <2>3. PICK i \in 2..Len(serverUsers) :
          [name |-> NamesOf[c], addr |-> c] = [name |-> serverUsers[i].name, addr |-> serverUsers[i].addr]
    BY <2>2, Zenon DEF Listed
  <2>4. i \in DOMAIN serverUsers
    BY <2>1
  <2>5. serverUsers[i].name = NamesOf[c] /\ serverUsers[i].addr = c
    BY <2>3, Zenon
  <2> QED  BY <2>2, <2>4, <2>5, Zenon
<1>2. Inv => ChattingIsListed
  BY <1>1, Zenon DEF ChattingIsListed
<1> QED  BY InitInv, NextInv, <1>2, PTL DEF Spec

\* Two users that chat never have the same name, although a name may be used
\* again as soon as its Logout is handled (hatchMsgLogin, hatchMsgLogout).
THEOREM NamesAreUnique == Spec => []UniqueNames
<1>1. ASSUME Inv, NEW c \in Chatting, NEW d \in Chatting, NameOf(c) = NameOf(d)
      PROVE  c = d
  <2> DEFINE e == [name |-> NamesOf[c], addr |-> c]
             f == [name |-> NamesOf[d], addr |-> d]
  <2>1. Register /\ c \in Clients /\ d \in Clients /\ phase[c] = "chat" /\ phase[d] = "chat"
    BY <1>1, Zenon DEF Chatting, Inv
  <2>2. e \in Listed /\ f \in Listed
    BY <2>1, RegisterSays, Zenon
  <2>3. e.name = f.name
    BY <1>1, <2>1, Zenon DEF NamesOf
  <2>4. e = f
    <3> HIDE DEF e, f
    <3> QED  BY <2>1, <2>2, <2>3, ListedSays, Zenon
  <2> QED  BY <2>4
<1>2. Inv => UniqueNames
  BY <1>1 DEF UniqueNames
<1> QED  BY InitInv, NextInv, <1>2, PTL DEF Spec

\* The server and its clients implement the register of names: each of their
\* steps is one of the register's or changes nothing of it.
THEOREM ChatImplementsRegistry == Spec => ImplementsRegistry
<1>1. Init => Registered!Init
  BY InitInv
<1>2. Inv /\ [Next]_vars => [Registered!Next]_(Registered!vars)
  BY NextInv
<1> QED  BY InitInv, NextInv, <1>1, <1>2, PTL DEF Spec, ImplementsRegistry, Registered!Spec

\* Where the network keeps the order, a client that chats is not thrown back to
\* User_NULL by an Update or a Logout (hatchMsgUpdate, hatchMsgLogout of the
\* client): its own Update is the first that reaches it after the reply.
THEOREM ChattingStaysLoggedIn ==
  ASSUME Ordered
  PROVE  Spec => []StaysLoggedIn
<1>1. Init => Ordering
  BY OrderInit, Zenon DEF Ordering
<1>2. Inv /\ Ordering /\ [Next]_vars => Ordering'
  BY OrderNext DEF Ordering
<1>3. Ordering => StaysLoggedIn
  BY Zenon DEF Ordering, InOrder, Queued, StaysLoggedIn, Chatting
<1> QED  BY InitInv, NextInv, <1>1, <1>2, <1>3, PTL DEF Spec
=============================================================================
