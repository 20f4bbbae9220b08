------------------------------ MODULE Registry ------------------------------
(***************************************************************************)
(* What the login protocol of hatchNet promises: the server as a register  *)
(* of names.  Of the messages only Login, its two replies and the Logout   *)
(* to the server count; each client sends at most one of each, so what is  *)
(* on its way is a set of clients.  A message may be delivered at any time *)
(* or, when it stays where it is, never.                                   *)
(***************************************************************************)
CONSTANTS Clients, Names, NoName

VARIABLES phase,     \* off, asked, chat, leaving or gone
          name,      \* the name a client has asked for
          listed,    \* the server's entries: [name, addr]
          logins,    \* clients whose Login is on its way
          granted,   \* clients whose reply "server" is on its way
          refused,   \* clients whose reply "error" is on its way
          logouts    \* clients whose Logout is on its way

vars == <<phase, name, listed, logins, granted, refused, logouts>>

Entry(c) == [name |-> name[c], addr |-> c]

Taken(n) == \E e \in listed : e.name = n

Init ==
  /\ phase = [c \in Clients |-> "off"]
  /\ name = [c \in Clients |-> NoName]
  /\ listed = {} /\ logins = {} /\ granted = {} /\ refused = {} /\ logouts = {}

Login(c, n) ==
  /\ phase[c] = "off"
  /\ phase' = [phase EXCEPT ![c] = "asked"]
  /\ name' = [name EXCEPT ![c] = n]
  /\ logins' = logins \cup {c}
  /\ UNCHANGED <<listed, granted, refused, logouts>>

Grant(c) ==
  /\ c \in logins /\ ~Taken(name[c])
  /\ logins' = logins \ {c}
  /\ listed' = listed \cup {Entry(c)}
  /\ granted' = granted \cup {c}
  /\ UNCHANGED <<phase, name, refused, logouts>>

Refuse(c) ==
  /\ c \in logins /\ Taken(name[c])
  /\ logins' = logins \ {c}
  /\ refused' = refused \cup {c}
  /\ UNCHANGED <<phase, name, listed, granted, logouts>>

Start(c) ==
  /\ c \in granted
  /\ granted' = granted \ {c}
  /\ phase' = [phase EXCEPT ![c] = "chat"]
  /\ UNCHANGED <<name, listed, logins, refused, logouts>>

GiveUp(c) ==
  /\ c \in refused
  /\ refused' = refused \ {c}
  /\ UNCHANGED <<phase, name, listed, logins, granted, logouts>>

Close(c) ==
  /\ phase[c] = "chat"
  /\ phase' = [phase EXCEPT ![c] = "leaving"]
  /\ logouts' = logouts \cup {c}
  /\ UNCHANGED <<name, listed, logins, granted, refused>>

Exit(c) ==
  /\ phase[c] = "leaving"
  /\ phase' = [phase EXCEPT ![c] = "gone"]
  /\ UNCHANGED <<name, listed, logins, granted, refused, logouts>>

\* whoever sends it, a Logout takes out the entry with its name
Remove(c) ==
  /\ c \in logouts
  /\ logouts' = logouts \ {c}
  /\ listed' = {e \in listed : e.name # name[c]}
  /\ UNCHANGED <<phase, name, logins, granted, refused>>

Next ==
  \E c \in Clients :
    \/ \E n \in Names : Login(c, n)
    \/ Grant(c) \/ Refuse(c) \/ Start(c) \/ GiveUp(c)
    \/ Close(c) \/ Exit(c) \/ Remove(c)

Spec == Init /\ [][Next]_vars

-----------------------------------------------------------------------------

TypeOK ==
  /\ phase \in [Clients -> {"off", "asked", "chat", "leaving", "gone"}]
  /\ name \in [Clients -> Names \cup {NoName}]
  /\ listed \subseteq [name : Names, addr : Clients]
  /\ logins \subseteq Clients /\ granted \subseteq Clients
  /\ refused \subseteq Clients /\ logouts \subseteq Clients

\* At most one message of a client's login or logout is on its way, its entry is
\* there from the grant to the handling of its Logout and not longer, it is its
\* own, and no two entries have the same name.
RegistryInvariant ==
  /\ \A e, f \in listed : e.name = f.name => e = f
  /\ \A e \in listed :
       /\ e = Entry(e.addr)
       /\ e.addr \notin logins /\ e.addr \notin refused
       /\ e.addr \in granted \/ phase[e.addr] = "chat" \/ e.addr \in logouts
  /\ \A c \in logins : phase[c] = "asked" /\ c \notin refused /\ name[c] \in Names
  /\ \A c \in granted : phase[c] = "asked" /\ Entry(c) \in listed
  /\ \A c \in refused : phase[c] = "asked"
  /\ \A c \in logouts : phase[c] \in {"leaving", "gone"} /\ Entry(c) \in listed
  /\ \A c \in Clients : phase[c] = "chat" => Entry(c) \in listed
=============================================================================
