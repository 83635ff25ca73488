------------------------------ MODULE E2EEKeys ------------------------------
(***************************************************************************)
(* End-to-end encrypted messages (e2ee/manager.go; client/chats.go:        *)
(* sendMessageWithMetadata, ResolveMessageText; client/client.go:          *)
(* SyncE2EESelfKey): accounts of one process exchange messages in one      *)
(* chat. Each owns device keys, whose public halves the server hands out,  *)
(* and in a group the text is sealed with a group key that one member      *)
(* generated and wrapped for every member's device key.                    *)
(*                                                                         *)
(* The server, the other members of the chat and an account's other        *)
(* devices are external. A key is its id: ids of device keys come from one *)
(* counter, the id of a group key is its place in groups. A request that   *)
(* fails and an answer that cannot be used (wrong type, no id, version 1)  *)
(* are one fault. The group key cache lasts five minutes and the           *)
(* negotiated key of a peer one minute: whether a cached key has expired   *)
(* when it is looked up is a choice.                                       *)
(***************************************************************************)
EXTENDS Naturals, Sequences, FiniteSets, FiniteSetsExt

CONSTANTS
    Accounts,   \* accounts of this process
    QRLogins,   \* those whose session comes from a QR login
    Workers,    \* goroutines that handle operations
    User,       \* a member of the group that runs another program
    NoKey,      \* no cached key
    MaxMsgs,    \* bound on the messages
    MaxEvents,  \* bound on joins, removals, keys of other programs, crashes,
                \* failed requests and failed saves
    MaxGroups,  \* bound on the group keys
    MaxKeys     \* bound on the device keys

ASSUME E2EEAssumption ==
    /\ QRLogins \subseteq Accounts /\ User \notin Accounts
    /\ IsFiniteSet(Accounts) /\ Cardinality(Accounts) >= 2
    /\ {MaxMsgs, MaxEvents, MaxGroups, MaxKeys} \subseteq Nat

VARIABLES
    chat,       \* "group" or "direct"
    sealed,     \* the server refuses plain text in the chat, with code 82
    members,    \* accounts in the chat
    latest,     \* the device key the server hands out for an account
    lastKey,    \* the last id given to a device key
    groups,     \* the group keys: who wrapped them, for whom
    msgs,       \* the messages the server accepted
    phase,      \* where an account is in its start
    session,    \* Manager.session: DeviceKeys and the keys of the QR login
    file,       \* the session file
    keys,       \* Manager.keys, {} when nil
    known,      \* Manager.group, or Manager.direct for the peer
    marked,     \* Client.encrypted holds the chat
    tasks,      \* what the goroutines do
    events,     \* how many of these there were
    orphans,    \* history: keys registered by a start that did not keep them
    foreign,    \* history: keys of an account's other devices
    replaced,   \* history: accounts with such a key since they were opened
    unsent      \* history: who could not encrypt although no request failed, and
                \* the key the server handed out for it

server  == <<chat, sealed, members, latest, lastKey, groups, msgs>>
client  == <<phase, session, file, keys, known, marked>>
history == <<orphans, foreign, replaced, unsent>>
vars    == <<server, client, tasks, events, history>>

-----------------------------------------------------------------------------
Phases == {"down", "register", "up"}

\* chain and meta are the keychain of a QR login and the keyId of its metadata,
\* 0 when the session was imported with device keys.
Session == [meta : Nat, chain : SUBSET Nat, device : SUBSET Nat]

\* What a holder of a group key knows: the id it goes by, and which key it is.
Key == [id : Nat, secret : Nat]

\* with is the device key the creator wrapped the key with, creatorKey the one
\* the server names to those who unwrap it; wrap[a] is the device key a's copy
\* was wrapped for, 0 when it got none.
Group == [creator : Accounts \cup {User}, with : Nat, creatorKey : Nat, wrap : [Accounts -> Nat]]

\* id is the receiver's key id. failed holds the members that could not read
\* the message, faulted those among them whose requests failed.
Message == [from : Accounts \cup {User}, plain : BOOLEAN, id : Nat, secret : Nat, senderKey : Nat,
            unread : SUBSET Accounts, failed : SUBSET Accounts, faulted : SUBSET Accounts]

PCs == {"idle", "plain", "open", "register", "post"}

\* msg is the message to read, 0 for one who sends.
Task == [pc : PCs, acct : Accounts \cup {User}, msg : Nat, got : Nat, wrap : [Accounts -> Nat],
         own : Nat, key : Key]

Idle == [pc |-> "idle", acct |-> User, msg |-> 0, got |-> 0, wrap |-> [a \in Accounts |-> 0],
         own |-> 0, key |-> [id |-> 0, secret |-> 0]]

TypeOK ==
    /\ chat \in {"group", "direct"} /\ sealed \in BOOLEAN
    /\ members \subseteq Accounts
    /\ latest \in [Accounts -> Nat] /\ lastKey \in Nat
    /\ groups \in Seq(Group) /\ msgs \in Seq(Message)
    /\ phase \in [Accounts -> Phases]
    /\ session \in [Accounts -> Session] /\ file \in [Accounts -> Session]
    /\ keys \in [Accounts -> SUBSET Nat]
    /\ known \in [Accounts -> Key \cup {NoKey}]
    /\ marked \subseteq Accounts
    /\ tasks \in [Workers -> Task]
    /\ events \in 0 .. MaxEvents
    /\ orphans \subseteq Nat /\ foreign \subseteq Nat
    /\ replaced \subseteq Accounts /\ unsent \subseteq Accounts \X Nat

-----------------------------------------------------------------------------
(* The keychain.                                                           *)

\* keychain: imported device keys hide the keys of the QR login.
Source(s) == IF s.device # {} THEN s.device ELSE s.chain

Keychain(a) == IF keys[a] # {} THEN keys[a] ELSE Source(session[a])

\* ownKey: the key with that id, or for id 0 the one the metadata names, or the
\* one with the largest id. {} when there is none.
OwnKey(a, id) ==
    LET wanted == IF id # 0 THEN id ELSE session[a].meta
    IN  IF wanted # 0 THEN Keychain(a) \cap {wanted}
        ELSE IF Keychain(a) = {} THEN {} ELSE {Max(Keychain(a))}

\* unwrapGroupKey: the account holds the key its copy was wrapped for, and the
\* creator's key is the one the server names.
CanOpen(a, g) ==
    /\ groups[g].wrap[a] # 0
    /\ OwnKey(a, groups[g].wrap[a]) # {}
    /\ groups[g].with = groups[g].creatorKey

Peer(a) == CHOOSE b \in Accounts : b # a

-----------------------------------------------------------------------------
(* The environment.                                                        *)

Event == events < MaxEvents /\ events' = events + 1
NoEvent == UNCHANGED events

Wrapped(A) == [a \in Accounts |-> IF a \in A THEN latest[a] ELSE 0]

\* A session comes from a QR login or holds an imported device key; the user
\* generated the first key of the group for those who were in it.
Init ==
    /\ chat \in {"group", "direct"} /\ sealed \in BOOLEAN
    /\ members \in (SUBSET Accounts) \ {{}}
    /\ IF chat = "direct" THEN members = Accounts /\ Cardinality(Accounts) = 2 ELSE sealed
    /\ \E f \in [Accounts -> 1 .. Cardinality(Accounts)] :
          /\ \A a, b \in Accounts : f[a] = f[b] => a = b
          /\ latest = f
    /\ lastKey = Cardinality(Accounts)
    /\ groups = <<[creator |-> User, with |-> 0, creatorKey |-> 0, wrap |-> Wrapped(members)]>>
    /\ msgs = <<>>
    /\ phase = [a \in Accounts |-> "down"]
    /\ session = [a \in Accounts |->
          IF a \in QRLogins THEN [meta |-> latest[a], chain |-> {latest[a]}, device |-> {}]
                            ELSE [meta |-> 0, chain |-> {}, device |-> {latest[a]}]]
    /\ file = session
    /\ keys = [a \in Accounts |-> {}]
    /\ known = [a \in Accounts |-> NoKey]
    /\ marked = {}
    /\ tasks = [w \in Workers |-> Idle]
    /\ events = 0
    /\ orphans = {} /\ foreign = {} /\ replaced = {} /\ unsent = {}

Join(a) ==
    /\ chat = "group" /\ a \notin members
    /\ Event
    /\ members' = members \cup {a}
    /\ UNCHANGED <<chat, sealed, latest, lastKey, groups, msgs, client, tasks, history>>

Removed(a) ==
    /\ chat = "group" /\ a \in members
    /\ Event
    /\ members' = members \ {a}
    /\ UNCHANGED <<chat, sealed, latest, lastKey, groups, msgs, client, tasks, history>>

\* Another device of the account registers its key.
OtherDevice(a) ==
    /\ lastKey < MaxKeys
    /\ Event
    /\ lastKey' = lastKey + 1
    /\ latest' = [latest EXCEPT ![a] = lastKey + 1]
    /\ foreign' = foreign \cup {lastKey + 1}
    /\ replaced' = replaced \cup {a}
    /\ UNCHANGED <<chat, sealed, members, groups, msgs, client, tasks, orphans, unsent>>

\* The user's program generates a group key.
UserRegisters ==
    /\ chat = "group" /\ Len(groups) < MaxGroups
    /\ Event
    /\ groups' = Append(groups, [creator |-> User, with |-> 0, creatorKey |-> 0,
                                 wrap |-> Wrapped(members)])
    /\ UNCHANGED <<chat, sealed, members, latest, lastKey, msgs, client, tasks, history>>

Accepted(m) == msgs' = Append(msgs, m)

Letter(from, key, own) ==
    [from |-> from, plain |-> FALSE, id |-> key.id, secret |-> key.secret, senderKey |-> own,
     unread |-> members, failed |-> {}, faulted |-> {}]

\* The user sends a message under the last group key.
UserSends ==
    /\ chat = "group" /\ Len(msgs) < MaxMsgs
    /\ Accepted(Letter(User, [id |-> Len(groups), secret |-> Len(groups)], 0))
    /\ UNCHANGED <<chat, sealed, members, latest, lastKey, groups, client, tasks, events, history>>

-----------------------------------------------------------------------------
(* An account's start: Open, then SyncE2EESelfKey.                         *)

\* Mutant: any key of the account will do.
OwnsLatestAny(a, s) == Source(s) # {}

\* ownKey of the negotiated id.
OwnsLatest(a, s) == latest[a] \in Source(s)

\* Open: the manager starts with the saved session and empty caches.
\* SyncSelfKey: nothing to do when the account owns the key that the server
\* hands out; a start whose request fails is over.
Open(a) ==
    /\ phase[a] = "down"
    /\ session' = [session EXCEPT ![a] = file[a]]
    /\ known' = [known EXCEPT ![a] = NoKey]
    /\ marked' = marked \ {a}
    /\ phase' = [phase EXCEPT ![a] = IF OwnsLatest(a, file[a]) THEN "up" ELSE "register"]
    /\ keys' = [keys EXCEPT ![a] = Source(file[a])]
    /\ replaced' = replaced \ {a}
    /\ UNCHANGED <<server, file, tasks, events, orphans, foreign, unsent>>

\* The key joins DeviceKeys and the file. When the answer is lost, or the save
\* fails, the start fails, and after a crash too nobody has the key.
Keep(a, id) ==
    \/ /\ phase' = [phase EXCEPT ![a] = "up"]
       /\ session' = [session EXCEPT ![a].device = @ \cup {id}]
       /\ keys' = [keys EXCEPT ![a] = {}]
       /\ file' = [file EXCEPT ![a] = session'[a]]
       /\ NoEvent /\ UNCHANGED orphans
    \/ /\ Event
       /\ phase' = [phase EXCEPT ![a] = "down"]
       /\ orphans' = orphans \cup {id}
       /\ UNCHANGED <<session, keys, file>>

\* RegisterE2EEPublicKey, and SyncE2EESelfKey to its end: the account does
\* nothing else meanwhile.
RegisterSelf(a) ==
    /\ phase[a] = "register" /\ lastKey < MaxKeys
    /\ lastKey' = lastKey + 1
    /\ latest' = [latest EXCEPT ![a] = lastKey + 1]
    /\ Keep(a, lastKey + 1)
    /\ UNCHANGED <<chat, sealed, members, groups, msgs, known, marked, tasks, foreign, replaced, unsent>>

\* The process dies with what its goroutines were doing for the account.
Crash(a) ==
    /\ phase[a] # "down"
    /\ Event
    /\ phase' = [phase EXCEPT ![a] = "down"]
    /\ tasks' = [w \in Workers |-> IF tasks[w].acct = a THEN Idle ELSE tasks[w]]
    /\ UNCHANGED <<server, session, file, keys, known, marked, history>>

-----------------------------------------------------------------------------
(* Goroutines: a message is sent, or an arrived one is read.               *)

End(w) == tasks' = [tasks EXCEPT ![w] = Idle]

Sending(t) == t.msg = 0

Outgoing == Cardinality({w \in Workers : tasks[w].pc # "idle" /\ Sending(tasks[w])})

\* The goroutine ends without success although no request failed.
Fails(w, t) ==
    /\ End(w) /\ NoEvent
    /\ IF Sending(t) THEN unsent' = unsent \cup {<<t.acct, latest[t.acct]>>} /\ UNCHANGED msgs
       ELSE msgs' = [msgs EXCEPT ![t.msg].unread = @ \ {t.acct}, ![t.msg].failed = @ \cup {t.acct}]
            /\ UNCHANGED unsent

\* A request failed.
Faults(w, t) ==
    /\ End(w) /\ Event /\ UNCHANGED unsent
    /\ IF Sending(t) THEN UNCHANGED msgs
       ELSE msgs' = [msgs EXCEPT ![t.msg].unread = @ \ {t.acct}, ![t.msg].failed = @ \cup {t.acct},
                                 ![t.msg].faulted = @ \cup {t.acct}]

Reads(w, t) ==
    /\ End(w) /\ NoEvent /\ UNCHANGED unsent
    /\ msgs' = [msgs EXCEPT ![t.msg].unread = @ \ {t.acct}]

Continue(w, t) ==
    /\ tasks' = [tasks EXCEPT ![w] = t]
    /\ NoEvent /\ UNCHANGED unsent
    /\ IF Sending(t) THEN UNCHANGED msgs
       ELSE msgs' = [msgs EXCEPT ![t.msg].unread = @ \ {t.acct}]

\* decryptPayload: the key is the one the message was sealed with, and the
\* sender's device key can be had, the account's own from its keychain.
Decrypts(a, m, key) ==
    /\ key.id = m.id /\ key.secret = m.secret
    /\ m.from = a => OwnKey(a, m.senderKey) # {}

\* With a key at hand the message goes out, or is read.
Proceed(w, t, key) ==
    IF Sending(t) THEN Continue(w, [Idle EXCEPT !.acct = t.acct, !.pc = "post", !.key = key])
    ELSE IF Decrypts(t.acct, msgs[t.msg], key) THEN Reads(w, t) ELSE Fails(w, t)

Cache(a, key) == known' = [known EXCEPT ![a] = key]

\* Whether the cached key will do: any for sending, the named one for reading.
Hit(t) ==
    /\ known[t.acct] # NoKey
    /\ ~Sending(t) => known[t.acct].id = msgs[t.msg].id

\* In a group: a cached key that has not expired, or GetLastE2EEGroupSharedKey
\* for a sender and GetE2EEGroupSharedKey for a reader.
InGroup(w, t) ==
    \/ Hit(t) /\ Proceed(w, t, known[t.acct]) /\ UNCHANGED known
    \/ /\ Continue(w, [t EXCEPT !.pc = "open",
                                !.got = IF Sending(t) THEN Len(groups) ELSE msgs[t.msg].id])
       /\ UNCHANGED known
    \/ Faults(w, t) /\ UNCHANGED known

\* In a direct chat a sender negotiates the peer's key, a reader needs the key
\* of its own that the message names (the server knows the sender's).
InDirect(w, t) ==
    LET peer == latest[Peer(t.acct)]
        key  == [id |-> peer, secret |-> peer]
        m    == msgs[t.msg]
        need == IF m.from = t.acct THEN m.senderKey ELSE m.id
    IN  \/ Sending(t) /\ Hit(t) /\ Proceed(w, t, known[t.acct]) /\ UNCHANGED known
        \/ Sending(t) /\ Proceed(w, t, key) /\ Cache(t.acct, key)
        \/ Sending(t) /\ Faults(w, t) /\ UNCHANGED known
        \/ ~Sending(t) /\ OwnKey(t.acct, need) # {} /\ Reads(w, t) /\ UNCHANGED known
        \/ ~Sending(t) /\ OwnKey(t.acct, need) = {} /\ Fails(w, t) /\ UNCHANGED known

\* EncryptText and DecryptText up to the answer of their first request; a
\* sender's own key comes first.
Lookup(w, t) ==
    IF Sending(t) /\ OwnKey(t.acct, 0) = {} THEN Fails(w, t) /\ UNCHANGED known
    ELSE IF chat = "group" THEN InGroup(w, t) ELSE InDirect(w, t)

\* sendMessageWithMetadata: plain text unless the chat is known as encrypted.
SendMessage(w, a) ==
    LET t == [Idle EXCEPT !.acct = a]
    IN  /\ tasks[w].pc = "idle" /\ phase[a] = "up" /\ a \in members
        /\ Len(msgs) + Outgoing < MaxMsgs
        /\ IF a \in marked THEN Lookup(w, t)
           ELSE Continue(w, [t EXCEPT !.pc = "plain"]) /\ UNCHANGED known
        /\ UNCHANGED <<chat, sealed, members, latest, lastKey, groups, phase, session, file, keys,
                       marked, orphans, foreign, replaced>>

\* The server takes the text, or answers with code 82: the chat is marked and
\* the text encrypted.
SendPlain(w) ==
    LET t == tasks[w]
    IN  /\ t.pc = "plain"
        /\ \/ /\ ~sealed /\ End(w) /\ NoEvent
              /\ Accepted([Letter(t.acct, t.key, 0) EXCEPT !.plain = TRUE])
              /\ UNCHANGED <<marked, known, unsent>>
           \/ sealed /\ marked' = marked \cup {t.acct} /\ Lookup(w, t)
           \/ Faults(w, t) /\ UNCHANGED <<marked, known>>
        /\ UNCHANGED <<chat, sealed, members, latest, lastKey, groups, phase, session, file, keys,
                       orphans, foreign, replaced>>

\* ResolveMessageText takes the next message that arrived (the listener hands
\* them out in order); one with a text needs nothing.
ReadMessage(w, a, i) ==
    LET t == [Idle EXCEPT !.acct = a, !.msg = i]
    IN  /\ tasks[w].pc = "idle" /\ phase[a] = "up" /\ a \in msgs[i].unread
        /\ \A j \in 1 .. i - 1 : a \notin msgs[j].unread
        /\ IF msgs[i].plain THEN Reads(w, t) /\ UNCHANGED <<marked, known>>
           ELSE marked' = marked \cup {a} /\ Lookup(w, t)
        /\ UNCHANGED <<chat, sealed, members, latest, lastKey, groups, phase, session, file, keys,
                       orphans, foreign, replaced>>

\* Mutant: a key that cannot be unwrapped is an error.
OpenOrFail(w) ==
    LET t == tasks[w]
        key == [id |-> t.got, secret |-> t.got]
    IN  /\ t.pc = "open"
        /\ IF CanOpen(t.acct, t.got) THEN Cache(t.acct, key) /\ Proceed(w, t, key)
           ELSE Fails(w, t) /\ UNCHANGED known
        /\ UNCHANGED <<chat, sealed, members, latest, lastKey, groups, phase, session, file, keys,
                       marked, orphans, foreign, replaced>>

\* registerGroupKey asks for the members' keys, among them the account's own,
\* whose private half it needs. One that was removed meanwhile is refused.
FetchMembers(w, t) ==
    LET own == OwnKey(t.acct, latest[t.acct])
    IN  \/ t.acct \notin members /\ Faults(w, t)
        \/ t.acct \in members /\ own = {} /\ Fails(w, t)
        \/ /\ t.acct \in members
           /\ \E k \in own : Continue(w, [t EXCEPT !.pc = "register", !.got = 0, !.own = k,
                                                   !.wrap = Wrapped(members)])
        \/ t.acct \in members /\ Faults(w, t)

\* groupKey and groupKeyByID: the key is unwrapped and replaces the cached one,
\* be it newer; one that is not for the account, or cannot be unwrapped, makes
\* it generate another.
OpenGroup(w) ==
    LET t == tasks[w]
        key == [id |-> t.got, secret |-> t.got]
    IN  /\ t.pc = "open"
        /\ IF CanOpen(t.acct, t.got) THEN Cache(t.acct, key) /\ Proceed(w, t, key)
           ELSE FetchMembers(w, t) /\ UNCHANGED known
        /\ UNCHANGED <<chat, sealed, members, latest, lastKey, groups, phase, session, file, keys,
                       marked, orphans, foreign, replaced>>

\* Mutant: the key that was generated goes by the id that was asked for.
NewKeyAs(t) == [id |-> IF Sending(t) THEN Len(groups) + 1 ELSE msgs[t.msg].id,
                secret |-> Len(groups) + 1]

NewKey(t) == [id |-> Len(groups) + 1, secret |-> Len(groups) + 1]

\* RegisterE2EEGroupKey. The account unwraps the key as any other and caches
\* it; a reader that generated one still cannot read its message. The answer
\* may be lost.
RegisterGroup(w) ==
    LET t == tasks[w]
        g == [creator |-> t.acct, with |-> t.own, creatorKey |-> latest[t.acct], wrap |-> t.wrap]
    IN  /\ t.pc = "register" /\ Len(groups) < MaxGroups
        /\ groups' = Append(groups, g)
        /\ \/ g.with = g.creatorKey /\ Cache(t.acct, NewKey(t)) /\ Proceed(w, t, NewKey(t))
           \/ g.with # g.creatorKey /\ Fails(w, t) /\ UNCHANGED known
           \/ Faults(w, t) /\ UNCHANGED known
        /\ UNCHANGED <<chat, sealed, members, latest, lastKey, phase, session, file, keys, marked,
                       orphans, foreign, replaced>>

\* sendEncrypted: the sealed text goes out with the id of ownKey(0); the server
\* refuses it from one that was removed.
Post(w) ==
    LET t == tasks[w]
    IN  /\ t.pc = "post"
        /\ \/ /\ t.acct \in members
              /\ \E k \in OwnKey(t.acct, 0) : Accepted(Letter(t.acct, t.key, k))
              /\ End(w) /\ NoEvent /\ UNCHANGED unsent
           \/ t.acct \notin members /\ End(w) /\ NoEvent /\ UNCHANGED <<msgs, unsent>>
           \/ t.acct \in members /\ Faults(w, t)
        /\ UNCHANGED <<chat, sealed, members, latest, lastKey, groups, client, orphans, foreign, replaced>>

-----------------------------------------------------------------------------
Environment ==
    \/ UserRegisters \/ UserSends
    \/ \E a \in Accounts : Join(a) \/ Removed(a) \/ OtherDevice(a)

Starts == \E a \in Accounts : Open(a) \/ RegisterSelf(a) \/ Crash(a)

Works(w) ==
    \/ \E a \in Accounts : SendMessage(w, a) \/ \E i \in DOMAIN msgs : ReadMessage(w, a, i)
    \/ SendPlain(w) \/ OpenGroup(w) \/ RegisterGroup(w) \/ Post(w)

Next == Environment \/ Starts \/ \E w \in Workers : Works(w)

Spec == Init /\ [][Next]_vars

-----------------------------------------------------------------------------
\* SyncSelfKey: an account that finished its start holds, in memory and in its
\* session file, the private half of the key the server hands out for it, or
\* another of its devices has replaced that key since. A start that dies or fails
\* anywhere between registering a key and saving it is made good by the next.
Reachable ==
    \A a \in Accounts : phase[a] = "up" =>
        \/ latest[a] \in Source(session[a]) \cap Source(file[a])
        \/ a \in replaced

\* The keys of a QR login that keychain no longer sees.
Superseded(a) == IF session[a].device # {} THEN session[a].chain ELSE {}

\* A key whose private half the account does not have, for one of three reasons.
Gone(a, k) == k \in orphans \cup foreign \cup Superseded(a)

\* The device key a reader needs for a message.
NeededKey(r, m) == IF chat = "direct" THEN m.id ELSE groups[m.id].wrap[r]

\* DecryptText: whatever the caches, historic keys and simultaneous
\* registrations, a message can be read by everybody it was for, except by a
\* member that was not in the group when its key was made, by an account that
\* lost the device key, after a creator's device key was replaced in the middle
\* of a registration, and when a request fails.
Readable ==
    \A i \in DOMAIN msgs : \A r \in msgs[i].failed :
        LET m == msgs[i]
        IN  \/ r \in m.faulted
            \/ m.from = r /\ Gone(r, m.senderKey)
            \/ chat = "group" /\ groups[m.id].wrap[r] = 0
            \/ chat = "group" /\ groups[m.id].creatorKey \in foreign
            \/ Gone(r, NeededKey(r, m))

\* EncryptText: an account whose requests succeed always gets its text sealed,
\* also after it joined a group whose key is not for it or lost its keys,
\* unless another device replaced its key or its QR login's keys were
\* superseded (the metadata still names one of those).
Sends == \A u \in unsent : Superseded(u[1]) # {} \/ u[2] \in foreign
=============================================================================
