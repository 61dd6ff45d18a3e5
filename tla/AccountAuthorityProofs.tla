------------------------ MODULE AccountAuthorityProofs ------------------------
(***************************************************************************)
(* A revoked app password, and a changed account, reach every attachment     *)
(* that lives by them, for any number of clients, credentials and changes,   *)
(* however often the listener is lost; but for those a turn on the lane      *)
(* passed over, and no others.                                               *)
(***************************************************************************)
EXTENDS AccountAuthority, FiniteSetTheorems, SequenceTheorems, TLAPS

News == {"Account"} \cup Issued

Attach ==
    [at : {"new", "handshake", "verified", "attached", "over"}, ticket : Nat,
     credential : Issued \cup {Password}, checkedAt : Nat]

\* The part of the type invariant the argument needs.
StoreTyped == stored \subseteq Issued /\ notes \in Seq(News)

AttachTyped ==
    /\ epoch \in Nat /\ revokedAt \in [Revocable -> Nat] /\ client \in [Clients -> Attach]
    /\ \A k \in Clients : client[k].ticket <= epoch

RowTyped == row \in Authority

\* A client that a revoked app password was verified for will be refused its
\* lease, or the revocation is still to be heard, or the listener is down and
\* will refuse it, with every other in flight, before anything is re-read.
Answered(k) ==
    client[k].at = "verified" /\ client[k].credential \in Issued \ stored =>
        \/ Announced(client[k].credential)
        \/ watcher \in {"lost", "settle"}
        \/ RevokedSince(k, client[k].credential) \/ RevokedSince(k, "Every")

VerifiedAnswered == \A k \in Clients : Answered(k)

AuthorityInv ==
    StoreTyped /\ AttachTyped /\ RowTyped /\ VerifiedAnswered /\ RevocationReaches

-----------------------------------------------------------------------------
\* Announcements.

Holds(s, x) == \E i \in DOMAIN s : s[i] = x

\* What is announced follows what was.
LEMMA AnnounceAppends ==
    ASSUME NEW S, NEW s \in Seq(S), NEW t \in Seq(S)
    PROVE  \A x : Holds(s, x) \/ Holds(t, x) => Holds(s \o t, x)
<1> DEFINE u == s \o t
<1>1. /\ Len(s) \in Nat /\ DOMAIN s = 1 .. Len(s)
      /\ Len(t) \in Nat /\ DOMAIN t = 1 .. Len(t)
  BY LenProperties
<1>2. /\ u \in Seq(S) /\ Len(u) = Len(s) + Len(t)
      /\ \A i \in 1 .. Len(s) + Len(t) : u[i] = IF i <= Len(s) THEN s[i] ELSE t[i - Len(s)]
  BY ConcatProperties
<1>3. DOMAIN u = 1 .. Len(u)
  BY <1>2, LenProperties
<1> HIDE DEF u
<1>4. ASSUME NEW i \in DOMAIN s
      PROVE  i \in DOMAIN u /\ u[i] = s[i]
  BY <1>1, <1>2, <1>3
<1>5. ASSUME NEW i \in DOMAIN t
      PROVE  Len(s) + i \in DOMAIN u /\ u[Len(s) + i] = t[i]
  BY <1>1, <1>2, <1>3
<1>6. \A x : Holds(s, x) \/ Holds(t, x) => Holds(u, x)
  BY <1>4, <1>5 DEF Holds
<1> QED
  BY <1>6 DEF u

\* Hearing the first announcement leaves the others.
LEMMA TailKeeps ==
    ASSUME NEW S, NEW s \in Seq(S), s # <<>>
    PROVE  \A x : x # Head(s) /\ Holds(s, x) => Holds(Tail(s), x)
<1>1. /\ Head(s) \in S /\ Tail(s) \in Seq(S) /\ Len(Tail(s)) = Len(s) - 1
      /\ \A i \in 1 .. Len(Tail(s)) : Tail(s)[i] = s[i + 1]
  BY HeadTailProperties
<1>2. /\ Len(s) \in Nat /\ DOMAIN s = 1 .. Len(s)
      /\ DOMAIN Tail(s) = 1 .. Len(Tail(s))
  BY <1>1, LenProperties
<1>3. Head(s) = s[1]
  OBVIOUS
<1> SUFFICES ASSUME NEW x, x # Head(s), NEW i \in DOMAIN s, s[i] = x
             PROVE  \E j \in DOMAIN Tail(s) : Tail(s)[j] = x
  BY DEF Holds
<1>4. i # 1
  BY <1>3
<1>5. i - 1 \in 1 .. Len(Tail(s)) /\ (i - 1) + 1 = i
  BY <1>1, <1>2, <1>4
<1> QED
  BY <1>1, <1>2, <1>5

\* A list of a finite set's members, each once, holds them all.
LEMMA ListsAll ==
    ASSUME NEW S, IsFiniteSet(S), NEW order \in SetToSeqs(S)
    PROVE  order \in Seq(S) /\ \A x \in S : Holds(order, x)
<1>1. Cardinality(S) \in Nat
  BY FS_CardinalityType
<1> DEFINE n == Cardinality(S)
<1>2. order \in [1 .. n -> S] /\ \A i, j \in 1 .. n : i # j => order[i] # order[j]
  BY DEF SetToSeqs
<1> HIDE DEF n
<1>3. order \in Injection(1 .. n, S)
  BY <1>2 DEF Injection, IsInjective
<1>4. Cardinality(1 .. n) = n
  BY <1>1, FS_Interval DEF n
<1>5. order \in Surjection(1 .. n, S)
  BY <1>3, <1>4, FS_Injection DEF n
<1>6. \A x \in S : \E i \in 1 .. n : order[i] = x
  BY <1>5 DEF Surjection
<1>7. order \in Seq(S)
  BY <1>1, <1>2 DEF n
<1> QED
  BY <1>2, <1>6, <1>7 DEF Holds

-----------------------------------------------------------------------------
\* The attachments.

\* The clients of the listener this step touches: none is verified but by a
\* credential that stands, none attached but by a lease that was not refused,
\* and every revocation an outstanding ticket must meet is remembered.
AttachKept ==
    \A k \in Clients :
        /\ client'[k].at = "verified" =>
              \/ client'[k].credential \in stored' \cup {Password}
              \/ /\ client'[k] = client[k]
                 /\ \A x \in Revocable : RevokedSince(k, x) => revokedAt'[x] > client[k].ticket
        /\ client'[k].at = "attached" =>
              \/ client'[k] = client[k]
              \/ /\ client[k].at = "verified" /\ client'[k].credential = client[k].credential
                 /\ client[k].credential \in Issued =>
                        ~RevokedSince(k, client[k].credential) /\ ~RevokedSince(k, "Every")

\* Every revocation an announcement tells of, or the listener misses, stays told.
NewsKept ==
    \A c \in Issued \ stored' :
        \/ c \in Issued \ stored /\ (Announced(c) => Announced(c)')
        \/ Announced(c)' \/ watcher' = "lost"

LEMMA QuietStep ==
    ASSUME AuthorityInv, AttachKept, NewsKept, UNCHANGED <<watcher, held>>
    PROVE  VerifiedAnswered' /\ RevocationReaches'
<1> USE DEF AuthorityInv
<1>1. ASSUME NEW k \in Clients
      PROVE  Answered(k)'
  <2> SUFFICES ASSUME client'[k].at = "verified", client'[k].credential \in Issued \ stored'
               PROVE  \/ Announced(client[k].credential)'
                      \/ watcher' \in {"lost", "settle"}
                      \/ RevokedSince(k, client[k].credential)' \/ RevokedSince(k, "Every")'
    BY DEF Answered
  <2>1. client'[k].credential # Password
    BY AuthorityAssumption
  <2>2. /\ client'[k] = client[k]
        /\ \A x \in Revocable : RevokedSince(k, x) => revokedAt'[x] > client[k].ticket
    BY <2>1 DEF AttachKept
  <2>3. \A x \in Revocable : RevokedSince(k, x) => RevokedSince(k, x)'
    BY <2>2 DEF RevokedSince
  <2>4. client[k].credential \in Revocable /\ "Every" \in Revocable
    BY <2>2 DEF Revocable
  <2>5. Answered(k)
    BY DEF VerifiedAnswered
  <2>6. \/ Announced(client[k].credential)' \/ watcher' = "lost"
        \/ client[k].credential \in Issued \ stored
           /\ (Announced(client[k].credential) => Announced(client[k].credential)')
    BY <2>2 DEF NewsKept
  <2> QED
    BY <2>2, <2>3, <2>4, <2>5, <2>6 DEF Answered
<1>2. ASSUME NEW k \in Clients, Attached(k)', client'[k].credential \in Issued \ stored'
      PROVE  \/ Announced(client[k].credential)'
             \/ watcher' \in {"lost", "settle", "accounts", "credentials"}
             \/ client'[k].credential \in held'
  <2>1. client'[k].at = "attached"
    BY <1>2 DEF Attached
  <2>2. client'[k].credential = client[k].credential
    BY <2>1 DEF AttachKept
  <2>3. \/ Announced(client[k].credential)' \/ watcher' = "lost"
        \/ client[k].credential \in Issued \ stored
           /\ (Announced(client[k].credential) => Announced(client[k].credential)')
    BY <1>2, <2>2 DEF NewsKept
  <2>4. CASE client'[k] = client[k]
    BY <1>2, <2>1, <2>2, <2>3, <2>4 DEF RevocationReaches, Attached
  <2>5. CASE client'[k] # client[k]
    <3>1. /\ client[k].at = "verified"
          /\ ~RevokedSince(k, client[k].credential) /\ ~RevokedSince(k, "Every")
      BY <1>2, <2>1, <2>2, <2>5 DEF AttachKept
    <3>2. Answered(k)
      BY DEF VerifiedAnswered
    <3> QED
      BY <1>2, <2>2, <2>3, <3>1, <3>2 DEF Answered
  <2> QED
    BY <2>4, <2>5
<1>3. \A k \in Clients : Attached(k)' => client'[k].credential = client[k].credential
  BY DEF AttachKept, Attached
<1> QED
  BY <1>1, <1>2, <1>3 DEF VerifiedAnswered, RevocationReaches

\* A revocation is remembered as long as a ticket older than it is out.
LEMMA PrunedRemembers ==
    ASSUME NEW at \in [Revocable -> Nat], NEW outstanding \in SUBSET Clients,
           client \in [Clients -> Attach]
    PROVE  /\ Pruned(at, outstanding) \in [Revocable -> Nat]
           /\ \A k \in outstanding : \A x \in Revocable :
                  at[x] > client[k].ticket => Pruned(at, outstanding)[x] = at[x]
<1>1. \A k \in Clients : client[k].ticket \in Nat
  BY DEF Attach
<1>2. ASSUME NEW k \in outstanding, NEW x \in Revocable, at[x] > client[k].ticket
      PROVE  ~(at[x] <= client[k].ticket)
  BY <1>1, <1>2
<1>3. Pruned(at, outstanding) \in [Revocable -> Nat]
  BY DEF Pruned
<1> QED
  BY <1>2, <1>3 DEF Pruned

LEMMA RevokeKeeps ==
    ASSUME AttachTyped, NEW what \in Revocable, NEW ends \in SUBSET Clients, Revoke(what, ends)
    PROVE  /\ AttachTyped' /\ AttachKept
           /\ \A k \in Clients :
                 /\ client'[k].at = "verified" =>
                        /\ client'[k] = client[k] /\ revokedAt'[what] > client[k].ticket
                        /\ \A x \in Revocable :
                               RevokedSince(k, x) => revokedAt'[x] > client[k].ticket
                 /\ Attached(k)' => client'[k] = client[k] /\ k \notin ends
<1> DEFINE at == [revokedAt EXCEPT ![what] = epoch + 1]
<1>1. epoch' = epoch + 1 /\ revokedAt' = Pruned(at, Outstanding)
  BY DEF Revoke
<1>2. \A k \in Clients : client'[k] = IF Attached(k) /\ k \in ends THEN Over ELSE client[k]
  BY DEF Revoke
<1>3. client' \in [Clients -> Attach]
  <2>1. Over \in Attach
    BY DEF Over, Client, Attach
  <2> QED
    BY <2>1 DEF Revoke, AttachTyped
<1>4. /\ at \in [Revocable -> Nat] /\ at[what] = epoch + 1
      /\ \A x \in Revocable : x # what => at[x] = revokedAt[x]
  BY DEF AttachTyped
<1> HIDE DEF at
<1>5. /\ Pruned(at, Outstanding) \in [Revocable -> Nat]
      /\ \A k \in Outstanding : \A x \in Revocable :
             at[x] > client[k].ticket => Pruned(at, Outstanding)[x] = at[x]
  BY <1>4, PrunedRemembers DEF AttachTyped, Outstanding
<1>6. \A k \in Clients : client[k].ticket \in Nat /\ client[k].ticket <= epoch
  BY DEF AttachTyped, Attach
<1>7. \A k \in Clients : client'[k].ticket <= epoch'
  <2>1. Over.ticket = 0 /\ epoch \in Nat
    BY DEF Over, Client, AttachTyped
  <2>2. \A n \in Nat : n <= epoch => n <= epoch + 1 /\ 0 <= epoch + 1
    BY <2>1
  <2> QED
    BY <1>1, <1>2, <1>6, <2>1, <2>2
<1>8. AttachTyped'
  BY <1>1, <1>3, <1>5, <1>7 DEF AttachTyped
<1>9. ASSUME NEW k \in Clients, client'[k].at = "verified"
      PROVE  /\ client'[k] = client[k] /\ revokedAt'[what] > client[k].ticket
             /\ \A x \in Revocable : RevokedSince(k, x) => revokedAt'[x] > client[k].ticket
  <2>1. client'[k] = client[k] /\ k \in Outstanding
    BY <1>2, <1>9 DEF Over, Client, Outstanding
  <2>2. epoch \in Nat /\ epoch + 1 > client[k].ticket
    BY <1>6 DEF AttachTyped
  <2>3. ASSUME NEW x \in Revocable, RevokedSince(k, x)
        PROVE  at[x] > client[k].ticket
    BY <1>4, <2>2, <2>3 DEF RevokedSince
  <2> QED
    BY <1>1, <1>4, <1>5, <2>1, <2>2, <2>3
<1>10. ASSUME NEW k \in Clients, client'[k].at = "attached"
       PROVE  client'[k] = client[k] /\ k \notin ends
  BY <1>2, <1>10 DEF Over, Client, Attached
<1> QED
  BY <1>8, <1>9, <1>10 DEF AttachKept, Attached

-----------------------------------------------------------------------------
\* The clients' own steps.

\* Nothing is told or forgotten by a step that leaves the store alone.
LEMMA StoreStands ==
    ASSUME UNCHANGED storeVars
    PROVE  NewsKept /\ (StoreTyped => StoreTyped') /\ (RowTyped => RowTyped')
BY DEF storeVars, NewsKept, Announced, StoreTyped, RowTyped

\* One client moves and its ticket is spent, or not yet out: every other ticket
\* meets the revocations it met.
LEMMA ClientMoves ==
    ASSUME AttachTyped, NEW k \in Clients, NEW c \in Attach, c.ticket <= epoch,
           client' = [client EXCEPT ![k] = c], UNCHANGED epoch,
           \/ revokedAt' = Pruned(revokedAt, Outstanding \ {k})
           \/ revokedAt' = revokedAt
    PROVE  /\ AttachTyped' /\ client'[k] = c
           /\ \A j \in Clients \ {k} :
                 /\ client'[j] = client[j]
                 /\ client[j].at = "verified" =>
                        \A x \in Revocable : RevokedSince(j, x) => revokedAt'[x] > client[j].ticket
<1>1. /\ client' \in [Clients -> Attach] /\ client'[k] = c
      /\ \A j \in Clients \ {k} : client'[j] = client[j]
  BY DEF AttachTyped
<1>2. /\ Pruned(revokedAt, Outstanding \ {k}) \in [Revocable -> Nat]
      /\ \A j \in Outstanding \ {k} : \A x \in Revocable :
             revokedAt[x] > client[j].ticket =>
                 Pruned(revokedAt, Outstanding \ {k})[x] = revokedAt[x]
  BY PrunedRemembers DEF AttachTyped, Outstanding
<1>3. AttachTyped'
  BY <1>1, <1>2 DEF AttachTyped
<1>4. ASSUME NEW j \in Clients \ {k}, client[j].at = "verified", NEW x \in Revocable,
             RevokedSince(j, x)
      PROVE  revokedAt'[x] > client[j].ticket
  <2>1. j \in Outstanding \ {k}
    BY <1>4 DEF Outstanding
  <2> QED
    BY <1>2, <1>4, <2>1 DEF RevokedSince
<1> QED
  BY <1>1, <1>3, <1>4

LEMMA ClientMovesKept ==
    ASSUME AttachTyped, NEW k \in Clients, NEW c \in Attach, c.ticket <= epoch,
           client' = [client EXCEPT ![k] = c], UNCHANGED epoch,
           \/ revokedAt' = Pruned(revokedAt, Outstanding \ {k})
           \/ revokedAt' = revokedAt,
           c.at = "verified" => c.credential \in stored' \cup {Password},
           c.at = "attached" =>
               /\ client[k].at = "verified" /\ c.credential = client[k].credential
               /\ client[k].credential \in Issued =>
                      ~RevokedSince(k, client[k].credential) /\ ~RevokedSince(k, "Every")
    PROVE  AttachTyped' /\ AttachKept
<1>1. /\ AttachTyped' /\ client'[k] = c
      /\ \A j \in Clients \ {k} :
            /\ client'[j] = client[j]
            /\ client[j].at = "verified" =>
                   \A x \in Revocable : RevokedSince(j, x) => revokedAt'[x] > client[j].ticket
  BY ClientMoves
<1> QED
  BY <1>1 DEF AttachKept

LEMMA ClientStep ==
    ASSUME AuthorityInv, NEW k \in Clients,
           \/ TakeTicket(k) \/ Lease(k) \/ Leave(k)
           \/ \E c \in Issued \cup {Password} : Verify(k, c)
    PROVE  AuthorityInv'
<1> USE DEF AuthorityInv
<1>1. UNCHANGED <<watcher, held>> /\ NewsKept /\ StoreTyped' /\ RowTyped'
  BY StoreStands DEF TakeTicket, Lease, Leave, Verify, watcherVars
<1>2. client \in [Clients -> Attach] /\ client[k] \in Attach /\ client[k].ticket <= epoch
  BY DEF AttachTyped
<1>3. epoch \in Nat /\ row.generation \in Nat
  BY DEF AttachTyped, RowTyped, Authority
<1>4. Over \in Attach /\ Over.at = "over" /\ Over.ticket <= epoch
  BY <1>3 DEF Over, Client, Attach
<1>5. CASE TakeTicket(k)
  <2> DEFINE c == Client("handshake", epoch, Password, 0)
  <2>1. c \in Attach /\ c.at = "handshake" /\ c.ticket <= epoch
    BY <1>3 DEF Client, Attach
  <2>2. client' = [client EXCEPT ![k] = c] /\ UNCHANGED <<epoch, revokedAt>>
    BY <1>5 DEF TakeTicket
  <2> HIDE DEF c
  <2>3. AttachTyped' /\ AttachKept
    BY <2>1, <2>2, ClientMovesKept
  <2> QED
    BY <1>1, <2>3, QuietStep
<1>6. ASSUME NEW d \in Issued \cup {Password}, Verify(k, d)
      PROVE  AuthorityInv'
  <2> DEFINE c == Client("verified", client[k].ticket, d, row.generation)
  <2>1. c \in Attach /\ c.at = "verified" /\ c.ticket <= epoch /\ c.credential = d
    BY <1>2, <1>3 DEF Client, Attach
  <2>2. client' = [client EXCEPT ![k] = c] /\ UNCHANGED <<epoch, revokedAt>>
        /\ d \in stored' \cup {Password}
    BY <1>2, <1>6 DEF Verify, storeVars
  <2> HIDE DEF c
  <2>3. AttachTyped' /\ AttachKept
    BY <2>1, <2>2, ClientMovesKept
  <2> QED
    BY <1>1, <2>3, QuietStep
<1>7. CASE Leave(k)
  <2>1. client' = [client EXCEPT ![k] = Over] /\ UNCHANGED epoch
        /\ (revokedAt' = Pruned(revokedAt, Outstanding \ {k}) \/ revokedAt' = revokedAt)
    BY <1>7 DEF Leave
  <2>2. AttachTyped' /\ AttachKept
    BY <1>4, <2>1, ClientMovesKept
  <2> QED
    BY <1>1, <2>2, QuietStep
<1>8. CASE Lease(k)
  <2> DEFINE refused == \E what \in {"Account", "Every", client[k].credential} \ {Password} :
                            RevokedSince(k, what)
             c == Client("attached", 0, client[k].credential, client[k].checkedAt)
  <2>1. /\ client' = [client EXCEPT ![k] = IF refused THEN Over ELSE c] /\ UNCHANGED epoch
        /\ revokedAt' = Pruned(revokedAt, Outstanding \ {k})
        /\ client[k].at = "verified"
    BY <1>2, <1>8 DEF Lease
  <2>2. c \in Attach /\ c.at = "attached" /\ c.ticket <= epoch
        /\ c.credential = client[k].credential
    BY <1>2, <1>3 DEF Client, Attach
  <2>3. ASSUME ~refused, client[k].credential \in Issued
        PROVE  ~RevokedSince(k, client[k].credential) /\ ~RevokedSince(k, "Every")
    BY <2>3, AuthorityAssumption
  <2> HIDE DEF c, refused
  <2>4. AttachTyped' /\ AttachKept
    <3>1. CASE refused
      BY <1>4, <2>1, <3>1, ClientMovesKept
    <3>2. CASE ~refused
      BY <2>1, <2>2, <2>3, <3>2, ClientMovesKept
    <3> QED
      BY <3>1, <3>2
  <2> QED
    BY <1>1, <2>4, QuietStep
<1> QED
  BY <1>5, <1>6, <1>7, <1>8

-----------------------------------------------------------------------------
\* The store's changes.

LEMMA AttachStands ==
    ASSUME AttachTyped, UNCHANGED attachVars
    PROVE  AttachTyped' /\ AttachKept
BY DEF attachVars, AttachTyped, AttachKept, RevokedSince

LEMMA AnnouncedHolds ==
    \A x : (Announced(x) <=> Holds(notes, x)) /\ (Announced(x)' <=> Holds(notes', x))
BY DEF Announced, Holds

LEMMA AnnounceKeeps ==
    ASSUME StoreTyped, NEW announced \in Seq(News), Announce(announced), UNCHANGED watcher
    PROVE  /\ notes' \in Seq(News)
           /\ \A c : Announced(c) => Announced(c)'
           /\ \A i \in DOMAIN announced : Announced(announced[i])' \/ watcher' = "lost"
<1>1. CASE Hears
  <2>1. notes' = notes \o announced
    BY <1>1 DEF Announce
  <2>2. notes' \in Seq(News)
    BY <2>1, ConcatProperties DEF StoreTyped
  <2>3. notes \in Seq(News)
    BY DEF StoreTyped
  <2>4. \A x : Holds(notes, x) \/ Holds(announced, x) => Holds(notes', x)
    BY <2>1, <2>3, AnnounceAppends
  <2>5. \A i \in DOMAIN announced : Holds(announced, announced[i])
    BY DEF Holds
  <2> QED
    BY <2>2, <2>4, <2>5, AnnouncedHolds, Zenon
<1>2. CASE ~Hears
  BY <1>2 DEF Hears, Announce, StoreTyped, Announced
<1> QED
  BY <1>1, <1>2

LEMMA CommitAccountKeeps ==
    ASSUME StoreTyped, RowTyped, NEW standing \in Standings, CommitAccount(standing),
           UNCHANGED watcher
    PROVE  StoreTyped' /\ RowTyped' /\ NewsKept
<1>1. <<"Account">> \in Seq(News)
  BY DEF News
<1>2. /\ notes' \in Seq(News)
      /\ \A c \in Issued : Announced(c) => Announced(c)'
  BY <1>1, AnnounceKeeps DEF CommitAccount
<1>3. row.generation + 1 \in Nat
  BY DEF RowTyped, Authority
<1> QED
  BY <1>2, <1>3 DEF CommitAccount, StoreTyped, RowTyped, Authority, NewsKept

LEMMA CommitDeletionKeeps ==
    ASSUME StoreTyped, RowTyped, CommitDeletion, UNCHANGED watcher
    PROVE  StoreTyped' /\ RowTyped' /\ NewsKept
<1>1. PICK order \in SetToSeqs(stored) : Announce(order \o <<"Account">>)
  BY DEF CommitDeletion
<1>2. IsFiniteSet(stored)
  BY AuthorityAssumption, FS_Subset DEF StoreTyped
<1>3. order \in Seq(stored) /\ \A x \in stored : Holds(order, x)
  BY <1>2, ListsAll
<1>4. order \in Seq(News) /\ <<"Account">> \in Seq(News)
  <2>1. stored \subseteq News
    BY DEF News, StoreTyped
  <2>2. order \in Seq(News)
    BY <1>3, <2>1, SeqMonotonic, Zenon
  <2> QED
    BY <2>2 DEF News
<1>5. order \o <<"Account">> \in Seq(News)
  BY <1>4, ConcatProperties
<1>6. PICK announced \in Seq(News) : announced = order \o <<"Account">>
  BY <1>5
<1>7. \A x \in stored : \E i \in DOMAIN announced : announced[i] = x
  <2>1. \A x : Holds(order, x) => Holds(announced, x)
    BY <1>4, <1>6, AnnounceAppends
  <2> QED
    BY <1>3, <2>1 DEF Holds
<1>8. /\ notes' \in Seq(News)
      /\ \A c \in Issued : Announced(c) => Announced(c)'
      /\ \A i \in DOMAIN announced : Announced(announced[i])' \/ watcher' = "lost"
  BY <1>1, <1>6, AnnounceKeeps
<1>9. \A x \in stored : Announced(x)' \/ watcher' = "lost"
  BY <1>7, <1>8
<1>10. NewsKept
  BY <1>8, <1>9 DEF NewsKept
<1>11. row' \in Authority
  BY DEF CommitDeletion, RowTyped, Authority, Standings
<1>12. stored' \subseteq Issued
  BY DEF CommitDeletion
<1> QED
  BY <1>8, <1>10, <1>11, <1>12 DEF StoreTyped, RowTyped

LEMMA RevokeCredentialStep ==
    ASSUME AuthorityInv, NEW c \in Issued, RevokeCredential(c)
    PROVE  AuthorityInv'
<1> USE DEF AuthorityInv
<1>1. UNCHANGED <<watcher, held>> /\ UNCHANGED attachVars /\ stored' = stored \ {c}
      /\ row' = row /\ Announce(<<c>>)
  BY DEF RevokeCredential, watcherVars
<1>2. <<c>> \in Seq(News) /\ DOMAIN <<c>> = {1} /\ <<c>>[1] = c
  BY DEF News
<1>3. /\ notes' \in Seq(News)
      /\ \A x \in Issued : Announced(x) => Announced(x)'
      /\ \A i \in DOMAIN <<c>> : Announced(<<c>>[i])' \/ watcher' = "lost"
  BY <1>1, <1>2, AnnounceKeeps
<1>4. Announced(c)' \/ watcher' = "lost"
  BY <1>2, <1>3
<1>5. NewsKept
  BY <1>1, <1>3, <1>4 DEF NewsKept
<1>6. StoreTyped' /\ RowTyped'
  BY <1>1, <1>3 DEF StoreTyped, RowTyped
<1> QED
  BY <1>1, <1>5, <1>6, AttachStands, QuietStep

LEMMA ChangedElsewhereStep ==
    ASSUME AuthorityInv, ChangedElsewhere
    PROVE  AuthorityInv'
<1> USE DEF AuthorityInv
<1>1. UNCHANGED <<watcher, held>> /\ UNCHANGED attachVars
  BY DEF ChangedElsewhere, watcherVars
<1>2. {"Active", "Suspended"} \subseteq Standings
  BY DEF Standings
<1>3. StoreTyped' /\ RowTyped' /\ NewsKept
  BY <1>1, <1>2, CommitAccountKeeps, CommitDeletionKeeps DEF ChangedElsewhere
<1> QED
  BY <1>1, <1>3, AttachStands, QuietStep

\* What recover-administrator announces: every credential, and the account.
LEMMA RecoveryAnnounces ==
    ASSUME StoreTyped, RowTyped, RecoverAdministrator
    PROVE  /\ StoreTyped' /\ RowTyped' /\ NewsKept
           /\ Announced("Account")' \/ watcher' = "lost"
<1> DEFINE told == stored \cup {"Account"}
<1>1. PICK order \in SetToSeqs(told) : Announce(order)
  BY DEF RecoverAdministrator
<1>2. UNCHANGED watcher
  BY DEF RecoverAdministrator, watcherVars
<1>3. IsFiniteSet(told)
  <2>1. IsFiniteSet(stored)
    BY AuthorityAssumption, FS_Subset DEF StoreTyped
  <2> QED
    BY <2>1, FS_AddElement
<1>4. order \in Seq(told) /\ \A x \in told : Holds(order, x)
  <2> HIDE DEF told
  <2> QED
    BY <1>3, ListsAll
<1>5. order \in Seq(News)
  <2>1. told \subseteq News
    BY DEF News, StoreTyped
  <2> HIDE DEF told
  <2> QED
    BY <1>4, <2>1, SeqMonotonic, Zenon
<1>6. /\ notes' \in Seq(News)
      /\ \A c : Announced(c) => Announced(c)'
      /\ \A i \in DOMAIN order : Announced(order[i])' \/ watcher' = "lost"
  BY <1>1, <1>2, <1>5, AnnounceKeeps
<1>7. \A x \in told : Announced(x)' \/ watcher' = "lost"
  <2> HIDE DEF told
  <2> QED
    BY <1>4, <1>6 DEF Holds
<1>8. NewsKept
  BY <1>6, <1>7 DEF NewsKept
<1>9. row' \in Authority /\ stored' \subseteq Issued
  BY DEF RecoverAdministrator, RowTyped, Authority
<1> QED
  BY <1>6, <1>7, <1>8, <1>9 DEF StoreTyped, RowTyped

LEMMA RecoveryStep ==
    ASSUME AuthorityInv, RecoverAdministrator
    PROVE  AuthorityInv'
<1> USE DEF AuthorityInv
<1>1. UNCHANGED <<watcher, held>> /\ UNCHANGED attachVars
  BY DEF RecoverAdministrator, watcherVars
<1> QED
  BY <1>1, RecoveryAnnounces, AttachStands, QuietStep

-----------------------------------------------------------------------------
\* The changes made here, and the turns on the lane.

\* A revocation of the whole account keeps every ticket's answer.
LEMMA AccountRevoked ==
    ASSUME AttachTyped, RevokeAccount \/ UNCHANGED attachVars
    PROVE  AttachTyped' /\ AttachKept
<1>1. "Account" \in Revocable /\ Clients \in SUBSET Clients
  BY DEF Revocable
<1> QED
  BY <1>1, RevokeKeeps, AttachStands DEF RevokeAccount

\* A turn that commits nothing, and leaves the watcher where it was.
LEMMA TurnStep ==
    ASSUME AuthorityInv, RevokeAccount \/ UNCHANGED attachVars,
           UNCHANGED storeVars, UNCHANGED <<watcher, held>>
    PROVE  AuthorityInv'
<1> USE DEF AuthorityInv
<1> QED
  BY AccountRevoked, StoreStands, QuietStep

\* One that commits a change of the account.
LEMMA CommitStep ==
    ASSUME AuthorityInv, UNCHANGED attachVars, UNCHANGED <<watcher, held>>,
           \/ \E standing \in Standings : CommitAccount(standing)
           \/ CommitDeletion
           \/ UNCHANGED storeVars
    PROVE  AuthorityInv'
<1> USE DEF AuthorityInv
<1>1. StoreTyped' /\ RowTyped' /\ NewsKept
  BY CommitAccountKeeps, CommitDeletionKeeps, StoreStands
<1> QED
  BY <1>1, AttachStands, QuietStep

LEMMA LaneStep ==
    ASSUME AuthorityInv,
           \/ \E standing \in {"Active", "Suspended"} : SuspensionCommits(standing)
           \/ SuspensionApplies \/ PasswordCommits \/ PasswordApplies
           \/ DeletionRevokes \/ DeletionCommits \/ DeletionFails \/ FollowApplies
           \/ ResynchronizeReads
    PROVE  AuthorityInv'
<1>1. ASSUME NEW standing \in {"Active", "Suspended"}, SuspensionCommits(standing)
      PROVE  AuthorityInv'
  <2>1. UNCHANGED attachVars /\ UNCHANGED <<watcher, held>>
        /\ (CommitAccount(standing) \/ UNCHANGED storeVars)
    BY <1>1 DEF SuspensionCommits, watcherVars
  <2>2. standing \in Standings
    BY DEF Standings
  <2> QED
    BY <2>1, <2>2, CommitStep
<1>2. CASE SuspensionApplies \/ PasswordApplies \/ DeletionRevokes
           \/ FollowApplies \/ ResynchronizeReads
  <2>1. UNCHANGED storeVars /\ UNCHANGED <<watcher, held>>
        /\ (RevokeAccount \/ UNCHANGED attachVars)
    BY <1>2 DEF SuspensionApplies, PasswordApplies, DeletionRevokes,
                FollowApplies, ResynchronizeReads, Step, RecordOnly, watcherVars
  <2> QED
    BY <2>1, TurnStep
<1>3. CASE PasswordCommits
  <2>1. UNCHANGED attachVars /\ UNCHANGED <<watcher, held>> /\ CommitAccount("Active")
    BY <1>3 DEF PasswordCommits, watcherVars
  <2>2. "Active" \in Standings
    BY DEF Standings
  <2> QED
    BY <2>1, <2>2, CommitStep
<1>4. CASE DeletionCommits \/ DeletionFails
  <2>1. UNCHANGED attachVars /\ UNCHANGED <<watcher, held>>
        /\ (CommitDeletion \/ UNCHANGED storeVars)
    BY <1>4 DEF DeletionCommits, DeletionFails, watcherVars
  <2> QED
    BY <2>1, CommitStep
<1> QED
  BY <1>1, <1>2, <1>3, <1>4

-----------------------------------------------------------------------------
\* The watcher's steps.

\* The accounts' turn belongs to the watcher, and it holds issued credentials.
TurnInv == held \subseteq Issued /\ (lane = "resynchronize" => watcher = "accounts")

LEMMA TurnInit == Init => TurnInv
BY DEF Init, TurnInv

LEMMA TurnStays == TurnInv /\ [Next]_vars => TurnInv'
<1> SUFFICES ASSUME TurnInv, [Next]_vars
             PROVE  TurnInv'
  OBVIOUS
<1> USE DEF TurnInv
<1>1. ASSUME NEW k \in Clients,
             \/ TakeTicket(k) \/ Lease(k) \/ Leave(k)
             \/ \E c \in Issued \cup {Password} : Verify(k, c)
      PROVE  TurnInv'
  BY <1>1 DEF TakeTicket, Lease, Leave, Verify, laneVars, watcherVars
<1>2. CASE \/ UNCHANGED vars \/ RecoverAdministrator \/ ChangedElsewhere \/ HearRevoked
           \/ \E c \in Issued : RevokeCredential(c)
  BY <1>2 DEF vars, RecoverAdministrator, ChangedElsewhere, HearRevoked, RevokeCredential, laneVars, watcherVars
<1>3. CASE \/ \E standing \in {"Active", "Suspended"} : SuspensionCommits(standing)
           \/ SuspensionApplies \/ PasswordCommits \/ PasswordApplies
           \/ DeletionRevokes \/ DeletionCommits \/ DeletionFails
  BY <1>3 DEF SuspensionCommits, SuspensionApplies, PasswordCommits, PasswordApplies,
              DeletionRevokes, DeletionCommits, DeletionFails, watcherVars
<1>4. CASE FollowReads \/ FollowApplies \/ ListenerLost \/ Reconnect \/ Settle
           \/ ResynchronizeReads \/ ResynchronizeApplies \/ HeldCredentials
           \/ ReadStored \/ EndUnstored
  BY <1>4 DEF FollowReads, FollowApplies, ListenerLost, Reconnect, Settle, ResynchronizeReads,
              ResynchronizeApplies, HeldCredentials, ReadStored, EndUnstored, laneVars,
              watcherVars
<1> QED
  BY <1>1, <1>2, <1>3, <1>4 DEF Next

LEMMA HearRevokedStep ==
    ASSUME AuthorityInv, HearRevoked
    PROVE  AuthorityInv'
<1> USE DEF AuthorityInv
<1>1. PICK c \in Issued : c = Head(notes)
  BY DEF HearRevoked
<1>2. /\ notes # <<>> /\ notes' = Tail(notes) /\ Revoke(c, SignedInWith(c))
      /\ UNCHANGED <<row, stored>> /\ UNCHANGED <<watcher, held>>
  BY <1>1 DEF HearRevoked, watcherVars
<1>3. c \in Revocable /\ SignedInWith(c) \in SUBSET Clients
  BY DEF Revocable, SignedInWith
<1>4. /\ AttachTyped' /\ AttachKept
      /\ \A k \in Clients :
            /\ client'[k].at = "verified" =>
                   client'[k] = client[k] /\ revokedAt'[c] > client[k].ticket
            /\ Attached(k)' => client'[k] = client[k] /\ k \notin SignedInWith(c)
  BY <1>2, <1>3, RevokeKeeps
<1>5. notes \in Seq(News) /\ notes' \in Seq(News)
  BY <1>2, HeadTailProperties DEF StoreTyped
<1>6. \A x \in Issued : x # c /\ Announced(x) => Announced(x)'
  BY <1>1, <1>2, <1>5, TailKeeps, AnnouncedHolds
<1>7. ASSUME NEW k \in Clients
      PROVE  Answered(k)'
  <2> SUFFICES ASSUME client'[k].at = "verified", client'[k].credential \in Issued \ stored'
               PROVE  \/ Announced(client[k].credential)'
                      \/ watcher' \in {"lost", "settle"}
                      \/ RevokedSince(k, client[k].credential)' \/ RevokedSince(k, "Every")'
    BY <1>4 DEF Answered
  <2>1. client'[k] = client[k] /\ revokedAt'[c] > client[k].ticket /\ Answered(k)
    BY <1>4 DEF VerifiedAnswered
  <2>2. \A x \in Revocable : RevokedSince(k, x) => RevokedSince(k, x)'
    <3>1. client'[k].credential \notin stored' \cup {Password}
      BY AuthorityAssumption
    <3>2. \A x \in Revocable : RevokedSince(k, x) => revokedAt'[x] > client[k].ticket
      BY <1>4, <3>1 DEF AttachKept
    <3> QED
      BY <2>1, <3>2 DEF RevokedSince
  <2>3. CASE client[k].credential = c
    BY <2>1, <2>3 DEF RevokedSince
  <2>4. CASE client[k].credential # c
    <3>1. client[k].credential \in Revocable /\ "Every" \in Revocable
      BY <2>1 DEF Revocable
    <3> QED
      BY <1>2, <1>6, <2>1, <2>2, <2>4, <3>1 DEF Answered
  <2> QED
    BY <2>3, <2>4
<1>8. RevocationReaches'
  <2> SUFFICES ASSUME NEW k \in Clients, Attached(k)', client'[k].credential \in Issued \ stored'
               PROVE  \/ Announced(client[k].credential)'
                      \/ watcher' \in {"lost", "settle", "accounts", "credentials"}
                      \/ client'[k].credential \in held'
    BY <1>4 DEF RevocationReaches
  <2>1. client'[k] = client[k] /\ client[k].credential # c
    BY <1>4 DEF SignedInWith
  <2>2. Attached(k)
    BY <2>1 DEF Attached
  <2> QED
    BY <1>2, <1>6, <2>1, <2>2 DEF RevocationReaches
<1> QED
  BY <1>2, <1>4, <1>5, <1>7, <1>8 DEF StoreTyped, RowTyped, VerifiedAnswered

LEMMA FollowReadsStep ==
    ASSUME AuthorityInv, FollowReads
    PROVE  AuthorityInv'
<1> USE DEF AuthorityInv
<1>1. /\ notes # <<>> /\ Head(notes) = "Account" /\ notes' = Tail(notes)
      /\ UNCHANGED <<row, stored>> /\ UNCHANGED <<watcher, held>> /\ UNCHANGED attachVars
  BY DEF FollowReads, watcherVars
<1>2. notes \in Seq(News) /\ notes' \in Seq(News)
  BY <1>1, HeadTailProperties DEF StoreTyped
<1>3. \A x : x # "Account" /\ Announced(x) => Announced(x)'
  BY <1>1, <1>2, TailKeeps, AnnouncedHolds
<1>4. NewsKept
  BY <1>1, <1>3, AuthorityAssumption DEF NewsKept
<1>5. StoreTyped' /\ RowTyped'
  BY <1>1, <1>2 DEF StoreTyped, RowTyped
<1> QED
  BY <1>1, <1>4, <1>5, AttachStands, QuietStep

\* While the listener is lost, or has yet to settle, everything is still to come.
LEMMA LostStep ==
    ASSUME AuthorityInv, ListenerLost \/ Reconnect
    PROVE  AuthorityInv'
<1> USE DEF AuthorityInv
<1>1. /\ watcher' \in {"lost", "settle"} /\ UNCHANGED <<row, stored>> /\ UNCHANGED attachVars
      /\ (notes' = <<>> \/ notes' = notes)
  BY DEF ListenerLost, Reconnect, storeVars
<1>2. StoreTyped' /\ RowTyped'
  <2>1. <<>> \in Seq(News)
    BY EmptySeq
  <2> QED
    BY <1>1, <2>1 DEF StoreTyped, RowTyped
<1> QED
  BY <1>1, <1>2, AttachStands DEF VerifiedAnswered, Answered, RevocationReaches

LEMMA SettleStep ==
    ASSUME AuthorityInv, Settle
    PROVE  AuthorityInv'
<1> USE DEF AuthorityInv
<1>1. watcher' = "accounts" /\ Revoke("Every", {}) /\ UNCHANGED storeVars
  BY DEF Settle
<1>2. "Every" \in Revocable /\ {} \in SUBSET Clients
  BY DEF Revocable
<1>3. /\ AttachTyped'
      /\ \A k \in Clients : client'[k].at = "verified" =>
             client'[k] = client[k] /\ revokedAt'["Every"] > client[k].ticket
  BY <1>1, <1>2, RevokeKeeps
<1>4. VerifiedAnswered' /\ RevocationReaches'
  BY <1>1, <1>3 DEF VerifiedAnswered, Answered, RevokedSince, RevocationReaches
<1> QED
  BY <1>1, <1>3, <1>4, StoreStands

\* The watcher moves on, and what attachments and verdicts rest on does not.
LEMMA WatcherMoves ==
    ASSUME AuthorityInv, UNCHANGED storeVars, AttachTyped', AttachKept,
           watcher \notin {"lost", "settle"}, RevocationReaches'
    PROVE  AuthorityInv'
<1> USE DEF AuthorityInv
<1>1. ASSUME NEW k \in Clients
      PROVE  Answered(k)'
  <2> SUFFICES ASSUME client'[k].at = "verified", client'[k].credential \in Issued \ stored'
               PROVE  \/ Announced(client[k].credential)'
                      \/ watcher' \in {"lost", "settle"}
                      \/ RevokedSince(k, client[k].credential)' \/ RevokedSince(k, "Every")'
    BY DEF Answered
  <2>1. client'[k] = client[k] /\ Answered(k)
        /\ \A x \in Revocable : RevokedSince(k, x) => revokedAt'[x] > client[k].ticket
    BY AuthorityAssumption DEF AttachKept, VerifiedAnswered, storeVars
  <2>2. \A x \in Revocable : RevokedSince(k, x) => RevokedSince(k, x)'
    BY <2>1 DEF RevokedSince
  <2>3. client[k].credential \in Revocable /\ "Every" \in Revocable
    BY <2>1 DEF Revocable
  <2> QED
    BY <2>1, <2>2, <2>3 DEF Answered, storeVars, Announced
<1> QED
  BY <1>1, StoreStands DEF VerifiedAnswered

LEMMA ResynchronizeAppliesStep ==
    ASSUME AuthorityInv, TurnInv, ResynchronizeApplies
    PROVE  AuthorityInv'
<1>1. watcher' = "credentials" /\ UNCHANGED storeVars /\ (RevokeAccount \/ UNCHANGED attachVars)
      /\ watcher = "accounts"
  BY DEF ResynchronizeApplies, Step, RecordOnly, TurnInv
<1>2. RevocationReaches'
  BY <1>1 DEF RevocationReaches
<1> QED
  BY <1>1, <1>2, AccountRevoked, WatcherMoves DEF AuthorityInv

LEMMA HeldCredentialsStep ==
    ASSUME AuthorityInv, HeldCredentials
    PROVE  AuthorityInv'
<1>1. /\ watcher = "credentials" /\ UNCHANGED storeVars /\ UNCHANGED attachVars
      /\ held' = {client[k].credential : k \in {j \in Clients : Attached(j)}} \cap Issued
  BY DEF HeldCredentials
<1>2. RevocationReaches'
  BY <1>1 DEF RevocationReaches, Attached, attachVars
<1> QED
  BY <1>1, <1>2, AttachStands, WatcherMoves DEF AuthorityInv

LEMMA ReadStoredStep ==
    ASSUME AuthorityInv, ReadStored
    PROVE  AuthorityInv'
<1>1. /\ watcher = "stored" /\ UNCHANGED storeVars /\ UNCHANGED attachVars
      /\ held' = held \ stored
  BY DEF ReadStored
<1>2. RevocationReaches'
  BY <1>1 DEF AuthorityInv, RevocationReaches, Attached, attachVars, storeVars, Announced
<1> QED
  BY <1>1, <1>2, AttachStands, WatcherMoves DEF AuthorityInv

LEMMA EndUnstoredStep ==
    ASSUME AuthorityInv, TurnInv, EndUnstored
    PROVE  AuthorityInv'
<1> USE DEF AuthorityInv
<1>1. watcher = "ending" /\ UNCHANGED storeVars
  BY DEF EndUnstored
<1>2. CASE held = {}
  <2>1. UNCHANGED attachVars
    BY <1>2 DEF EndUnstored
  <2>2. RevocationReaches'
    BY <1>1, <1>2, <2>1 DEF RevocationReaches, Attached, attachVars, storeVars, Announced
  <2> QED
    BY <1>1, <2>1, <2>2, AttachStands, WatcherMoves
<1>3. CASE held # {}
  <2>1. PICK c \in held : Revoke(c, SignedInWith(c)) /\ held' = held \ {c}
                          /\ UNCHANGED watcher
    BY <1>3 DEF EndUnstored
  <2>2. c \in Issued
    BY DEF TurnInv
  <2>3. c \in Revocable /\ SignedInWith(c) \in SUBSET Clients
    BY <2>2 DEF Revocable, SignedInWith
  <2>4. /\ AttachTyped' /\ AttachKept
        /\ \A k \in Clients : Attached(k)' => client'[k] = client[k] /\ k \notin SignedInWith(c)
    BY <2>1, <2>3, RevokeKeeps
  <2>5. \A k \in Clients : Attached(k)' => Attached(k) /\ client'[k].credential # c
                                           /\ client'[k].credential = client[k].credential
    BY <2>4 DEF Attached, SignedInWith
  <2>6. RevocationReaches'
    BY <1>1, <2>1, <2>5 DEF RevocationReaches, storeVars, Announced
  <2> QED
    BY <1>1, <2>4, <2>6, WatcherMoves
<1> QED
  BY <1>2, <1>3

-----------------------------------------------------------------------------

LEMMA AuthorityInit == Init => AuthorityInv
<1> SUFFICES ASSUME Init
             PROVE  AuthorityInv
  OBVIOUS
<1>1. StoreTyped
  <2>1. <<>> \in Seq(News)
    BY EmptySeq
  <2> QED
    BY <2>1 DEF Init, StoreTyped
<1>2. New \in Attach /\ New.at = "new" /\ New.ticket = 0
  BY DEF New, Client, Attach
<1>3. AttachTyped
  BY <1>2 DEF Init, AttachTyped
<1>4. \A k \in Clients : client[k].at = "new"
  BY <1>2 DEF Init
<1> QED
  BY <1>1, <1>3, <1>4
     DEF Init, AuthorityInv, RowTyped, Authority, Standings,
         VerifiedAnswered, Answered, RevocationReaches, Attached

\* The authority's invariant holds over every order of sign-ins, revocations,
\* changes of the account, turns on the lane and losses of the listener.
THEOREM AuthorityInvariant == Spec => []AuthorityInv
<1>1. AuthorityInv /\ TurnInv /\ [Next]_vars => AuthorityInv'
  <2> SUFFICES ASSUME AuthorityInv, TurnInv, [Next]_vars
               PROVE  AuthorityInv'
    OBVIOUS
  <2>1. CASE UNCHANGED vars
    <3>1. UNCHANGED attachVars /\ UNCHANGED storeVars /\ UNCHANGED <<watcher, held>>
      BY <2>1 DEF vars, watcherVars
    <3> QED
      BY <3>1, TurnStep
  <2> QED
    BY <2>1, ClientStep, RevokeCredentialStep, RecoveryStep, ChangedElsewhereStep, LaneStep,
       HearRevokedStep, FollowReadsStep, LostStep, SettleStep, ResynchronizeAppliesStep,
       HeldCredentialsStep, ReadStoredStep, EndUnstoredStep DEF Next
<1> QED
  BY <1>1, AuthorityInit, TurnInit, TurnStays, PTL DEF Spec

\* An attachment that a revoked app password signed in has its end on the way,
\* whichever process revoked it and however the revocation crossed the sign-in,
\* the lease and the listener's reconnection (AccountRevocations::lease,
\* resynchronize, end_credential_here).
THEOREM RevocationsReach == Spec => []RevocationReaches
<1>1. AuthorityInv => RevocationReaches
  BY DEF AuthorityInv
<1> QED
  BY <1>1, AuthorityInvariant, PTL

-----------------------------------------------------------------------------
\* A change of the account reaches its attachments.

\* An attachment, or a checked credential that will be one, unless it was passed
\* over.
Live(k) ==
    /\ k \notin passedOver
    /\ Attached(k) \/ (client[k].at = "verified" /\ ~RevokedSince(k, "Account"))
NoneLive == \A k \in Clients : ~Live(k)
Checked(generation) == \A k \in Clients : Live(k) => client[k].checkedAt >= generation

Following == lane \in {"follow", "resynchronize"}
Reading == lane = "suspension" \/ Following
Rereads == watcher \in {"lost", "settle", "accounts"}

\* v is the row or was, or is of the generation at which it has been deleted.
Behind(v) ==
    /\ v.generation <= row.generation
    /\ v.generation = row.generation => v.standing = row.standing \/ row.standing = "Deleted"

\* No credential is checked of a suspended account.
Apart(v) ==
    v.standing = "Suspended" => \A k \in Clients : Live(k) => client[k].checkedAt # v.generation

ChangeTyped ==
    /\ ledger \in Authority /\ read \in Authority /\ changed \subseteq Authority
    /\ passedOver \subseteq Clients

\* What is live was checked against the row or what it was, and is no older than
\* what is recorded.
Current == Apart(row) /\ \A k \in Clients : Live(k) => client[k].checkedAt <= row.generation
Recorded == Behind(ledger) /\ Apart(ledger) /\ Checked(ledger.generation)
Waiting == \A a \in changed : Behind(a) /\ a.standing = "Active"

\* A row that was read is the row, or the row's change is still to be followed.
ReadTurn ==
    Reading =>
        /\ Behind(read) /\ Apart(read)
        /\ read = row \/ Announced("Account") \/ (lane = "suspension" /\ Rereads)
        /\ lane = "suspension" => read.standing # "Deleted"
        /\ Following => watcher \in {"listening", "accounts"}
        /\ read.standing = "Deleted" => row.standing = "Deleted"

DeletedHere == ledger.standing = "Deleted" => row.standing = "Deleted" /\ NoneLive

\* ChangeReaches, of the checked credentials too.
LiveReached == ~ChangeComing => \A k \in Clients : Live(k) => ~Outdated(k)

ChangeInv ==
    ChangeTyped /\ Current /\ Recorded /\ Waiting /\ ReadTurn /\ DeletedHere /\ LiveReached

Typed == AttachTyped /\ RowTyped /\ StoreTyped

LEMMA Generations ==
    ASSUME Typed, ChangeTyped
    PROVE  /\ row.generation \in Nat /\ ledger.generation \in Nat /\ read.generation \in Nat
           /\ \A a \in changed : a.generation \in Nat
           /\ \A k \in Clients : client[k].checkedAt \in Nat
           /\ row.standing \in Standings /\ ledger.standing \in Standings
           /\ read.standing \in Standings
BY DEF Typed, AttachTyped, Attach, RowTyped, ChangeTyped, Authority

\* The step ends attachments, or turns checked credentials into them, and
\* begins no other.
Kept ==
    \A k \in Clients : Live(k)' => Live(k) /\ client'[k].checkedAt = client[k].checkedAt

LEMMA KeptShrinks ==
    ASSUME Kept
    PROVE  /\ NoneLive => NoneLive'
           /\ \A g : Checked(g) => Checked(g)'
           /\ \A v : Apart(v) => Apart(v)'
BY DEF Kept, NoneLive, Checked, Apart

LEMMA AttachStandsKept ==
    ASSUME UNCHANGED attachVars, passedOver \subseteq passedOver'
    PROVE  Kept
BY DEF Kept, attachVars, Live, Attached, RevokedSince

LEMMA RevokeEnds ==
    ASSUME AttachTyped, NEW what \in Revocable, NEW ends \in SUBSET Clients, Revoke(what, ends),
           UNCHANGED passedOver
    PROVE  Kept /\ (what = "Account" /\ ends = Clients => NoneLive')
<1>1. \A k \in Clients :
         /\ client'[k].at = "verified" =>
                /\ client'[k] = client[k] /\ revokedAt'[what] > client[k].ticket
                /\ \A x \in Revocable : RevokedSince(k, x) => revokedAt'[x] > client[k].ticket
         /\ Attached(k)' => client'[k] = client[k] /\ k \notin ends
  BY RevokeKeeps
<1>2. "Account" \in Revocable
  BY DEF Revocable
<1>3. Kept
  BY <1>1, <1>2 DEF Kept, Live, Attached, RevokedSince
<1>4. what = "Account" /\ ends = Clients => NoneLive'
  BY <1>1 DEF NoneLive, Live, RevokedSince
<1> QED
  BY <1>3, <1>4

LEMMA RevokeAccountEnds ==
    ASSUME AttachTyped, RevokeAccount, UNCHANGED passedOver
    PROVE  NoneLive'
<1>1. "Account" \in Revocable /\ Clients \in SUBSET Clients
  BY DEF Revocable
<1> QED
  BY <1>1, RevokeEnds DEF RevokeAccount

\* One client's step keeps every other's.
LEMMA MoveKept ==
    ASSUME AttachTyped, NEW k \in Clients, NEW c \in Attach, c.ticket <= epoch,
           client' = [client EXCEPT ![k] = c], UNCHANGED <<epoch, passedOver>>,
           \/ revokedAt' = Pruned(revokedAt, Outstanding \ {k})
           \/ revokedAt' = revokedAt
    PROVE  /\ client'[k] = c
           /\ \A j \in Clients \ {k} :
                  Live(j)' => Live(j) /\ client'[j].checkedAt = client[j].checkedAt
<1>1. /\ client'[k] = c
      /\ \A j \in Clients \ {k} :
            /\ client'[j] = client[j]
            /\ client[j].at = "verified" =>
                   \A x \in Revocable : RevokedSince(j, x) => revokedAt'[x] > client[j].ticket
  BY ClientMoves
<1>2. "Account" \in Revocable
  BY DEF Revocable
<1> QED
  BY <1>1, <1>2 DEF Live, Attached, RevokedSince

LEMMA ClientKept ==
    ASSUME AttachTyped, NEW k \in Clients, TakeTicket(k) \/ Lease(k) \/ Leave(k)
    PROVE  Kept
<1>1. client \in [Clients -> Attach] /\ client[k] \in Attach /\ client[k].ticket <= epoch
      /\ epoch \in Nat
  BY DEF AttachTyped
<1>2. Over \in Attach /\ Over.at = "over" /\ Over.ticket <= epoch
  BY <1>1 DEF Over, Client, Attach
<1>3. CASE TakeTicket(k)
  <2> DEFINE c == Client("handshake", epoch, Password, 0)
  <2>1. c \in Attach /\ c.at = "handshake" /\ c.ticket <= epoch
    BY <1>1 DEF Client, Attach
  <2>2. client' = [client EXCEPT ![k] = c] /\ UNCHANGED <<epoch, revokedAt, passedOver>>
    BY <1>3 DEF TakeTicket, laneVars
  <2> HIDE DEF c
  <2>3. /\ client'[k] = c
        /\ \A j \in Clients \ {k} :
               Live(j)' => Live(j) /\ client'[j].checkedAt = client[j].checkedAt
    BY <2>1, <2>2, MoveKept
  <2>4. ~Live(k)'
    BY <2>1, <2>3 DEF Live, Attached
  <2> QED
    BY <2>3, <2>4 DEF Kept
<1>4. CASE Leave(k)
  <2>1. client' = [client EXCEPT ![k] = Over] /\ UNCHANGED <<epoch, passedOver>>
        /\ (revokedAt' = Pruned(revokedAt, Outstanding \ {k}) \/ revokedAt' = revokedAt)
    BY <1>4 DEF Leave, laneVars
  <2>2. /\ client'[k] = Over
        /\ \A j \in Clients \ {k} :
               Live(j)' => Live(j) /\ client'[j].checkedAt = client[j].checkedAt
    BY <1>2, <2>1, MoveKept
  <2>3. ~Live(k)'
    BY <1>2, <2>2 DEF Live, Attached
  <2> QED
    BY <2>2, <2>3 DEF Kept
<1>5. CASE Lease(k)
  <2> DEFINE refused == \E what \in {"Account", "Every", client[k].credential} \ {Password} :
                            RevokedSince(k, what)
             c == Client("attached", 0, client[k].credential, client[k].checkedAt)
  <2>1. /\ client' = [client EXCEPT ![k] = IF refused THEN Over ELSE c]
        /\ UNCHANGED <<epoch, passedOver>>
        /\ revokedAt' = Pruned(revokedAt, Outstanding \ {k})
        /\ client[k].at = "verified"
    BY <1>1, <1>5 DEF Lease, laneVars
  <2>2. c \in Attach /\ c.at = "attached" /\ c.ticket <= epoch
        /\ c.checkedAt = client[k].checkedAt
    BY <1>1 DEF Client, Attach
  <2>3. ~refused /\ k \notin passedOver => Live(k)
    BY <2>1, AuthorityAssumption DEF Live
  <2> HIDE DEF c, refused
  <2>4. /\ client'[k] = IF refused THEN Over ELSE c
        /\ \A j \in Clients \ {k} :
               Live(j)' => Live(j) /\ client'[j].checkedAt = client[j].checkedAt
    <3>1. CASE refused
      BY <1>2, <2>1, <3>1, MoveKept
    <3>2. CASE ~refused
      BY <2>1, <2>2, <3>2, MoveKept
    <3> QED
      BY <3>1, <3>2
  <2>5. Live(k)' => Live(k) /\ client'[k].checkedAt = client[k].checkedAt
    BY <1>2, <2>1, <2>2, <2>3, <2>4 DEF Live, Attached
  <2> QED
    BY <2>4, <2>5 DEF Kept
<1> QED
  BY <1>3, <1>4, <1>5

-----------------------------------------------------------------------------
\* What keeps the change coming.

\* A committed change of the account is announced, or the listener is lost.
LEMMA AccountAnnounced ==
    ASSUME Typed, UNCHANGED watcher,
           \/ \E standing \in Standings : CommitAccount(standing)
           \/ CommitDeletion \/ RecoverAdministrator
    PROVE  Announced("Account")' \/ watcher' = "lost"
<1> USE DEF Typed
<1>1. <<"Account">> \in Seq(News) /\ DOMAIN <<"Account">> = {1} /\ <<"Account">>[1] = "Account"
  BY DEF News
<1>2. Holds(<<"Account">>, "Account")
  BY <1>1 DEF Holds
<1>3. ASSUME NEW announced \in Seq(News), Announce(announced), Holds(announced, "Account")
      PROVE  Announced("Account")' \/ watcher' = "lost"
  <2>1. \A i \in DOMAIN announced : Announced(announced[i])' \/ watcher' = "lost"
    BY <1>3, AnnounceKeeps
  <2> QED
    BY <1>3, <2>1 DEF Holds
<1>4. ASSUME NEW standing \in Standings, CommitAccount(standing)
      PROVE  Announced("Account")' \/ watcher' = "lost"
  BY <1>1, <1>2, <1>3, <1>4 DEF CommitAccount
<1>5. CASE CommitDeletion
  <2>1. PICK order \in SetToSeqs(stored) : Announce(order \o <<"Account">>)
    BY <1>5 DEF CommitDeletion
  <2>2. IsFiniteSet(stored)
    BY AuthorityAssumption, FS_Subset DEF StoreTyped
  <2>3. order \in Seq(stored)
    BY <2>2, ListsAll
  <2>4. stored \subseteq News
    BY DEF News, StoreTyped
  <2>5. order \in Seq(News)
    BY <2>3, <2>4, SeqMonotonic, Zenon
  <2>6. order \o <<"Account">> \in Seq(News)
    BY <1>1, <2>5, ConcatProperties
  <2>7. Holds(order \o <<"Account">>, "Account")
    BY <1>1, <1>2, <2>5, AnnounceAppends
  <2> QED
    BY <1>3, <2>1, <2>6, <2>7
<1> QED
  BY <1>4, <1>5, RecoveryAnnounces

\* A step outside the account's row, but for what was read on the lane.
LEMMA SideStep ==
    ASSUME Typed, ChangeInv, Kept, UNCHANGED <<row, ledger, read, changed, passedOver>>,
           lane' = lane \/ (lane = "deletion" /\ lane' = "free"),
           Announced("Account") => Announced("Account")' \/ (watcher' = "lost" /\ ~Following),
           Rereads => Rereads', Following => UNCHANGED watcher
    PROVE  ChangeInv'
<1> USE DEF ChangeInv
<1>1. /\ NoneLive => NoneLive'
      /\ \A g : Checked(g) => Checked(g)'
      /\ \A v : Apart(v) => Apart(v)'
  BY KeptShrinks
<1>2. \A v : Behind(v) => Behind(v)'
  BY DEF Behind
<1>3. Current' /\ ChangeTyped' /\ Waiting'
  BY <1>1, <1>2 DEF Current, ChangeTyped, Waiting, Kept
<1>4. Recorded'
  BY <1>1, <1>2 DEF Recorded
<1>5. ReadTurn'
  BY <1>1, <1>2 DEF ReadTurn, Reading, Following, Rereads
<1>6. DeletedHere'
  BY <1>1 DEF DeletedHere
<1>7. LiveReached'
  <2>1. ChangeComing => ChangeComing'
    BY DEF ChangeComing, Rereads
  <2>2. \A k \in Clients : Live(k)' => Live(k) /\ (Outdated(k)' => Outdated(k))
    BY DEF Kept, Outdated
  <2> QED
    BY <2>1, <2>2 DEF LiveReached
<1> QED
  BY <1>3, <1>4, <1>5, <1>6, <1>7

\* A credential is checked: against the row as it is.
LEMMA VerifyStep ==
    ASSUME Typed, ChangeInv, NEW k \in Clients, NEW d \in Issued \cup {Password}, Verify(k, d)
    PROVE  ChangeInv'
<1> USE DEF ChangeInv
<1>1. /\ row.standing = "Active"
      /\ UNCHANGED <<row, notes, ledger, lane, read, changed, passedOver, watcher>>
  BY DEF Verify, storeVars, laneVars, watcherVars
<1>2. client[k] \in Attach /\ client[k].ticket <= epoch /\ row.generation \in Nat
  BY Generations DEF Typed, AttachTyped
<1> DEFINE c == Client("verified", client[k].ticket, d, row.generation)
<1>3. c \in Attach /\ c.ticket <= epoch /\ c.checkedAt = row.generation
  BY <1>2 DEF Client, Attach
<1>4. client' = [client EXCEPT ![k] = c] /\ UNCHANGED <<epoch, revokedAt>>
  BY DEF Verify, Typed, AttachTyped
<1> HIDE DEF c
<1>5. /\ client'[k].checkedAt = row.generation
      /\ \A j \in Clients \ {k} :
             Live(j)' => Live(j) /\ client'[j].checkedAt = client[j].checkedAt
  BY <1>1, <1>3, <1>4, MoveKept DEF Typed
<1>6. ASSUME NEW g \in Nat, g <= row.generation, Checked(g)
      PROVE  Checked(g)'
  <2>1. row.generation >= g
    BY <1>2, <1>6
  <2> QED
    BY <1>5, <1>6, <2>1 DEF Checked
<1>7. ASSUME NEW v, Behind(v), Apart(v)
      PROVE  Apart(v)'
  BY <1>1, <1>5, <1>7 DEF Apart, Behind
<1>8. \A v : Behind(v) => Behind(v)'
  BY <1>1 DEF Behind
<1>9. ChangeTyped' /\ DeletedHere' /\ Waiting'
  BY <1>1, <1>8 DEF ChangeTyped, DeletedHere, Waiting
<1>10. Recorded'
  BY <1>1, <1>6, <1>7, <1>8, Generations DEF Recorded, Behind
<1>11. Current'
  <2>1. Behind(row)
    BY <1>2 DEF Behind
  <2>2. Apart(row)'
    BY <1>1, <1>7, <2>1 DEF Current
  <2>3. row.generation <= row.generation
    BY <1>2
  <2> QED
    BY <1>1, <1>5, <2>2, <2>3 DEF Current
<1>12. ReadTurn'
  BY <1>1, <1>7, <1>8 DEF ReadTurn, Reading, Following, Rereads, Announced
<1>13. LiveReached'
  <2>1. ChangeComing => ChangeComing'
    BY <1>1 DEF ChangeComing, Announced
  <2>2. ~Outdated(k)'
    BY <1>1, <1>2, <1>5 DEF Outdated
  <2>3. \A j \in Clients \ {k} : Live(j)' => Live(j) /\ (Outdated(j)' => Outdated(j))
    BY <1>1, <1>5 DEF Outdated
  <2> QED
    BY <1>1, <2>1, <2>2, <2>3 DEF LiveReached
<1> QED
  BY <1>9, <1>10, <1>11, <1>12, <1>13

\* What a commit does to the row.
Grows ==
    /\ row.standing # "Deleted"
    /\ \/ row'.generation > row.generation
       \/ row'.generation = row.generation /\ row'.standing = "Deleted"

LEMMA GrowsBehind ==
    ASSUME row.generation \in Nat, row'.generation \in Nat, Grows
    PROVE  \A v : v.generation \in Nat /\ Behind(v) => Behind(v)'
BY DEF Grows, Behind

\* A change of the account is committed, on the lane or off it.
LEMMA CommitReaches ==
    ASSUME Typed, ChangeInv, UNCHANGED attachVars, RowTyped', Grows,
           UNCHANGED <<ledger, passedOver, watcher>>,
           Announced("Account")' \/ watcher' = "lost",
           \/ lane' \in {lane, "free"} /\ read' = read
           \/ lane' = "suspension" /\ read' = row' /\ row'.standing # "Deleted",
           \/ changed' = changed
           \/ changed' = changed \cup {row'} /\ row'.standing = "Active"
    PROVE  ChangeInv'
<1> USE DEF ChangeInv
<1>1. /\ NoneLive => NoneLive'
      /\ \A g : Checked(g) => Checked(g)'
      /\ \A v : Apart(v) => Apart(v)'
  BY AttachStandsKept, KeptShrinks
<1>2. row.generation \in Nat /\ row'.generation \in Nat /\ row' \in Authority
      /\ ledger.generation \in Nat /\ read.generation \in Nat
  BY Generations DEF RowTyped, Authority
<1>3. \A v : v.generation \in Nat /\ Behind(v) => Behind(v)'
  BY <1>2, GrowsBehind
<1>4. ChangeTyped'
  BY <1>2 DEF ChangeTyped
<1>5. Current'
  <2>1. ASSUME NEW k \in Clients, Live(k)'
        PROVE  /\ client'[k].checkedAt <= row'.generation
               /\ row'.standing # "Deleted" => client'[k].checkedAt # row'.generation
    <3>1. Live(k) /\ client'[k].checkedAt = client[k].checkedAt
      BY <2>1, AttachStandsKept DEF Kept
    <3>2. client[k].checkedAt \in Nat /\ client[k].checkedAt <= row.generation
      BY <3>1, Generations DEF Current
    <3> QED
      BY <1>2, <3>1, <3>2 DEF Grows
  <2> QED
    BY <2>1 DEF Current, Apart
<1>6. Recorded'
  BY <1>1, <1>2, <1>3 DEF Recorded
<1>7. Waiting'
  <2>1. ASSUME NEW a \in changed
        PROVE  Behind(a)' /\ a.standing = "Active"
    BY <1>3, Generations DEF Waiting
  <2>2. ASSUME NEW a, a = row'
        PROVE  Behind(a)'
    BY <1>2, <2>2 DEF Behind
  <2> QED
    BY <2>1, <2>2 DEF Waiting
<1>8. ReadTurn'
  <2>1. CASE lane' = "suspension" /\ read' = row' /\ row'.standing # "Deleted"
    BY <1>2, <1>5, <2>1 DEF ReadTurn, Reading, Following, Behind, Current
  <2>2. CASE lane' \in {lane, "free"} /\ read' = read
    BY <1>1, <1>2, <1>3, <2>2 DEF ReadTurn, Reading, Following, Rereads, Grows
  <2> QED
    BY <2>1, <2>2
<1>9. DeletedHere' /\ LiveReached'
  BY <1>1 DEF DeletedHere, Grows, LiveReached, ChangeComing
<1> QED
  BY <1>4, <1>5, <1>6, <1>7, <1>8, <1>9

LEMMA Commits ==
    ASSUME Typed, UNCHANGED watcher,
           \/ \E standing \in {"Active", "Suspended"} :
                 CommitAccount(standing) /\ row'.standing = standing
           \/ CommitDeletion \/ RecoverAdministrator
    PROVE  /\ RowTyped' /\ Grows
           /\ Announced("Account")' \/ watcher' = "lost"
<1> USE DEF Typed
<1>1. {"Active", "Suspended"} \subseteq Standings /\ row.generation \in Nat
  BY DEF Standings, RowTyped, Authority
<1>2. RowTyped' /\ (Announced("Account")' \/ watcher' = "lost")
  BY <1>1, CommitAccountKeeps, CommitDeletionKeeps, RecoveryAnnounces, AccountAnnounced
<1>3. Grows
  BY <1>1 DEF Grows, CommitAccount, CommitDeletion, RecoverAdministrator, RowTyped, Authority
<1> QED
  BY <1>2, <1>3

LEMMA ElsewhereStep ==
    ASSUME Typed, ChangeInv, RecoverAdministrator \/ ChangedElsewhere \/ PasswordCommits
    PROVE  ChangeInv'
<1>1. UNCHANGED attachVars /\ UNCHANGED <<ledger, lane, read, passedOver, watcher>>
  BY DEF RecoverAdministrator, ChangedElsewhere, PasswordCommits, laneVars, watcherVars
<1>2. /\ changed' = changed \/ (changed' = changed \cup {row'} /\ row'.standing = "Active")
      /\ \/ \E standing \in {"Active", "Suspended"} :
               CommitAccount(standing) /\ row'.standing = standing
         \/ CommitDeletion \/ RecoverAdministrator
  BY DEF RecoverAdministrator, ChangedElsewhere, PasswordCommits, CommitAccount, laneVars
<1> QED
  BY <1>1, <1>2, Commits, CommitReaches

LEMMA SuspensionCommitsStep ==
    ASSUME Typed, ChangeInv, NEW standing \in {"Active", "Suspended"},
           SuspensionCommits(standing)
    PROVE  ChangeInv'
<1>1. /\ lane = "free" /\ row.standing # "Deleted"
      /\ UNCHANGED attachVars /\ UNCHANGED <<ledger, changed, passedOver, watcher>>
      /\ (lane' = "suspension" /\ read' = row') \/ (lane' = lane /\ read' = read)
  BY DEF SuspensionCommits, watcherVars
<1>2. CASE standing # row.standing
  <2>1. CommitAccount(standing) /\ row'.standing = standing
    BY <1>2 DEF SuspensionCommits, CommitAccount
  <2> QED
    BY <1>1, <2>1, Commits, CommitReaches
<1>3. CASE standing = row.standing
  <2>1. UNCHANGED <<row, notes>>
    BY <1>3 DEF SuspensionCommits, storeVars
  <2>2. Kept
    BY <1>1, AttachStandsKept
  <2>3. CASE lane' = lane /\ read' = read
    BY <1>1, <2>1, <2>2, <2>3, SideStep DEF Announced, Rereads
  <2>4. CASE lane' = "suspension" /\ read' = row'
    <3> USE DEF ChangeInv
    <3>1. /\ NoneLive => NoneLive'
          /\ \A g : Checked(g) => Checked(g)'
          /\ \A v : Apart(v) => Apart(v)'
      BY <2>2, KeptShrinks
    <3>2. \A v : Behind(v) => Behind(v)'
      BY <2>1 DEF Behind
    <3>3. row \in Authority /\ row.generation \in Nat
      BY Generations DEF Typed, RowTyped
    <3>4. ChangeTyped' /\ Waiting' /\ Recorded' /\ DeletedHere'
      BY <1>1, <2>1, <2>4, <3>1, <3>2, <3>3 DEF ChangeTyped, Waiting, Recorded, DeletedHere
    <3>5. Current'
      BY <2>1, <2>2, <3>1 DEF Current, Kept
    <3>6. ReadTurn' /\ LiveReached'
      BY <1>1, <2>1, <2>4, <3>3, <3>5
         DEF ReadTurn, Reading, Following, Behind, Current, LiveReached, ChangeComing
    <3> QED
      BY <3>4, <3>5, <3>6
  <2> QED
    BY <1>1, <2>3, <2>4
<1> QED
  BY <1>2, <1>3

LEMMA UnreadTyped == Unread \in Authority /\ Unread.generation = 0 /\ Unread.standing = "Active"
BY DEF Unread, Authority, Standings

\* A turn that records and ends nothing leaves live only what is as new as what
\* it read: what is older was refused or ended by the suspension before it, or is
\* passed over.
LEMMA RecordOnlyLeaves ==
    ASSUME Typed, ChangeInv, RecordOnly
    PROVE  /\ Kept /\ passedOver' \subseteq Clients
           /\ \A k \in Clients : Live(k)' => client'[k].checkedAt >= read.generation
<1> USE DEF ChangeInv
<1>1. UNCHANGED attachVars /\ passedOver \subseteq passedOver' /\ passedOver' \subseteq Clients
  BY DEF RecordOnly, ChangeTyped, SignedIn
<1>2. Kept
  BY <1>1, AttachStandsKept
<1> SUFFICES ASSUME NEW k \in Clients, Live(k)'
             PROVE  client'[k].checkedAt >= read.generation
  BY <1>1, <1>2
<1>3. Live(k) /\ client'[k].checkedAt = client[k].checkedAt
  BY <1>2 DEF Kept
<1>4. client[k].checkedAt \in Nat /\ read.generation \in Nat /\ ledger.generation \in Nat
  BY Generations
<1>5. CASE ledger.standing = "Suspended" /\ read.generation = ledger.generation + 1
  <2>1. client[k].checkedAt >= ledger.generation /\ client[k].checkedAt # ledger.generation
    BY <1>3, <1>5 DEF Recorded, Checked, Apart
  <2> QED
    BY <1>3, <1>4, <1>5, <2>1
<1>6. CASE ~(ledger.standing = "Suspended" /\ read.generation = ledger.generation + 1)
  <2>1. k \in SignedIn /\ k \notin passedOver'
    BY <1>3 DEF SignedIn, Live, Attached
  <2>2. ~(client[k].checkedAt < read.generation)
    BY <1>6, <2>1 DEF RecordOnly
  <2> QED
    BY <1>3, <1>4, <2>2
<1> QED
  BY <1>5, <1>6

\* A turn records what it read, having ended what that asks.
LEMMA TurnRecords ==
    ASSUME Typed, ChangeInv, AttachTyped', Reading, lane' = "free",
           ledger' = read, read' = Unread, UNCHANGED <<row, notes, changed>>,
           passedOver' \subseteq Clients, Kept,
           \A k \in Clients : Live(k)' => client'[k].checkedAt >= read.generation,
           read.standing = "Deleted" => NoneLive',
           lane = "suspension" => UNCHANGED watcher
    PROVE  ChangeInv'
<1> USE DEF ChangeInv
<1>1. /\ NoneLive => NoneLive'
      /\ \A v : Apart(v) => Apart(v)'
  BY KeptShrinks
<1>2. \A v : Behind(v) => Behind(v)'
  BY DEF Behind
<1>3. ChangeTyped' /\ Waiting' /\ ReadTurn'
  BY <1>2, UnreadTyped DEF ChangeTyped, Waiting, ReadTurn, Reading, Following
<1>4. Current'
  BY <1>1 DEF Current, Kept
<1>5. Recorded'
  BY <1>1, <1>2 DEF Recorded, ReadTurn, Checked
<1>6. DeletedHere'
  BY DEF DeletedHere, ReadTurn
<1>7. LiveReached'
  <2> SUFFICES ASSUME ~ChangeComing', NEW k \in Clients, Live(k)'
               PROVE  ~Outdated(k)'
    BY DEF LiveReached
  <2>1. read = row
    BY DEF ReadTurn, ChangeComing, Announced, Rereads
  <2>2. row.standing # "Deleted"
    BY <2>1 DEF NoneLive
  <2>3. /\ client'[k].checkedAt >= row.generation
        /\ client'[k].checkedAt \in Nat /\ row.generation \in Nat
    BY <2>1, Generations DEF AttachTyped, Attach
  <2> QED
    BY <2>2, <2>3 DEF Outdated
<1> QED
  BY <1>3, <1>4, <1>5, <1>6, <1>7

LEMMA NoneLiveKept ==
    ASSUME NoneLive'
    PROVE  Kept /\ \A g : \A k \in Clients : Live(k)' => client'[k].checkedAt >= g
BY DEF Kept, NoneLive

LEMMA SuspensionAppliesStep ==
    ASSUME Typed, ChangeInv, SuspensionApplies
    PROVE  ChangeInv'
<1> USE DEF ChangeInv
<1>1. /\ lane = "suspension" /\ lane' = "free" /\ read' = Unread /\ ledger' = read
      /\ UNCHANGED <<row, notes, changed, watcher>>
      /\ (RevokeAccount /\ UNCHANGED passedOver) \/ RecordOnly
  BY DEF SuspensionApplies, storeVars, watcherVars
<1>2. AttachTyped'
  BY <1>1, AccountRevoked DEF Typed, RecordOnly
<1>3. Reading /\ read.standing # "Deleted"
  BY <1>1 DEF Reading, ReadTurn
<1>4. /\ Kept /\ passedOver' \subseteq Clients
      /\ \A k \in Clients : Live(k)' => client'[k].checkedAt >= read.generation
  BY <1>1, RevokeAccountEnds, NoneLiveKept, RecordOnlyLeaves DEF Typed, ChangeTyped
<1> QED
  BY <1>1, <1>2, <1>3, <1>4, TurnRecords

\* A turn that ends every attachment.
LEMMA EndingTurn ==
    ASSUME Typed, ChangeInv, NoneLive', UNCHANGED <<row, read, passedOver>>,
           changed' \subseteq changed, lane' \in {"free", "deletion"},
           ledger' = ledger \/ ledger' \in changed
    PROVE  ChangeInv'
<1> USE DEF ChangeInv
<1>1. \A v : Behind(v) => Behind(v)'
  BY DEF Behind
<1>2. \A v : Checked(v)' /\ Apart(v)'
  BY DEF Checked, Apart, NoneLive
<1>3. ChangeTyped' /\ Waiting' /\ ReadTurn'
  BY <1>1 DEF ChangeTyped, Waiting, ReadTurn, Reading, Following
<1>4. Current'
  BY <1>2 DEF Current, NoneLive
<1>5. Recorded'
  BY <1>1, <1>2 DEF Recorded, Waiting
<1>6. DeletedHere' /\ LiveReached'
  BY DEF DeletedHere, Waiting, LiveReached, NoneLive
<1> QED
  BY <1>3, <1>4, <1>5, <1>6

LEMMA EndingTurnStep ==
    ASSUME Typed, ChangeInv, PasswordApplies \/ DeletionRevokes
    PROVE  ChangeInv'
<1>1. /\ RevokeAccount /\ UNCHANGED <<row, read, passedOver>>
      /\ changed' \subseteq changed /\ lane' \in {"free", "deletion"}
      /\ ledger' = ledger \/ ledger' \in changed
  BY DEF PasswordApplies, DeletionRevokes, storeVars
<1> QED
  BY <1>1, RevokeAccountEnds, EndingTurn DEF Typed

LEMMA DeletionEndsStep ==
    ASSUME Typed, ChangeInv, DeletionCommits \/ DeletionFails
    PROVE  ChangeInv'
<1> USE DEF ChangeInv
<1>1. /\ lane = "deletion" /\ lane' = "free" /\ UNCHANGED attachVars
      /\ UNCHANGED <<read, changed, watcher>>
  BY DEF DeletionCommits, DeletionFails, watcherVars
<1>2. CASE DeletionCommits
  <2>1. /\ row'.standing = "Deleted" /\ row'.generation = row.generation
        /\ ledger'.standing = "Deleted" /\ ledger'.generation = ledger.generation
        /\ ledger' \in Authority /\ passedOver' = passedOver \cup SignedIn
    BY <1>2 DEF DeletionCommits, CommitDeletion, storeVars, Typed, RowTyped, ChangeTyped,
                Authority, Standings
  <2>2. NoneLive'
    BY <1>1, <2>1 DEF NoneLive, Live, SignedIn, Attached, attachVars
  <2>3. \A v : Checked(v)' /\ Apart(v)' /\ (Behind(v) => Behind(v)')
    BY <2>1, <2>2 DEF Checked, Apart, NoneLive, Behind
  <2>4. ChangeTyped' /\ Waiting' /\ ReadTurn'
    BY <1>1, <2>1, <2>3 DEF ChangeTyped, SignedIn, Waiting, ReadTurn, Reading, Following
  <2>5. Current' /\ DeletedHere' /\ LiveReached'
    BY <2>1, <2>2, <2>3 DEF Current, NoneLive, DeletedHere, LiveReached
  <2>6. Recorded'
    <3>1. Behind(ledger)'
      BY <2>1 DEF Recorded, Behind
    <3> QED
      BY <2>3, <3>1 DEF Recorded
  <2> QED
    BY <2>4, <2>5, <2>6
<1>3. CASE DeletionFails
  <2>1. UNCHANGED <<ledger, passedOver>> /\ (CommitDeletion \/ UNCHANGED storeVars)
    BY <1>3 DEF DeletionFails
  <2>2. CASE CommitDeletion
    BY <1>1, <2>1, <2>2, Commits, CommitReaches
  <2>3. CASE UNCHANGED storeVars
    <3>1. UNCHANGED <<row, notes>> /\ ~Following
      BY <1>1, <2>3 DEF storeVars, Following
    <3> QED
      BY <1>1, <2>1, <3>1, AttachStandsKept, SideStep DEF Announced, Rereads
  <2> QED
    BY <2>1, <2>2, <2>3
<1> QED
  BY <1>2, <1>3

\* The row is read, to be followed.
LEMMA ReadsStep ==
    ASSUME Typed, ChangeInv, FollowReads \/ ResynchronizeReads
    PROVE  ChangeInv'
<1> USE DEF ChangeInv
<1>1. /\ lane = "free" /\ Following' /\ read' = row /\ UNCHANGED attachVars
      /\ UNCHANGED <<row, ledger, changed, passedOver, watcher>>
      /\ watcher \in {"listening", "accounts"}
  BY DEF FollowReads, ResynchronizeReads, Following, storeVars, watcherVars
<1>2. Kept
  BY <1>1, AttachStandsKept
<1>3. /\ NoneLive => NoneLive'
      /\ \A g : Checked(g) => Checked(g)'
      /\ \A v : Apart(v) => Apart(v)'
  BY <1>2, KeptShrinks
<1>4. \A v : Behind(v) => Behind(v)'
  BY <1>1 DEF Behind
<1>5. row \in Authority /\ row.generation \in Nat
  BY Generations DEF Typed, RowTyped
<1>6. ChangeTyped' /\ Waiting' /\ Recorded' /\ DeletedHere'
  BY <1>1, <1>3, <1>4, <1>5 DEF ChangeTyped, Waiting, Recorded, DeletedHere
<1>7. Current'
  BY <1>1, <1>2, <1>3 DEF Current, Kept
<1>8. ReadTurn'
  BY <1>1, <1>5, <1>7 DEF ReadTurn, Reading, Following, Behind, Current
<1>9. LiveReached'
  <2> SUFFICES ASSUME ~ChangeComing', NEW k \in Clients, Live(k)'
               PROVE  ~Outdated(k)'
    BY DEF LiveReached
  <2>1. row = ledger
    BY <1>1 DEF ChangeComing, Following
  <2>2. Live(k) /\ client'[k].checkedAt = client[k].checkedAt
    BY <1>2 DEF Kept
  <2>3. client[k].checkedAt >= row.generation /\ client[k].checkedAt \in Nat
    BY <2>1, <2>2, Generations DEF Recorded, Checked
  <2>4. row.standing # "Deleted"
    BY <2>1, <2>2 DEF DeletedHere, NoneLive
  <2> QED
    BY <1>1, <1>5, <2>2, <2>3, <2>4 DEF Outdated
<1> QED
  BY <1>6, <1>7, <1>8, <1>9

\* ... and followed.
LEMMA AppliesStep ==
    ASSUME Typed, ChangeInv, FollowApplies \/ ResynchronizeApplies
    PROVE  ChangeInv'
<1> USE DEF ChangeInv
<1>1. /\ Following /\ lane' = "free" /\ read' = Unread /\ Step
      /\ UNCHANGED <<row, notes, changed>>
  BY DEF FollowApplies, ResynchronizeApplies, Following, storeVars
<1>2. Reading /\ lane # "suspension"
  BY <1>1 DEF Following, Reading
<1>3. row.generation \in Nat /\ read.generation \in Nat /\ ledger.generation \in Nat
      /\ ledger.standing \in Standings
  BY Generations
<1> DEFINE known == \/ ledger.standing = "Deleted"
                    \/ read.standing # "Deleted" /\ read.generation <= ledger.generation
<1>4. CASE known
  <2>1. UNCHANGED <<ledger, passedOver>> /\ UNCHANGED attachVars
    BY <1>1, <1>4 DEF Step
  <2>2. Kept
    BY <2>1, AttachStandsKept
  <2>3. /\ NoneLive => NoneLive'
        /\ \A g : Checked(g) => Checked(g)'
        /\ \A v : Apart(v) => Apart(v)'
    BY <2>2, KeptShrinks
  <2>4. \A v : Behind(v) => Behind(v)'
    BY <1>1 DEF Behind
  <2>5. ChangeTyped' /\ Waiting' /\ Recorded' /\ DeletedHere'
    BY <1>1, <2>1, <2>3, <2>4, UnreadTyped DEF ChangeTyped, Waiting, Recorded, DeletedHere
  <2>6. Current' /\ ReadTurn'
    BY <1>1, <2>2, <2>3 DEF Current, Kept, ReadTurn, Reading, Following
  <2>7. LiveReached'
    <3> SUFFICES ASSUME ~ChangeComing', NEW k \in Clients, Live(k)'
                 PROVE  ~Outdated(k)'
      BY DEF LiveReached
    <3>1. read = row
      BY <1>1, <1>2 DEF ChangeComing, ReadTurn, Announced
    <3>2. Live(k) /\ client'[k].checkedAt = client[k].checkedAt
      BY <2>2 DEF Kept
    <3>3. ledger.standing # "Deleted"
      BY <3>2 DEF DeletedHere, NoneLive
    <3>4. row.standing # "Deleted" /\ row.generation <= ledger.generation
      BY <1>4, <3>1, <3>3
    <3>5. client[k].checkedAt >= ledger.generation /\ client[k].checkedAt \in Nat
      BY <3>2, Generations DEF Recorded, Checked
    <3>6. client[k].checkedAt >= row.generation
      BY <1>3, <3>4, <3>5
    <3> QED
      BY <1>1, <1>3, <3>2, <3>4, <3>5, <3>6 DEF Outdated
  <2> QED
    BY <2>5, <2>6, <2>7
<1>5. CASE ~known
  <2>1. /\ ledger' = read
        /\ \/ RevokeAccount /\ UNCHANGED passedOver
           \/ RecordOnly /\ read.standing # "Deleted"
    BY <1>1, <1>5 DEF Step
  <2>2. AttachTyped'
    BY <2>1, AccountRevoked DEF Typed, RecordOnly
  <2>3. /\ Kept /\ passedOver' \subseteq Clients
        /\ \A k \in Clients : Live(k)' => client'[k].checkedAt >= read.generation
        /\ read.standing = "Deleted" => NoneLive'
    BY <2>1, RevokeAccountEnds, NoneLiveKept, RecordOnlyLeaves DEF Typed, ChangeTyped
  <2> QED
    BY <1>1, <1>2, <2>1, <2>2, <2>3, TurnRecords
<1> QED
  BY <1>4, <1>5

\* The steps outside the account's row and the lane.
LEMMA OutsideStep ==
    ASSUME Typed, TurnInv, ChangeInv,
           \/ \E k \in Clients : TakeTicket(k) \/ Lease(k) \/ Leave(k)
           \/ \E c \in Issued : RevokeCredential(c)
           \/ HearRevoked \/ ListenerLost \/ Reconnect \/ Settle \/ HeldCredentials
           \/ ReadStored \/ EndUnstored \/ UNCHANGED vars
    PROVE  ChangeInv'
<1> USE DEF ChangeInv
<1>1. ASSUME NEW k \in Clients, TakeTicket(k) \/ Lease(k) \/ Leave(k)
      PROVE  ChangeInv'
  <2>1. UNCHANGED <<row, notes, ledger, lane, read, changed, passedOver, watcher>>
    BY <1>1 DEF TakeTicket, Lease, Leave, storeVars, laneVars, watcherVars
  <2> QED
    BY <1>1, <2>1, ClientKept, SideStep DEF Typed, Announced, Rereads
<1>2. ASSUME NEW c \in Issued, RevokeCredential(c)
      PROVE  ChangeInv'
  <2>1. UNCHANGED <<row, ledger, lane, read, changed, passedOver, watcher>> /\ Announce(<<c>>)
        /\ UNCHANGED attachVars
    BY <1>2 DEF RevokeCredential, laneVars, watcherVars
  <2>2. <<c>> \in Seq(News)
    BY DEF News
  <2>3. Announced("Account") => Announced("Account")'
    BY <2>1, <2>2, AnnounceKeeps DEF Typed
  <2> QED
    BY <2>1, <2>3, AttachStandsKept, SideStep DEF Rereads
<1>3. CASE HearRevoked
  <2>1. /\ UNCHANGED <<row, ledger, lane, read, changed, passedOver, watcher>>
        /\ notes # <<>> /\ notes' = Tail(notes) /\ Head(notes) \in Issued
        /\ Revoke(Head(notes), SignedInWith(Head(notes)))
    BY <1>3 DEF HearRevoked, laneVars, watcherVars
  <2>2. PICK c \in Issued : c = Head(notes)
    BY <2>1
  <2>3. c \in Revocable /\ SignedInWith(c) \in SUBSET Clients /\ c # "Account"
    BY AuthorityAssumption DEF Revocable, SignedInWith
  <2>4. Kept
    BY <2>1, <2>2, <2>3, RevokeEnds DEF Typed
  <2>5. notes \in Seq(News)
    BY DEF Typed, StoreTyped
  <2>6. Announced("Account") => Announced("Account")'
    BY <2>1, <2>2, <2>3, <2>5, TailKeeps, AnnouncedHolds
  <2> QED
    BY <2>1, <2>4, <2>6, SideStep DEF Rereads
<1>4. CASE ListenerLost \/ Reconnect \/ HeldCredentials \/ ReadStored \/ UNCHANGED vars
  <2>1. /\ UNCHANGED <<row, ledger, lane, read, changed, passedOver>> /\ UNCHANGED attachVars
        /\ UNCHANGED notes \/ (watcher' = "lost" /\ ~Following)
        /\ Rereads => Rereads'
    BY <1>4 DEF ListenerLost, Reconnect, HeldCredentials, ReadStored, vars, storeVars, laneVars, watcherVars,
                Following, Rereads
  <2>2. Following => UNCHANGED watcher
    BY <1>4 DEF ListenerLost, Reconnect, HeldCredentials, ReadStored, vars, watcherVars, Following,
                ReadTurn, Reading, TurnInv
  <2>3. Announced("Account") => Announced("Account")' \/ (watcher' = "lost" /\ ~Following)
    BY <2>1 DEF Announced
  <2> QED
    BY <2>1, <2>2, <2>3, AttachStandsKept, SideStep
<1>5. CASE Settle
  <2>1. /\ UNCHANGED <<row, notes, ledger, lane, read, changed, passedOver>>
        /\ watcher = "settle" /\ watcher' = "accounts" /\ Revoke("Every", {})
    BY <1>5 DEF Settle, storeVars, laneVars
  <2>2. "Every" \in Revocable /\ {} \in SUBSET Clients
    BY DEF Revocable
  <2>3. Kept
    BY <2>1, <2>2, RevokeEnds DEF Typed
  <2> QED
    BY <2>1, <2>3, SideStep DEF Rereads, Announced, Following, ReadTurn, Reading, TurnInv
<1>6. CASE EndUnstored
  <2>1. UNCHANGED <<row, notes, ledger, lane, read, changed, passedOver>> /\ watcher = "ending"
    BY <1>6 DEF EndUnstored, storeVars, laneVars
  <2>2. Kept
    <3>1. ASSUME NEW c \in held, Revoke(c, SignedInWith(c))
          PROVE  Kept
      <4>1. c \in Revocable /\ SignedInWith(c) \in SUBSET Clients
        BY DEF TurnInv, Revocable, SignedInWith
      <4> QED
        BY <2>1, <3>1, <4>1, RevokeEnds DEF Typed
    <3> QED
      BY <1>6, <2>1, <3>1, AttachStandsKept DEF EndUnstored
  <2> QED
    BY <2>1, <2>2, SideStep DEF Rereads, Announced, Following, ReadTurn, Reading, TurnInv
<1> QED
  BY <1>1, <1>2, <1>3, <1>4, <1>5, <1>6

LEMMA ChangeInit == Init => ChangeInv
<1> SUFFICES ASSUME Init
             PROVE  ChangeInv
  OBVIOUS
<1>1. \A k \in Clients : client[k].at = "new"
  BY DEF Init, New, Client
<1>2. NoneLive
  BY <1>1 DEF NoneLive, Live, Attached
<1>3. \A v : Checked(v) /\ Apart(v)
  BY <1>2 DEF Checked, Apart, NoneLive
<1>4. ChangeTyped /\ ledger = row /\ row.standing = "Active" /\ row.generation = 0
  BY UnreadTyped DEF Init, ChangeTyped, Authority, Standings
<1>5. Behind(ledger)
  BY <1>4 DEF Behind
<1> QED
  BY <1>2, <1>3, <1>4, <1>5
     DEF Init, ChangeInv, Current, Recorded, Waiting, ReadTurn, Reading, Following, DeletedHere,
         LiveReached, NoneLive

\* An attachment whose credential was checked before the account's password, its
\* standing or its row changed, here or in another process, has its end on the
\* way, however the change crossed the sign-in, the lease, the turns on the lane,
\* a lost answer and the listener's reconnection (account_suspension_in_lane,
\* end_sessions_after_password_change, AuthorityLedger::step), unless this server
\* passed it over: a reactivation recorded a change that was only announced,
\* several changes of a suspended account were read as one, or the client signed
\* in while a deletion here was under way.  Those are the only ways there are.
THEOREM ChangesReach == Spec => []ChangeReaches
<1>1. AuthorityInv /\ TurnInv /\ ChangeInv /\ [Next]_vars => ChangeInv'
  <2> SUFFICES ASSUME AuthorityInv, TurnInv, ChangeInv, [Next]_vars
               PROVE  ChangeInv'
    OBVIOUS
  <2>1. Typed
    BY DEF AuthorityInv, Typed
  <2> QED
    BY <2>1, OutsideStep, VerifyStep, ElsewhereStep, SuspensionCommitsStep,
       SuspensionAppliesStep, EndingTurnStep, DeletionEndsStep, ReadsStep, AppliesStep DEF Next
<1>2. ChangeInv => ChangeReaches
  BY DEF ChangeInv, LiveReached, ChangeReaches, Live
<1> QED
  BY <1>1, <1>2, ChangeInit, AuthorityInvariant, TurnInit, TurnStays, PTL DEF Spec
=============================================================================
