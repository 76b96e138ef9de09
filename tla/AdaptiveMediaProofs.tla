------------------------ MODULE AdaptiveMediaProofs ------------------------
(***************************************************************************)
(* Proofs about AdaptiveMedia, for any number of elements, pages, captures *)
(* and reports.                                                            *)
(*                                                                         *)
(* A hint carries its page only while that is the page of the identity     *)
(* stamped on it, and it is kept or bound only under that identity: so the *)
(* claim about players (RightMedia) is carried along from the wire through *)
(* the stored hints to the imports and players.  That no player is left    *)
(* over (NoStrayPlayer) follows the registry: an entry goes only with its  *)
(* player, and what another entry replaces is lost.                        *)
(***************************************************************************)
EXTENDS AdaptiveMedia, FiniteSetTheorems, SequenceTheorems, TLAPS

USE AdaptiveAssumption

Kinds == {"hls", "dash", "blocked"}

SnapshotMessage == [type : {"snapshot"}, stamp : Nat \ {0}]
MediaMessage    == [type : {"media"}, stamp : Nat, nid : Nid]
Hint            == [type : {"hint"}, stamp : Nat, nid : Nid \cup {NoNid}, kind : Kinds, page : Nat]
Message         == SnapshotMessage \cup MediaMessage \cup Hint

Player == [id : Nat, nid : Nid, session : Nat, doc : Nat, page : Nat, late : BOOLEAN, lost : BOOLEAN]
Document == [of : Nat, coming : Nat, loading : BOOLEAN, index : Nat]

-----------------------------------------------------------------------------
(* The invariant.                                                          *)

(* A session stands for a page.                                            *)
Right(pages, session, pg) == pg # 0 => session \in DOMAIN pages /\ pages[session] = pg

MediaOK(m) ==
  /\ m = [registry |-> m.registry, players |-> m.players,
          imports |-> m.imports, sourced |-> m.sourced]
  /\ DOMAIN m.registry \subseteq Nid
  /\ \A n \in DOMAIN m.registry : m.registry[n] \in Nat
  /\ m.players \subseteq Player /\ IsFiniteSet(m.players)
  /\ m.imports \subseteq Player /\ IsFiniteSet(m.imports)

AllRight(m) == \A p \in m.players \cup m.imports : Right(pageOf, p.session, p.page)

Held(m, p) == p.nid \in DOMAIN m.registry /\ m.registry[p.nid] = p.id
InTime(p) == p.session = active /\ p.doc = active
Attended(m) == \A p \in m.players : (Held(m, p) /\ (InTime(p) \/ p.late)) \/ p.lost

PlayersOK(m) == MediaOK(m) /\ AllRight(m) /\ Attended(m)

TypeOK ==
  /\ host \in {"playwright", "extension"} /\ browser \in {"native", "factory", "hls.js"}
  /\ page \in Nat /\ pageOf \in Seq(Nat) /\ stamp \in 0 .. Len(pageOf)
  /\ \A r \in responses : r.page \in Nat
  /\ wire \in Seq(Message) /\ pending \in Seq(Hint)
  /\ active \in Nat /\ streaming \in BOOLEAN
  /\ document \in Document
  /\ streaming => active # 0

WireRight == \A i \in DOMAIN wire : wire[i].type = "hint" => Right(pageOf, wire[i].stamp, wire[i].page)
PendingRight == \A i \in DOMAIN pending : Right(pageOf, active, pending[i].page)

Inv == TypeOK /\ WireRight /\ PendingRight /\ PlayersOK(media)

-----------------------------------------------------------------------------
(* Sets and sequences.                                                     *)

(* A number that is not in use.                                            *)
LEMMA FreshId ==
  ASSUME NEW used, IsFiniteSet(used)
  PROVE  /\ Cardinality(used) \in Nat
         /\ \E i \in 1 .. Cardinality(used) + 1 : i \notin used
<1> DEFINE k == Cardinality(used)
<1>1. k \in Nat
  BY FS_CardinalityType
<1>2. SUFFICES ASSUME 1 .. k + 1 \subseteq used PROVE FALSE
  BY <1>1
<1>3. Cardinality(1 .. k + 1) = k + 1
  BY <1>1, FS_Interval
<1>4. Cardinality(1 .. k + 1) <= k
  BY <1>2, FS_Subset
<1> QED
  BY <1>1, <1>3, <1>4

(* The image of a finite set under a function is finite.                   *)
LEMMA FiniteImage ==
  ASSUME NEW f, IsFiniteSet(DOMAIN f)
  PROVE  IsFiniteSet({f[x] : x \in DOMAIN f})
<1> DEFINE S == DOMAIN f
           T == {f[x] : x \in S}
           g == [x \in S |-> f[x]]
<1>1. g \in Surjection(S, T)
  BY DEF Surjection
<1> QED
  BY <1>1, FS_Surjection

LEMMA FiniteIds ==
  ASSUME NEW m, MediaOK(m)
  PROVE  IsFiniteSet({p.id : p \in m.players \cup m.imports} \cup Range(m.registry))
<1> DEFINE S == m.players \cup m.imports
           f == [p \in S |-> p.id]
<1>1. IsFiniteSet(S)
  BY FS_Union DEF MediaOK
<1>2. IsFiniteSet({f[p] : p \in DOMAIN f})
  BY <1>1, FiniteImage
<1>3. {f[p] : p \in DOMAIN f} = {p.id : p \in S}
  OBVIOUS
<1>4. IsFiniteSet(DOMAIN m.registry)
  BY FS_Subset DEF MediaOK
<1>5. IsFiniteSet(Range(m.registry))
  BY <1>4, FiniteImage DEF Range
<1> QED
  BY <1>2, <1>3, <1>5, FS_Union

LEMMA Sent ==
  ASSUME NEW S, NEW s \in Seq(S), NEW e \in S
  PROVE  /\ Append(s, e) \in Seq(S)
         /\ \A i \in DOMAIN Append(s, e) :
              (i \in DOMAIN s /\ Append(s, e)[i] = s[i]) \/ Append(s, e)[i] = e
  OBVIOUS

LEMMA Taken ==
  ASSUME NEW S, NEW s \in Seq(S), s # <<>>
  PROVE  /\ Head(s) \in S /\ 1 \in DOMAIN s /\ Head(s) = s[1]
         /\ Tail(s) \in Seq(S)
         /\ \A i \in DOMAIN Tail(s) : i + 1 \in DOMAIN s /\ Tail(s)[i] = s[i + 1]
  OBVIOUS

LEMMA Dropped ==
  ASSUME NEW S, NEW s \in Seq(S), NEW k \in DOMAIN s
  PROVE  /\ RemoveAt(s, k) \in Seq(S)
         /\ \A i \in DOMAIN RemoveAt(s, k) : \E j \in DOMAIN s : RemoveAt(s, k)[i] = s[j]
<1> DEFINE a == SubSeq(s, 1, k - 1)
           b == SubSeq(s, k + 1, Len(s))
<1>1. Len(s) \in Nat /\ k \in 1 .. Len(s) /\ DOMAIN s = 1 .. Len(s)
  OBVIOUS
<1>2. /\ a \in Seq(S) /\ Len(a) = k - 1
      /\ \A i \in 1 .. Len(a) : a[i] = s[i]
  BY <1>1, SubSeqProperties
<1>3. /\ b \in Seq(S) /\ Len(b) = Len(s) - k
      /\ \A i \in 1 .. Len(b) : b[i] = s[k + i]
  <2> DEFINE m == k + 1
             n == Len(s)
  <2>1. m \in 1 .. n + 1 /\ n \in Nat /\ \A i \in Nat : m + i - 1 = k + i
    BY <1>1
  <2>2. SubSeq(s, m, n) \in Seq(S)
    BY <1>1
  <2>3. Len(SubSeq(s, m, n)) = Len(s) - k
    BY <1>1
  <2>4. \A i \in 1 .. Len(s) - k : SubSeq(s, m, n)[i] = s[k + i]
    BY <1>1
  <2> QED
    BY <2>2, <2>3, <2>4
<1> HIDE DEF a, b
<1>4. /\ a \o b \in Seq(S) /\ DOMAIN (a \o b) = 1 .. Len(s) - 1
      /\ \A i \in 1 .. Len(s) - 1 : (a \o b)[i] = IF i <= k - 1 THEN a[i] ELSE b[i - (k - 1)]
  <2>1. /\ a \o b \in Seq(S) /\ Len(a \o b) = Len(a) + Len(b)
        /\ \A i \in 1 .. Len(a) + Len(b) : (a \o b)[i] = IF i <= Len(a) THEN a[i] ELSE b[i - Len(a)]
    BY <1>2, <1>3, ConcatProperties
  <2>2. Len(a) + Len(b) = Len(s) - 1
    BY <1>1, <1>2, <1>3
  <2>3. DOMAIN (a \o b) = 1 .. Len(s) - 1
    BY <2>1, <2>2, LenProperties
  <2> QED
    BY <1>2, <2>1, <2>2, <2>3
<1>5. ASSUME NEW i \in 1 .. Len(s) - 1
      PROVE  \E j \in DOMAIN s : (a \o b)[i] = s[j]
  <2>1. CASE i <= k - 1
    <3>1. i \in 1 .. Len(a) /\ i \in 1 .. Len(s)
      BY <1>1, <1>2, <2>1
    <3>2. (a \o b)[i] = a[i]
      BY <1>4, <2>1
    <3> QED
      BY <1>1, <1>2, <3>1, <3>2
  <2>2. CASE ~(i <= k - 1)
    <3>1. i - (k - 1) \in 1 .. Len(s) - k /\ k + (i - (k - 1)) = i + 1 /\ i + 1 \in 1 .. Len(s)
      BY <1>1, <2>2
    <3>2. (a \o b)[i] = b[i - (k - 1)]
      BY <1>4, <2>2
    <3>3. b[i - (k - 1)] = s[k + (i - (k - 1))]
      BY <1>3, <3>1
    <3> QED
      BY <1>1, <3>1, <3>2, <3>3
  <2> QED
    BY <2>1, <2>2
<1> QED
  BY <1>4, <1>5 DEF RemoveAt, a, b

LEMMA Popped ==
  ASSUME NEW S, NEW s \in Seq(S), s # <<>>
  PROVE  /\ Last(s) \in S /\ Len(s) \in DOMAIN s /\ Last(s) = s[Len(s)]
         /\ Front(s) \in Seq(S)
         /\ \A i \in DOMAIN Front(s) : i \in DOMAIN s /\ Front(s)[i] = s[i]
  BY DEF Last, Front
-----------------------------------------------------------------------------
(* The player.                                                             *)

LEMMA DestroyKeeps ==
  ASSUME NEW m, PlayersOK(m), NEW n
  PROVE  PlayersOK(Destroy(m, n))
<1> DEFINE d == Destroy(m, n)
<1>1. CASE n \notin DOMAIN m.registry
  BY <1>1 DEF Destroy
<1>2. CASE n \in DOMAIN m.registry
  <2> DEFINE dying == {p \in m.players : p.id = m.registry[n]}
  <2>1. /\ d.players = m.players \ dying /\ d.imports = m.imports
        /\ d.registry = Without(m.registry, n)
        /\ d = [registry |-> d.registry, players |-> d.players,
                imports |-> d.imports, sourced |-> d.sourced]
    BY <1>2 DEF Destroy, PlayersOK, MediaOK
  <2>2. /\ DOMAIN d.registry = DOMAIN m.registry \ {n}
        /\ \A x \in DOMAIN d.registry : d.registry[x] = m.registry[x]
    BY <2>1 DEF Without
  <2>3. IsFiniteSet(d.players)
    BY <2>1, FS_Subset DEF PlayersOK, MediaOK
  <2> HIDE DEF d
  <2>4. MediaOK(d)
    BY <2>1, <2>2, <2>3 DEF PlayersOK, MediaOK
  <2>5. AllRight(d)
    BY <2>1 DEF PlayersOK, AllRight
  <2>6. Attended(d)
    <3> SUFFICES ASSUME NEW p \in d.players, ~p.lost
                 PROVE  Held(d, p) /\ (InTime(p) \/ p.late)
      BY DEF Attended
    <3>1. p \in m.players /\ p.id # m.registry[n]
      BY <2>1
    <3>2. Held(m, p) /\ (InTime(p) \/ p.late)
      BY <3>1 DEF PlayersOK, Attended
    <3> QED
      BY <2>2, <3>1, <3>2 DEF Held
  <2> QED
    BY <2>4, <2>5, <2>6 DEF PlayersOK, d
<1> QED
  BY <1>1, <1>2

LEMMA RegisterKeeps ==
  ASSUME NEW m, PlayersOK(m), NEW player \in Player,
         Right(pageOf, player.session, player.page)
  PROVE  PlayersOK(Register(m, player))
<1> DEFINE n == player.nid
           r == Register(m, player)
           lost == {p \in m.players : n \in DOMAIN m.registry /\ p.id = m.registry[n]}
           strays == {[p EXCEPT !.lost = TRUE] : p \in lost}
           new == [player EXCEPT !.late = ~InTime(player)]
<1>1. /\ r.players = (m.players \ lost) \cup strays \cup {new}
      /\ r.imports = m.imports /\ r.sourced = m.sourced
      /\ r.registry = Entry(m.registry, n, player.id)
      /\ r = [registry |-> r.registry, players |-> r.players,
              imports |-> r.imports, sourced |-> r.sourced]
  <2>1. m = [registry |-> m.registry, players |-> m.players,
             imports |-> m.imports, sourced |-> m.sourced]
    BY DEF PlayersOK, MediaOK
  <2>2. r = [registry |-> Entry(m.registry, n, player.id),
             players |-> (m.players \ lost) \cup strays \cup {new},
             imports |-> m.imports, sourced |-> m.sourced]
    <3>1. r = [m EXCEPT !.registry = Entry(m.registry, n, player.id),
                        !.players = (m.players \ lost) \cup strays \cup {new}]
      BY DEF Register, InTime
    <3> HIDE DEF r, strays, new, lost
    <3> QED
      BY <2>1, <3>1
  <2> HIDE DEF r, strays, new, lost
  <2> QED
    BY <2>2
<1>2. /\ DOMAIN r.registry = DOMAIN m.registry \cup {n}
      /\ r.registry[n] = player.id
      /\ \A x \in DOMAIN m.registry : x # n => r.registry[x] = m.registry[x]
  BY <1>1 DEF Entry
<1>3. /\ new \in Player /\ new.id = player.id /\ new.nid = n
      /\ new.session = player.session /\ new.page = player.page
      /\ InTime(new) \/ new.late
  BY DEF Player, InTime
<1>4. \A p \in strays : p \in Player /\ p.lost /\ Right(pageOf, p.session, p.page)
  <2> SUFFICES ASSUME NEW p \in m.players
               PROVE  LET q == [p EXCEPT !.lost = TRUE]
                      IN  q \in Player /\ q.lost /\ Right(pageOf, q.session, q.page)
    OBVIOUS
  <2>1. p \in Player /\ Right(pageOf, p.session, p.page)
    BY DEF PlayersOK, MediaOK, AllRight
  <2> QED
    BY <2>1 DEF Player
<1>5. IsFiniteSet(strays)
  <2> DEFINE f == [p \in lost |-> [p EXCEPT !.lost = TRUE]]
  <2>1. IsFiniteSet(lost)
    BY FS_Subset DEF PlayersOK, MediaOK
  <2>2. IsFiniteSet({f[p] : p \in DOMAIN f})
    BY <2>1, FiniteImage
  <2> QED
    BY <2>2
<1> HIDE DEF r, strays, new
<1>6. IsFiniteSet(r.players)
  <2>1. IsFiniteSet(m.players \ lost)
    BY FS_Subset DEF PlayersOK, MediaOK
  <2>2. IsFiniteSet((m.players \ lost) \cup strays)
    BY <1>5, <2>1, FS_Union
  <2> HIDE DEF lost
  <2> QED
    BY <1>1, <2>2, FS_AddElement
<1>7. MediaOK(r)
  <2>1. r.players \subseteq Player /\ n \in Nid /\ player.id \in Nat
    BY <1>1, <1>3, <1>4 DEF PlayersOK, MediaOK, Player
  <2> QED
    BY <1>1, <1>2, <1>6, <2>1 DEF PlayersOK, MediaOK
<1>8. AllRight(r)
  BY <1>1, <1>3, <1>4 DEF PlayersOK, AllRight
<1>9. Attended(r)
  <2> SUFFICES ASSUME NEW p \in r.players, ~p.lost
               PROVE  Held(r, p) /\ (InTime(p) \/ p.late)
    BY DEF Attended
  <2>1. CASE p = new
    BY <1>2, <1>3, <2>1 DEF Held
  <2>2. CASE p \in m.players \ lost
    <3>1. Held(m, p) /\ (InTime(p) \/ p.late)
      BY <2>2 DEF PlayersOK, Attended
    <3> QED
      BY <1>2, <2>2, <3>1 DEF Held
  <2> QED
    BY <1>1, <1>4, <2>1, <2>2
<1> QED
  BY <1>7, <1>8, <1>9 DEF PlayersOK, r

(* What an element plays does not touch the players.                       *)
LEMMA SourceKeeps ==
  ASSUME NEW m, PlayersOK(m), NEW p
  PROVE  PlayersOK(WithSource(m, p))
<1> DEFINE t == m.sourced \cup {Element(p)}
           r == WithSource(m, p)
<1>1. r = [registry |-> m.registry, players |-> m.players, imports |-> m.imports, sourced |-> t]
  <2>1. m = [registry |-> m.registry, players |-> m.players,
             imports |-> m.imports, sourced |-> m.sourced]
    BY DEF PlayersOK, MediaOK
  <2>2. r = [m EXCEPT !.sourced = t]
    BY DEF WithSource
  <2> HIDE DEF t, r
  <2> QED
    BY <2>1, <2>2
<1> HIDE DEF t, r
<1>2. MediaOK(r)
  BY <1>1 DEF PlayersOK, MediaOK
<1>3. AllRight(r) /\ Attended(r)
  BY <1>1 DEF PlayersOK, AllRight, Attended, Held
<1> QED
  BY <1>2, <1>3 DEF PlayersOK, r

(* A call that waits for hls.js, and one that no longer does.              *)
LEMMA ImportsKeep ==
  ASSUME NEW m, PlayersOK(m), NEW S \in SUBSET Player, IsFiniteSet(S),
         \A p \in S : Right(pageOf, p.session, p.page)
  PROVE  PlayersOK([m EXCEPT !.imports = S])
<1> DEFINE r == [m EXCEPT !.imports = S]
<1>1. r = [registry |-> m.registry, players |-> m.players, imports |-> S, sourced |-> m.sourced]
  BY DEF PlayersOK, MediaOK
<1> HIDE DEF r
<1>2. MediaOK(r)
  BY <1>1 DEF PlayersOK, MediaOK
<1>3. AllRight(r) /\ Attended(r)
  BY <1>1 DEF PlayersOK, AllRight, Attended, Held
<1> QED
  BY <1>2, <1>3 DEF PlayersOK, r

(* A player that threw: it is there, and has no entry.                     *)
LEMMA ThrownKeeps ==
  ASSUME NEW m, PlayersOK(m), NEW player \in Player,
         Right(pageOf, player.session, player.page)
  PROVE  PlayersOK([m EXCEPT !.players = @ \cup {[player EXCEPT !.lost = TRUE]}])
<1> DEFINE new == [player EXCEPT !.lost = TRUE]
           all == m.players \cup {new}
           r == [m EXCEPT !.players = all]
<1>1. new \in Player /\ new.lost /\ Right(pageOf, new.session, new.page)
  BY DEF Player
<1> HIDE DEF new
<1>2. IsFiniteSet(all)
  BY FS_AddElement DEF PlayersOK, MediaOK
<1>3. r = [registry |-> m.registry, players |-> all, imports |-> m.imports, sourced |-> m.sourced]
  <2>1. m = [registry |-> m.registry, players |-> m.players,
             imports |-> m.imports, sourced |-> m.sourced]
    BY DEF PlayersOK, MediaOK
  <2> HIDE DEF all
  <2> QED
    BY <2>1
<1>4. PlayersOK(r)
  <2> HIDE DEF r
  <2>1. MediaOK(r)
    BY <1>1, <1>2, <1>3 DEF PlayersOK, MediaOK
  <2>2. AllRight(r)
    BY <1>1, <1>3 DEF PlayersOK, AllRight
  <2>3. Attended(r)
    BY <1>1, <1>3 DEF PlayersOK, Attended, Held
  <2> QED
    BY <2>1, <2>2, <2>3 DEF PlayersOK
<1> QED
  BY <1>4 DEF new

LEMMA AttachKeeps ==
  ASSUME NEW m, PlayersOK(m), NEW n \in Nid, NEW h \in Hint,
         Right(pageOf, active, h.page), active \in Nat, document \in Document,
         NEW x \in Attach(m, n, h)
  PROVE  PlayersOK(x)
<1> DEFINE used == {p.id : p \in m.players \cup m.imports} \cup Range(m.registry)
           fresh == CHOOSE i \in 1 .. Cardinality(used) + 1 : i \notin used
           player == [id |-> fresh, nid |-> n, session |-> active, doc |-> document.index,
                      page |-> h.page, late |-> FALSE, lost |-> FALSE]
           made == Register(m, player)
<1>1. /\ IsNativeHls(h) => x = WithSource(made, player)
      /\ ~IsNativeHls(h) /\ browser = "factory" =>
           x \in {made, WithSource(made, player), Degrade(made, n), Degrade(m, n)}
      /\ ~IsNativeHls(h) /\ browser # "factory" /\ CanUseMse(h) =>
           x = [m EXCEPT !.imports = @ \cup {player}]
      /\ ~IsNativeHls(h) /\ browser # "factory" /\ ~CanUseMse(h) => x = Degrade(m, n)
  BY DEF Attach, IsNativeHls, CanUseMse, Sourcing
<1>2. fresh \in Nat
  <2>1. IsFiniteSet(used)
    BY FiniteIds DEF PlayersOK
  <2> HIDE DEF used
  <2>2. Cardinality(used) \in Nat /\ \E i \in 1 .. Cardinality(used) + 1 : i \notin used
    BY <2>1, FreshId
  <2> QED
    BY <2>2
<1> HIDE DEF fresh
<1>3. /\ player \in Player /\ player.nid = n
      /\ player.session = active /\ player.page = h.page
  BY <1>2 DEF Player, Hint, Document
<1> HIDE DEF player
<1>4. PlayersOK(made)
  BY <1>3, RegisterKeeps
<1> HIDE DEF made
<1>5. CASE IsNativeHls(h)
  BY <1>1, <1>4, <1>5, SourceKeeps
<1>6. CASE ~IsNativeHls(h) /\ browser = "factory"
  <2>1. PlayersOK(WithSource(made, player))
    BY <1>4, SourceKeeps
  <2>2. PlayersOK(Degrade(made, n)) /\ PlayersOK(Degrade(m, n))
    BY <1>4, DestroyKeeps DEF Degrade
  <2> QED
    BY <1>1, <1>4, <1>6, <2>1, <2>2
<1>7. CASE ~IsNativeHls(h) /\ browser # "factory" /\ CanUseMse(h)
  <2>1. m.imports \cup {player} \in SUBSET Player /\ IsFiniteSet(m.imports \cup {player})
    BY <1>3, FS_AddElement DEF PlayersOK, MediaOK
  <2>2. \A p \in m.imports \cup {player} : Right(pageOf, p.session, p.page)
    BY <1>3 DEF PlayersOK, AllRight
  <2> QED
    BY <1>1, <1>7, <2>1, <2>2, ImportsKeep
<1>8. CASE ~IsNativeHls(h) /\ browser # "factory" /\ ~CanUseMse(h)
  BY <1>1, <1>8, DestroyKeeps DEF Degrade
<1> QED
  BY <1>5, <1>6, <1>7, <1>8

LEMMA ImportedKeeps ==
  ASSUME NEW m, PlayersOK(m), NEW i \in m.imports, NEW x \in Imported(m, i)
  PROVE  PlayersOK(x)
<1> DEFINE waited == [m EXCEPT !.imports = @ \ {i}]
           made == Register(waited, i)
           thrown == [waited EXCEPT !.players = @ \cup {[i EXCEPT !.lost = TRUE]}]
<1>1. i \in Player /\ Right(pageOf, i.session, i.page)
  BY DEF PlayersOK, MediaOK, AllRight
<1>2. PlayersOK(waited)
  <2>1. m.imports \ {i} \in SUBSET Player /\ IsFiniteSet(m.imports \ {i})
    BY FS_RemoveElement DEF PlayersOK, MediaOK
  <2>2. \A p \in m.imports \ {i} : Right(pageOf, p.session, p.page)
    BY DEF PlayersOK, AllRight
  <2> QED
    BY <2>1, <2>2, ImportsKeep
<1>3. x \in {WithSource(made, i), Degrade(waited, i.nid), Degrade(thrown, i.nid),
             Degrade(WithSource(thrown, i), i.nid)}
  BY DEF Imported, Sourcing
<1> HIDE DEF waited
<1>4. PlayersOK(made) /\ PlayersOK(thrown)
  BY <1>1, <1>2, RegisterKeeps, ThrownKeeps
<1> HIDE DEF made, thrown
<1>5. PlayersOK(WithSource(made, i)) /\ PlayersOK(WithSource(thrown, i))
  BY <1>4, SourceKeeps
<1> QED
  BY <1>2, <1>3, <1>4, <1>5, DestroyKeeps DEF Degrade

(* What destroyAll leaves is lost, whatever is shown next.                 *)
LEMMA DestroyAllKeeps ==
  ASSUME NEW m, PlayersOK(m)
  PROVE  LET d == DestroyAll(m)
         IN  MediaOK(d) /\ AllRight(d) /\ \A p \in d.players : p.lost
<1> DEFINE d == DestroyAll(m)
<1>1. /\ d.players = m.players \ Registered(m)
      /\ d.imports = m.imports /\ d.registry = <<>>
      /\ d = [registry |-> d.registry, players |-> d.players,
              imports |-> d.imports, sourced |-> d.sourced]
  <2> DEFINE left == m.players \ Registered(m)
             quiet == m.sourced \ {Element(p) : p \in Registered(m)}
  <2>1. m = [registry |-> m.registry, players |-> m.players,
             imports |-> m.imports, sourced |-> m.sourced]
    BY DEF PlayersOK, MediaOK
  <2>2. d = [m EXCEPT !.players = left, !.sourced = quiet, !.registry = <<>>]
    BY DEF DestroyAll
  <2> HIDE DEF d, left, quiet
  <2>3. d = [registry |-> <<>>, players |-> left, imports |-> m.imports, sourced |-> quiet]
    BY <2>1, <2>2
  <2> QED
    BY <2>3 DEF left
<1>2. IsFiniteSet(d.players)
  BY <1>1, FS_Subset DEF PlayersOK, MediaOK
<1> HIDE DEF d
<1>3. DOMAIN d.registry = {}
  BY <1>1
<1>4. MediaOK(d) /\ AllRight(d)
  BY <1>1, <1>2, <1>3 DEF PlayersOK, MediaOK, AllRight
<1>5. \A p \in d.players : p.lost
  BY <1>1 DEF PlayersOK, Attended, Held, Registered, Range
<1> QED
  BY <1>4, <1>5 DEF d

-----------------------------------------------------------------------------
(* The steps.                                                              *)

LEMMA MediaInit == Init => Inv
<1> SUFFICES ASSUME Init PROVE Inv
  OBVIOUS
<1>1. TypeOK
  <2>1. /\ <<>> \in Seq(Nat) /\ <<>> \in Seq(Message) /\ <<>> \in Seq(Hint) /\ 0 \in 0 .. Len(<<>>)
    OBVIOUS
  <2> QED
    BY <2>1 DEF Init, TypeOK, Blank, Document
<1>2. WireRight /\ PendingRight
  BY DEF Init, WireRight, PendingRight
<1>3. PlayersOK(media)
  <2>1. media.players = {} /\ media.imports = {} /\ media.registry = <<>> /\ media.sourced = {}
    BY DEF Init, Idle
  <2>2. MediaOK(media)
    <3>1. media = [registry |-> <<>>, players |-> {}, imports |-> {}, sourced |-> {}]
      BY DEF Init, Idle
    <3>2. DOMAIN media.registry = {}
      BY <2>1
    <3> QED
      BY <2>1, <3>1, <3>2, FS_EmptySet DEF MediaOK
  <2> QED
    BY <2>1, <2>2 DEF PlayersOK, AllRight, Attended
<1> QED
  BY <1>1, <1>2, <1>3 DEF Inv

(* A step of the page or its adapter: sessions are only added, and what is *)
(* new on the wire is right.                                               *)
LEMMA SourceStep ==
  ASSUME Inv, UNCHANGED <<host, browser, viewer>>,
         page' \in Nat, stamp' \in 0 .. Len(pageOf'), \A r \in responses' : r.page \in Nat,
         pageOf' \in Seq(Nat), \A s : \A pg : Right(pageOf, s, pg) => Right(pageOf', s, pg),
         wire' \in Seq(Message),
         WireRight'
  PROVE  Inv'
<1>1. UNCHANGED <<active, document, streaming, pending, media>>
  BY DEF viewer
<1>2. TypeOK'
  BY <1>1 DEF Inv, TypeOK
<1>3. PendingRight'
  BY <1>1 DEF Inv, PendingRight
<1>4. PlayersOK(media)'
  <2>1. MediaOK(media)' /\ Attended(media)'
    BY <1>1 DEF Inv, PlayersOK, MediaOK, Attended, Held, InTime
  <2>2. AllRight(media)'
    BY <1>1 DEF Inv, PlayersOK, AllRight
  <2> QED
    BY <2>1, <2>2 DEF PlayersOK
<1> QED
  BY <1>2, <1>3, <1>4 DEF Inv

(* What is on the wire is right, and stays so.                             *)
LEMMA WireAdds ==
  ASSUME Inv, NEW m \in Message, wire' = Append(wire, m),
         \A s : \A pg : Right(pageOf, s, pg) => Right(pageOf', s, pg),
         m.type = "hint" => Right(pageOf', m.stamp, m.page)
  PROVE  /\ wire' \in Seq(Message)
         /\ WireRight'
<1>1. /\ wire' \in Seq(Message)
      /\ \A i \in DOMAIN wire' : (i \in DOMAIN wire /\ wire'[i] = wire[i]) \/ wire'[i] = m
  BY Sent DEF Inv, TypeOK
<1> QED
  BY <1>1 DEF Inv, WireRight

LEMMA WireLoses ==
  ASSUME Inv, wire # <<>>, wire' = Tail(wire) \/ wire' = wire,
         \A s : \A pg : Right(pageOf, s, pg) => Right(pageOf', s, pg)
  PROVE  /\ wire' \in Seq(Message)
         /\ WireRight'
<1>1. /\ wire' \in Seq(Message)
      /\ \A i \in DOMAIN wire' : \E j \in DOMAIN wire : wire'[i] = wire[j]
  <2>1. wire \in Seq(Message)
    BY DEF Inv, TypeOK
  <2>2. CASE wire' = wire
    BY <2>1, <2>2
  <2>3. CASE wire' = Tail(wire)
    BY <2>1, <2>3, Taken
  <2> QED
    BY <2>2, <2>3
<1> QED
  BY <1>1 DEF Inv, WireRight

LEMMA SamePages ==
  ASSUME UNCHANGED pageOf
  PROVE  \A s : \A pg : Right(pageOf, s, pg) => Right(pageOf', s, pg)
  BY DEF Right

LEMMA PageSteps == Inv /\ (Navigate \/ Ask \/ WorkerDies \/ Lose) => Inv'
<1> SUFFICES ASSUME Inv, Navigate \/ Ask \/ WorkerDies \/ Lose
             PROVE  Inv'
  OBVIOUS
<1>1. UNCHANGED <<host, browser, pageOf, viewer>>
  BY DEF Navigate, Ask, WorkerDies, Lose
<1>2. \A s : \A pg : Right(pageOf, s, pg) => Right(pageOf', s, pg)
  BY <1>1, SamePages
<1>3. page' \in Nat /\ stamp' \in 0 .. Len(pageOf') /\ pageOf' \in Seq(Nat)
  BY <1>1 DEF Navigate, Ask, WorkerDies, Lose, Inv, TypeOK
<1>4. \A r \in responses' : r.page \in Nat
  <2>1. CASE Ask
    BY <2>1 DEF Ask, Inv, TypeOK
  <2>2. CASE Navigate \/ WorkerDies \/ Lose
    BY <2>2 DEF Navigate, WorkerDies, Lose, Inv, TypeOK
  <2> QED
    BY <2>1, <2>2
<1>5. /\ wire' \in Seq(Message)
      /\ WireRight'
  <2>1. CASE Lose
    BY <1>2, <2>1, WireLoses DEF Lose
  <2>2. CASE Navigate \/ Ask \/ WorkerDies
    <3>1. UNCHANGED wire
      BY <2>2 DEF Navigate, Ask, WorkerDies
    <3> QED
      BY <1>2, <3>1 DEF Inv, TypeOK, WireRight
  <2> QED
    BY <2>1, <2>2
<1> QED
  BY <1>1, <1>2, <1>3, <1>4, <1>5, SourceStep

LEMMA CaptureStarts == Inv /\ StartCapture => Inv'
<1> SUFFICES ASSUME Inv, StartCapture PROVE Inv'
  OBVIOUS
<1> DEFINE m == [type |-> "snapshot", stamp |-> Session + 1]
<1>1. Session \in Nat /\ m \in Message /\ m.type # "hint"
  BY DEF Inv, TypeOK, Session, Message, SnapshotMessage
<1>2. /\ pageOf' = Append(pageOf, page) /\ stamp' = Session + 1 /\ wire' = Append(wire, m)
      /\ UNCHANGED <<host, browser, page, responses, viewer>>
  BY DEF StartCapture
<1>3. pageOf' \in Seq(Nat) /\ \A s \in DOMAIN pageOf : s \in DOMAIN pageOf' /\ pageOf'[s] = pageOf[s]
  BY <1>2 DEF Inv, TypeOK
<1>4. \A s : \A pg : Right(pageOf, s, pg) => Right(pageOf', s, pg)
  BY <1>3 DEF Right
<1> HIDE DEF m
<1>5. /\ wire' \in Seq(Message)
      /\ WireRight'
  BY <1>1, <1>2, <1>4, WireAdds
<1>6. page' \in Nat /\ stamp' \in 0 .. Len(pageOf') /\ \A r \in responses' : r.page \in Nat
  <2>1. Len(pageOf') = Session + 1
    BY <1>2 DEF Inv, TypeOK, Session
  <2> QED
    BY <1>1, <1>2, <2>1 DEF Inv, TypeOK
<1> QED
  BY <1>2, <1>3, <1>4, <1>5, <1>6, SourceStep

LEMMA ElementPlays ==
  ASSUME Inv, NEW n \in Nid, Plays(n)
  PROVE  Inv'
<1> DEFINE m == [type |-> "media", stamp |-> Session, nid |-> n]
<1>1. Session \in Nat /\ m \in Message /\ m.type # "hint"
  BY DEF Inv, TypeOK, Session, Message, MediaMessage
<1>2. /\ stamp' = Session /\ wire' = Append(wire, m)
      /\ UNCHANGED <<host, browser, page, pageOf, responses, viewer>>
  BY DEF Plays
<1>3. \A s : \A pg : Right(pageOf, s, pg) => Right(pageOf', s, pg)
  BY <1>2, SamePages
<1> HIDE DEF m
<1>4. /\ wire' \in Seq(Message)
      /\ WireRight'
  BY <1>1, <1>2, <1>3, WireAdds
<1>5. /\ page' \in Nat /\ stamp' \in 0 .. Len(pageOf') /\ pageOf' \in Seq(Nat)
      /\ \A r \in responses' : r.page \in Nat
  BY <1>1, <1>2 DEF Inv, TypeOK, Session
<1> QED
  BY <1>2, <1>3, <1>4, <1>5, SourceStep

(* A hint names its page only if the identity on it is that page's.        *)
LEMMA HintLeaves ==
  ASSUME Inv, NEW r \in responses, Reported(r)
  PROVE  Inv'
<1>1. /\ responses' = responses \ {r}
      /\ UNCHANGED <<host, browser, page, pageOf, stamp, viewer>>
  BY DEF Reported
<1>2. \A s : \A pg : Right(pageOf, s, pg) => Right(pageOf', s, pg)
  BY <1>1, SamePages
<1>3. /\ wire' \in Seq(Message)
      /\ WireRight'
  <2>1. CASE UNCHANGED wire
    BY <1>2, <2>1 DEF Inv, TypeOK, WireRight
  <2>2. CASE Emit(r)
    <3> DEFINE pg == IF stamp > 0 /\ pageOf[stamp] = r.page THEN r.page ELSE 0
    <3>1. PICK n \in Nid \cup {NoNid}, kind \in Kinds :
            wire' = Append(wire, [type |-> "hint", stamp |-> stamp, nid |-> n, kind |-> kind, page |-> pg])
      BY <2>2 DEF Emit, Kinds
    <3> DEFINE m == [type |-> "hint", stamp |-> stamp, nid |-> n, kind |-> kind, page |-> pg]
    <3>2. pg \in Nat /\ (pg # 0 => stamp > 0 /\ pageOf[stamp] = pg)
      BY DEF Inv, TypeOK
    <3> HIDE DEF pg
    <3>3. m \in Message /\ m.type = "hint" /\ m.stamp = stamp /\ m.page = pg
      BY <3>2 DEF Inv, TypeOK, Message, Hint
    <3>4. Right(pageOf, stamp, pg)
      BY <3>2 DEF Right, Inv, TypeOK
    <3>5. Right(pageOf', m.stamp, m.page)
      BY <1>1, <3>3, <3>4 DEF Right
    <3> HIDE DEF m
    <3> QED
      BY <1>2, <3>1, <3>3, <3>5, WireAdds DEF m
  <2> QED
    BY <2>1, <2>2 DEF Reported
<1>4. /\ page' \in Nat /\ stamp' \in 0 .. Len(pageOf') /\ pageOf' \in Seq(Nat)
      /\ \A q \in responses' : q.page \in Nat
  BY <1>1 DEF Inv, TypeOK
<1> QED
  BY <1>1, <1>2, <1>3, <1>4, SourceStep

(* A step of the viewer.                                                   *)
LEMMA ViewerStep ==
  ASSUME Inv, UNCHANGED <<host, browser, page, pageOf, stamp, responses>>,
         wire' = wire \/ (wire # <<>> /\ wire' = Tail(wire)),
         active' \in Nat, streaming' \in BOOLEAN, document' \in Document,
         streaming' => active' # 0,
         pending' \in Seq(Hint), PendingRight', PlayersOK(media)'
  PROVE  Inv'
<1>1. \A s : \A pg : Right(pageOf, s, pg) => Right(pageOf', s, pg)
  BY SamePages
<1>2. wire' \in Seq(Message) /\ WireRight'
  <2>1. CASE wire' = wire
    BY <2>1 DEF Inv, TypeOK, WireRight
  <2>2. CASE wire # <<>> /\ wire' = Tail(wire)
    BY <1>1, <2>2, WireLoses
  <2> QED
    BY <2>1, <2>2
<1>3. TypeOK'
  BY <1>2 DEF Inv, TypeOK
<1> QED
  BY <1>2, <1>3 DEF Inv

(* While the document shown stays the same.                                *)
LEMMA SameDocument ==
  ASSUME UNCHANGED <<active, browser, pageOf>>, PlayersOK(media')
  PROVE  PlayersOK(media)'
  BY DEF PlayersOK, MediaOK, AllRight, Attended, Held, InTime

LEMMA SnapshotArrives == Inv /\ HandleSnapshot => Inv'
<1> SUFFICES ASSUME Inv, HandleSnapshot PROVE Inv'
  OBVIOUS
<1>1. /\ wire # <<>> /\ Head(wire).type = "snapshot" /\ wire' = Tail(wire)
      /\ active' = Head(wire).stamp
      /\ document' = [document EXCEPT !.coming = active', !.index = 0]
      /\ media' = DestroyAll(media) /\ pending' = <<>>
      /\ UNCHANGED <<host, browser, page, pageOf, stamp, responses, streaming>>
  BY DEF HandleSnapshot, Receive, source
<1>2. active' \in Nat \ {0}
  <2>1. Head(wire) \in Message
    BY <1>1, Taken DEF Inv, TypeOK
  <2> QED
    BY <1>1, <2>1 DEF Message, SnapshotMessage, MediaMessage, Hint
<1>3. pending' \in Seq(Hint) /\ PendingRight'
  BY <1>1 DEF PendingRight
<1>4. PlayersOK(media)'
  <2>1. MediaOK(media') /\ AllRight(media') /\ \A p \in media'.players : p.lost
    BY <1>1, DestroyAllKeeps DEF Inv
  <2>2. MediaOK(media)' /\ AllRight(media)'
    BY <1>1, <2>1 DEF MediaOK, AllRight
  <2>3. Attended(media)'
    BY <2>1 DEF Attended
  <2> QED
    BY <2>2, <2>3 DEF PlayersOK
<1>5. streaming' \in BOOLEAN /\ document' \in Document
  BY <1>1, <1>2 DEF Inv, TypeOK, Document
<1> QED
  BY <1>1, <1>2, <1>3, <1>4, <1>5, ViewerStep

LEMMA DocumentMoves == Inv /\ (DocumentCommits \/ DocumentLoads) => Inv'
<1> SUFFICES ASSUME Inv, DocumentCommits \/ DocumentLoads PROVE Inv'
  OBVIOUS
<1>1. UNCHANGED <<host, browser, page, pageOf, stamp, responses, wire, active, pending, media>>
  BY DEF DocumentCommits, DocumentLoads, source
<1>2. /\ active' \in Nat /\ pending' \in Seq(Hint)
      /\ streaming' \in BOOLEAN /\ (streaming' => active' # 0)
      /\ document' \in Document
  <2>1. /\ document \in Document /\ active \in Nat /\ pending \in Seq(Hint)
        /\ streaming \in BOOLEAN /\ (streaming => active # 0)
    BY DEF Inv, TypeOK
  <2>2. CASE DocumentCommits
    BY <1>1, <2>1, <2>2 DEF DocumentCommits, Document
  <2>3. CASE DocumentLoads
    <3>1. document' \in Document
      BY <2>1, <2>3 DEF DocumentLoads, Document
    <3>2. streaming' = (active # 0)
      BY <2>3 DEF DocumentLoads
    <3> QED
      BY <1>1, <2>1, <3>1, <3>2
  <2> QED
    BY <2>2, <2>3
<1>3. PendingRight'
  BY <1>1 DEF Inv, PendingRight
<1>4. PlayersOK(media)'
  BY <1>1, SameDocument DEF Inv
<1> QED
  BY <1>1, <1>2, <1>3, <1>4, ViewerStep

(* The player settles or fails on its own.                                 *)
LEMMA PlayerSteps ==
  ASSUME Inv, UNCHANGED <<source, wire, active, document, streaming, pending, bound>>,
         PlayersOK(media')
  PROVE  Inv'
<1>1. UNCHANGED <<host, browser, page, pageOf, stamp, responses>>
  BY DEF source
<1>2. /\ active' \in Nat /\ streaming' \in BOOLEAN /\ document' \in Document
      /\ (streaming' => active' # 0)
      /\ pending' \in Seq(Hint)
  BY DEF Inv, TypeOK
<1>3. PendingRight'
  BY <1>1 DEF Inv, PendingRight
<1>4. PlayersOK(media)'
  BY <1>1, SameDocument
<1> QED
  BY <1>1, <1>2, <1>3, <1>4, ViewerStep

LEMMA PlayersMove ==
  ASSUME Inv,
         \/ \E i \in media.imports : ImportSettles(i)
         \/ \E p \in media.players : PlayerFails(p) \/ FactorySources(p)
  PROVE  Inv'
<1>0. PlayersOK(media)
  BY DEF Inv
<1>1. ASSUME NEW i \in media.imports, ImportSettles(i) PROVE Inv'
  <2>1. PlayersOK(media')
    BY <1>0, <1>1, ImportedKeeps DEF ImportSettles
  <2> QED
    BY <1>1, <2>1, PlayerSteps DEF ImportSettles
<1>2. ASSUME NEW p \in media.players, PlayerFails(p) PROVE Inv'
  <2>1. PlayersOK(media')
    BY <1>0, <1>2, DestroyKeeps DEF PlayerFails, Degrade
  <2> QED
    BY <1>2, <2>1, PlayerSteps DEF PlayerFails
<1>3. ASSUME NEW p \in media.players, FactorySources(p) PROVE Inv'
  <2>1. PlayersOK(media')
    BY <1>0, <1>3, SourceKeeps DEF FactorySources
  <2> QED
    BY <1>3, <2>1, PlayerSteps DEF FactorySources
<1> QED
  BY <1>1, <1>2, <1>3

(* A hint that is stored leaves only right ones in the store.              *)
LEMMA StoreKeeps ==
  ASSUME Inv, NEW h \in Hint, Right(pageOf, active, h.page)
  PROVE  /\ Store(h) \in Seq(Hint)
         /\ \A i \in DOMAIN Store(h) : Right(pageOf, active, Store(h)[i].page)
<1> DEFINE of == {i \in DOMAIN pending : pending[i].kind = h.kind}
           left == IF of = {} THEN pending ELSE RemoveAt(pending, CHOOSE i \in of : TRUE)
<1>1. pending \in Seq(Hint) /\ PendingRight
  BY DEF Inv, TypeOK
<1>2. left \in Seq(Hint) /\ \A i \in DOMAIN left : Right(pageOf, active, left[i].page)
  <2>1. CASE of = {}
    BY <1>1, <2>1 DEF PendingRight
  <2>2. CASE of # {}
    <3> DEFINE k == CHOOSE i \in of : TRUE
    <3>1. k \in DOMAIN pending
      BY <2>2
    <3> HIDE DEF k
    <3>2. /\ RemoveAt(pending, k) \in Seq(Hint)
          /\ \A i \in DOMAIN RemoveAt(pending, k) : \E j \in DOMAIN pending : RemoveAt(pending, k)[i] = pending[j]
      BY <1>1, <3>1, Dropped
    <3>3. \A i \in DOMAIN RemoveAt(pending, k) : Right(pageOf, active, RemoveAt(pending, k)[i].page)
      BY <1>1, <3>2 DEF PendingRight
    <3>4. left = RemoveAt(pending, k)
      BY <2>2 DEF k
    <3> HIDE DEF left
    <3> QED
      BY <3>2, <3>3, <3>4
  <2> QED
    BY <2>1, <2>2
<1> HIDE DEF left
<1>3. /\ Append(left, h) \in Seq(Hint)
      /\ \A i \in DOMAIN Append(left, h) :
           (i \in DOMAIN left /\ Append(left, h)[i] = left[i]) \/ Append(left, h)[i] = h
  BY <1>2, Sent
<1>4. Store(h) = Append(left, h)
  BY DEF Store, left
<1> QED
  BY <1>2, <1>3, <1>4

LEMMA HintArrives == Inv /\ HandleMediaHint => Inv'
<1> SUFFICES ASSUME Inv, HandleMediaHint PROVE Inv'
  OBVIOUS
<1> DEFINE h == Head(wire)
<1>1. /\ wire # <<>> /\ h.type = "hint" /\ wire' = Tail(wire)
      /\ UNCHANGED <<host, browser, page, pageOf, stamp, responses, active, document, streaming>>
  BY DEF HandleMediaHint, Receive, source
<1>2. h \in Hint /\ Right(pageOf, h.stamp, h.page)
  <2>1. h \in Message /\ 1 \in DOMAIN wire /\ h = wire[1]
    BY <1>1, Taken DEF Inv, TypeOK
  <2>2. h \in Hint
    BY <1>1, <2>1 DEF Message, SnapshotMessage, MediaMessage
  <2> QED
    BY <1>1, <2>1, <2>2 DEF Inv, WireRight
<1> HIDE DEF h
<1>3. /\ active' \in Nat /\ streaming' \in BOOLEAN /\ document' \in Document
      /\ (streaming' => active' # 0)
  BY <1>1 DEF Inv, TypeOK
<1>4. PlayersOK(media)
  BY DEF Inv
<1>5. CASE UNCHANGED <<pending, media>>
  <2>1. pending' \in Seq(Hint) /\ PendingRight' /\ PlayersOK(media)'
    BY <1>1, <1>4, <1>5, SameDocument DEF Inv, TypeOK, PendingRight
  <2> QED
    BY <1>1, <1>3, <2>1, ViewerStep
<1>6. CASE streaming /\ Current(h) /\ ~(h.stamp = 0 /\ active = 0)
  <2>1. Right(pageOf, active, h.page)
    <3>1. active # 0 /\ pageOf \in Seq(Nat)
      BY <1>6 DEF Inv, TypeOK
    <3>2. h.stamp = 0 \/ h.stamp = active
      BY <1>6, <3>1 DEF Current
    <3> QED
      BY <1>2, <3>1, <3>2 DEF Right
  <2>2. CASE media' = Degrade(media, h.nid) /\ UNCHANGED pending
    <3>1. PlayersOK(media')
      BY <1>4, <2>2, DestroyKeeps DEF Degrade
    <3>2. pending' \in Seq(Hint) /\ PendingRight' /\ PlayersOK(media)'
      BY <1>1, <2>2, <3>1, SameDocument DEF Inv, TypeOK, PendingRight
    <3> QED
      BY <1>1, <1>3, <3>2, ViewerStep
  <2>3. CASE pending' = Store(h) /\ UNCHANGED media
    <3>1. pending' \in Seq(Hint) /\ PendingRight'
      BY <1>1, <1>2, <2>1, <2>3, StoreKeeps DEF PendingRight
    <3>2. PlayersOK(media)'
      BY <1>1, <1>4, <2>3, SameDocument
    <3> QED
      BY <1>1, <1>3, <3>1, <3>2, ViewerStep
  <2>4. CASE h.nid \in Nid /\ BindAdaptiveHint(h.nid, h) /\ UNCHANGED pending
    <3>1. PlayersOK(media')
      <4>1. media' \in Attach(media, h.nid, h) /\ active \in Nat /\ document \in Document
        BY <2>4 DEF BindAdaptiveHint, Inv, TypeOK
      <4> QED
        BY <1>2, <1>4, <2>1, <2>4, <4>1, AttachKeeps
    <3>2. pending' \in Seq(Hint) /\ PendingRight' /\ PlayersOK(media)'
      BY <1>1, <2>4, <3>1, SameDocument DEF Inv, TypeOK, PendingRight
    <3> QED
      BY <1>1, <1>3, <3>2, ViewerStep
  <2> QED
    BY <1>5, <1>6, <2>2, <2>3, <2>4 DEF HandleMediaHint, Resolves, h
<1> QED
  BY <1>5, <1>6 DEF HandleMediaHint, h

LEMMA ElementHeard == Inv /\ HandleMedia => Inv'
<1> SUFFICES ASSUME Inv, HandleMedia PROVE Inv'
  OBVIOUS
<1>1. /\ wire # <<>> /\ wire' = Tail(wire)
      /\ UNCHANGED <<host, browser, page, pageOf, stamp, responses, active, document, streaming>>
  BY DEF HandleMedia, Receive, source
<1>2. /\ active' \in Nat /\ streaming' \in BOOLEAN /\ document' \in Document
      /\ (streaming' => active' # 0)
  BY <1>1 DEF Inv, TypeOK
<1>3. PlayersOK(media)
  BY DEF Inv
<1>4. CASE UNCHANGED <<pending, media>>
  <2>1. pending' \in Seq(Hint) /\ PendingRight' /\ PlayersOK(media)'
    BY <1>1, <1>3, <1>4, SameDocument DEF Inv, TypeOK, PendingRight
  <2> QED
    BY <1>1, <1>2, <2>1, ViewerStep
<1>5. ASSUME NEW n \in Nid, WantsPageHint(n), ConsumePageHint(n) PROVE Inv'
  <2>1. /\ Last(pending) \in Hint /\ Right(pageOf, active, Last(pending).page)
        /\ Front(pending) \in Seq(Hint)
        /\ \A i \in DOMAIN Front(pending) : i \in DOMAIN pending /\ Front(pending)[i] = pending[i]
    BY <1>5, Popped DEF WantsPageHint, Inv, TypeOK, PendingRight
  <2>2. pending' = Front(pending) /\ media' \in Attach(media, n, Last(pending)) /\ active \in Nat
      /\ document \in Document
    BY <1>5 DEF ConsumePageHint, BindAdaptiveHint, Inv, TypeOK
  <2>3. PlayersOK(media')
    BY <1>3, <2>1, <2>2, AttachKeeps
  <2>4. pending' \in Seq(Hint) /\ PendingRight'
    BY <1>1, <2>1, <2>2 DEF Inv, PendingRight
  <2>5. PlayersOK(media)'
    BY <1>1, <2>3, SameDocument
  <2> QED
    BY <1>1, <1>2, <2>4, <2>5, ViewerStep
<1> QED
  BY <1>4, <1>5 DEF HandleMedia, Resolves

LEMMA MediaStep == Inv /\ [Next]_vars => Inv'
<1> SUFFICES ASSUME Inv, [Next]_vars PROVE Inv'
  OBVIOUS
<1>1. CASE UNCHANGED vars
  BY <1>1 DEF vars, viewer, Inv, TypeOK, WireRight, PendingRight, PlayersOK, MediaOK,
              AllRight, Attended, Held, InTime
<1>2. ASSUME NEW n \in Nid, Plays(n) PROVE Inv'
  BY <1>2, ElementPlays
<1>3. ASSUME NEW r \in responses,
             HandleManifestResponse(r) \/ HandleCDPResponseReceived(r) \/ HandleManifestCompleted(r)
      PROVE  Inv'
  BY <1>3, HintLeaves DEF HandleManifestResponse, HandleCDPResponseReceived, HandleManifestCompleted
<1> QED
  BY <1>1, <1>2, <1>3, PageSteps, CaptureStarts, SnapshotArrives, DocumentMoves, HintArrives,
     ElementHeard, PlayersMove DEF Next

-----------------------------------------------------------------------------
(* A manifest never plays in an element of another page than the one whose *)
(* identity its hint was stamped with, through stored hints, snapshots and *)
(* late imports of hls.js, unless the document's load event came after the *)
(* next snapshot (handleMediaHint, maybeConsumePageHint and the load       *)
(* listeners in src/src/renderer/index.js, attach in media-player.js).     *)
THEOREM MediaAlwaysRight == Spec => []RightMedia
<1>1. Inv => RightMedia
  BY DEF Inv, PlayersOK, AllRight, Right, RightMedia
<1> QED
  BY <1>1, MediaInit, MediaStep, PTL DEF Spec

(* Whatever fails, arrives late or is replaced, a player that was not      *)
(* destroyed has its element's entry and goes with it at the next snapshot *)
(* at the latest, or its entry was overwritten, or it threw before it had  *)
(* one (registry, attach, destroy and destroyAll in media-player.js).      *)
THEOREM NeverStrayPlayer == Spec => []NoStrayPlayer
<1>1. Inv => NoStrayPlayer
  BY DEF Inv, PlayersOK, Attended, Held, InTime, NoStrayPlayer
<1> QED
  BY <1>1, MediaInit, MediaStep, PTL DEF Spec
=============================================================================
