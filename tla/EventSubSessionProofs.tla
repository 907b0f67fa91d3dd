------------------------- MODULE EventSubSessionProofs -------------------------
(***************************************************************************)
(* Proofs about EventSubSession, for any subscription types, any number of *)
(* sockets, reloads, retries, failures, migrations and restarts.           *)
(***************************************************************************)
EXTENDS EventSubSession, WellFoundedInduction, TLAPS

-----------------------------------------------------------------------------
(* What the operators return                                               *)

\* A new socket is one that nothing refers to.
LEMMA NewSocketIsFree ==
  ASSUME Free # {}
  PROVE  NewSocket \in Sockets /\ sock[NewSocket] = "closed"
<1>1. Free \subseteq Nat
  BY SocketsAssumption DEF Free, Sockets
<1>2. PICK x \in Free : \A y \in Free : ~(<<y, x>> \in OpToRel(<, Nat))
  BY <1>1, NatLessThanWellFounded, WFMin
<1>3. \A y \in Free : x <= y
  <2> TAKE y \in Free
  <2>1. ~(y < x)
    BY <1>1, <1>2 DEF OpToRel
  <2> QED
    BY <1>1, <2>1
<1>4. NewSocket \in Free
  BY <1>3 DEF NewSocket
<1> QED
  BY <1>4 DEF Free

LEMMA BumpedFacts ==
  ASSUME NEW q \in Seq(Entries)
  PROVE  /\ Bumped(q) \in Seq(Entries) /\ Len(Bumped(q)) = Len(q)
         /\ \A i \in 1 .. Len(q) : /\ Bumped(q)[i].kind = q[i].kind
                                   /\ Bumped(q)[i].refresh = q[i].refresh
<1>1. Len(q) \in Nat /\ \A i \in 1 .. Len(q) : q[i] \in Entries
  OBVIOUS
<1>2. \A i \in 1 .. Len(q) : LET e == [q[i] EXCEPT !.same = "no"]
                             IN  e \in Entries /\ e.kind = q[i].kind /\ e.refresh = q[i].refresh
  BY <1>1 DEF Entries
<1>3. \A i \in 1 .. Len(q) : Bumped(q)[i] = [q[i] EXCEPT !.same = "no"]
  BY DEF Bumped
<1>4. Bumped(q) \in [1 .. Len(q) -> Entries]
  BY <1>2 DEF Bumped
<1>5. Bumped(q) \in Seq(Entries) /\ Len(Bumped(q)) = Len(q)
  BY <1>1, <1>4
<1> QED
  BY <1>2, <1>3, <1>5

LEMMA EntryType ==
  ASSUME NEW kind \in {"pass", "reload"}, NEW session \in Links, NEW refresh \in {"yes", "no"}
  PROVE  LET e == Entry(kind, session, refresh)
         IN  e \in Entries /\ e.kind = kind /\ e.refresh = refresh
BY DEF Entry, Entries

LEMMA NoTypes ==
  /\ NoData \in Data /\ NoConn \in Conns /\ NoSubs \in [Types -> Links] /\ NoPass \in Passes
  /\ NotLoaded \in Loads
<1>1. NoData \in Data
  BY DEF NoData, Data, Tokens
<1>2. NoConn \in Conns
  BY <1>1, BoundsAssumption DEF NoConn, Conns, Links
<1>3. NoSubs \in [Types -> Links]
  BY DEF NoSubs, Links
<1>4. NoPass \in Passes
  BY <1>1, <1>3 DEF NoPass, Passes, Links
<1> QED
  BY <1>1, <1>2, <1>3, <1>4 DEF Loads

LEMMA BeginType ==
  ASSUME NEW data \in Data, NEW session \in Links
  PROVE  LET p == Begin(data, session)
         IN  /\ p \in Passes /\ p.step \in {"list", "prune"} /\ p.data = data
             /\ p.step = "list" => p.todo = data.wanted
             /\ p.step = "prune" => data.token = "none" /\ p.todo = {}
<1>1. /\ NoPass \in Passes
      /\ NoPass.todo = {} /\ data.wanted \in SUBSET Types
  BY NoTypes DEF NoPass, Data
<1>2. (IF data.token = "none" THEN {} ELSE data.wanted) \in SUBSET Types
  BY <1>1
<1> QED
  BY <1>1, <1>2 DEF Begin, Passes

-----------------------------------------------------------------------------
(* The inductive invariant                                                 *)

\* A reload waits in the subscribe chain, or runs.
Reloading == \E i \in 1 .. Len(chain) : chain[i].kind = "reload"

\* OneLink, and a connection that was stopped leaves nothing behind.
ConnInv ==
  /\ conn.state = "none" => conn = NoConn /\ chain = <<>> /\ pass = NoPass
  /\ OneLink

\* The pass that runs is the head of the chain; every pass that waits will resolve its token again.
ChainInv ==
  /\ pass.step # "idle" => chain # <<>>
  /\ \A i \in 1 .. Len(chain) :
       chain[i].kind = "pass" /\ chain[i].refresh = "no" => i = 1 /\ pass.step # "idle"

\* No pass subscribes with a token that was left to expire: a reload's token is fresh and outlasts
\* its pass, and a pass whose data a reload replaced while it refreshed has that reload behind it.
TokenInv ==
  /\ top.loaded.token # "expired"
  /\ Reloading => conn.data.token # "expired"
  /\ pass.step = "token" => pass.fresh = "yes" \/ Reloading
  /\ pass.step = "token" => chain[1].kind = "pass"
  /\ pass.step \notin {"idle", "token"} => pass.data.token # "expired"

\* While the authorization stands, a pass with a valid token loses no type: each is still to do,
\* subscribed, or failed for the moment.
PassInv ==
  /\ pass.step = "prune" => pass.todo = {}
  /\ pass.step \in {"list", "ensure", "prune"} /\ pass.data.token = "valid" /\ grant = "valid" =>
       \A t \in pass.data.wanted : t \in pass.todo \cup pass.live \/ pass.transient = "yes"

IInv == TypeOK /\ ConnInv /\ ChainInv /\ TokenInv /\ PassInv

LEMMA InitInv == Init => IInv
<1> SUFFICES ASSUME Init PROVE IInv
  OBVIOUS
<1> USE DEF Init
<1>1. TypeOK
  BY NoTypes, BoundsAssumption, ReloadsAssumption DEF TypeOK, SocketStates
<1>2. ConnInv
  BY DEF ConnInv, OneLink, NoConn
<1>3. ChainInv /\ TokenInv /\ PassInv
  BY DEF ChainInv, TokenInv, PassInv, Reloading, NoPass, NotLoaded
<1> QED
  BY <1>1, <1>2, <1>3 DEF IInv

-----------------------------------------------------------------------------
(* What joins the chain and what leaves it                                 *)

LEMMA AppendFacts ==
  ASSUME NEW S, NEW q \in Seq(S), NEW x \in S
  PROVE  /\ Append(q, x) \in Seq(S) /\ Len(Append(q, x)) = Len(q) + 1 /\ Append(q, x) # <<>>
         /\ \A i \in 1 .. Len(q) : Append(q, x)[i] = q[i]
         /\ Append(q, x)[Len(q) + 1] = x
<1>1. /\ Append(q, x) \in Seq(S) /\ Len(Append(q, x)) = Len(q) + 1 /\ Len(q) \in Nat
      /\ \A i \in 1 .. Len(q) : Append(q, x)[i] = q[i]
      /\ Append(q, x)[Len(q) + 1] = x
  OBVIOUS
<1> QED
  BY <1>1

LEMMA TailFacts ==
  ASSUME NEW S, NEW q \in Seq(S), q # <<>>
  PROVE  /\ Head(q) \in S /\ Head(q) = q[1] /\ Len(q) \in Nat \ {0}
         /\ Tail(q) \in Seq(S) /\ Len(Tail(q)) = Len(q) - 1
         /\ \A i \in 1 .. Len(Tail(q)) : Tail(q)[i] = q[i + 1]
OBVIOUS

\* freshSessionGeneration++ leaves the chain as it is but for the generation.
LEMMA BumpKeepsChain ==
  ASSUME IInv, chain' = Bumped(chain), UNCHANGED pass
  PROVE  /\ chain' \in Seq(Entries) /\ Len(chain') <= MaxQueue /\ ChainInv' /\ (Reloading' <=> Reloading)
         /\ chain # <<>> => chain'[1].kind = chain[1].kind
<1>1. chain \in Seq(Entries) /\ Len(chain) <= MaxQueue /\ Len(chain) \in Nat
  BY DEF IInv, TypeOK
<1>2. /\ chain' \in Seq(Entries) /\ Len(chain') = Len(chain)
      /\ \A i \in 1 .. Len(chain) : chain'[i].kind = chain[i].kind /\ chain'[i].refresh = chain[i].refresh
  BY <1>1, BumpedFacts
<1>3. chain # <<>> => chain' # <<>> /\ Len(chain) >= 1
  BY <1>1, <1>2
<1>4. (Reloading' <=> Reloading)
  BY <1>2 DEF Reloading
<1>5. ChainInv'
  BY <1>2, <1>3 DEF IInv, ChainInv
<1> QED
  BY <1>1, <1>2, <1>3, <1>4, <1>5

\* An entry that joins is a reload, or a pass that resolves its token again.
LEMMA JoinKeepsChain ==
  ASSUME IInv, NEW q \in {chain, Bumped(chain)}, NEW e \in Entries, chain' = Append(q, e),
         Len(chain) < MaxQueue, e.kind = "pass" => e.refresh = "yes",
         pass'.step = pass.step
  PROVE  /\ chain' \in Seq(Entries) /\ Len(chain') <= MaxQueue /\ ChainInv'
         /\ Reloading' <=> Reloading \/ e.kind = "reload"
         /\ chain # <<>> => chain'[1].kind = chain[1].kind
<1>1. chain \in Seq(Entries) /\ Len(chain) \in Nat
  BY DEF IInv, TypeOK
<1>2. /\ q \in Seq(Entries) /\ Len(q) = Len(chain)
      /\ \A i \in 1 .. Len(chain) : q[i].kind = chain[i].kind /\ q[i].refresh = chain[i].refresh
  BY <1>1, BumpedFacts
<1>3. /\ chain' \in Seq(Entries) /\ Len(chain') = Len(chain) + 1 /\ chain' # <<>>
      /\ \A i \in 1 .. Len(chain) : chain'[i] = q[i]
      /\ chain'[Len(chain) + 1] = e
  BY <1>2, AppendFacts
<1>4. \A i \in 1 .. Len(chain') : i \in 1 .. Len(chain) \/ i = Len(chain) + 1
  BY <1>1, <1>3
<1>5. Reloading' <=> Reloading \/ e.kind = "reload"
  <2>1. Len(chain) + 1 \in 1 .. Len(chain') /\ \A i \in 1 .. Len(chain) : i \in 1 .. Len(chain')
    BY <1>1, <1>3
  <2> QED
    BY <1>2, <1>3, <1>4, <2>1 DEF Reloading
<1>6. ChainInv'
  BY <1>2, <1>3, <1>4 DEF IInv, ChainInv
<1>7. chain # <<>> => Len(chain) >= 1
  BY <1>1
<1>8. Len(chain') <= MaxQueue
  BY <1>1, <1>3, BoundsAssumption
<1> QED
  BY <1>1, <1>2, <1>3, <1>5, <1>6, <1>7, <1>8

\* The head leaves, and a pass that resolves its token again may take its turn at the end.
LEMMA LeaveKeepsChain ==
  ASSUME IInv, chain # <<>>, chain' = Tail(chain), pass'.step = "idle"
  PROVE  chain' \in Seq(Entries) /\ Len(chain') <= MaxQueue /\ ChainInv' /\ (Reloading' => Reloading)
<1>1. chain \in Seq(Entries) /\ Len(chain) \in Nat /\ Len(chain) <= MaxQueue
  BY DEF IInv, TypeOK
<1>2. /\ chain' \in Seq(Entries) /\ Len(chain') = Len(chain) - 1
      /\ \A i \in 1 .. Len(chain') : chain'[i] = chain[i + 1] /\ i + 1 \in 1 .. Len(chain) /\ i + 1 # 1
  BY <1>1, TailFacts
<1>3. ChainInv'
  BY <1>2 DEF IInv, ChainInv
<1>4. Reloading' => Reloading
  BY <1>2 DEF Reloading
<1>5. Len(chain') <= MaxQueue
  BY <1>1, <1>2, BoundsAssumption
<1> QED
  BY <1>2, <1>3, <1>4, <1>5

LEMMA CarryKeepsChain ==
  ASSUME IInv, chain # <<>>, NEW c \in Conns, NEW e, Carry(c, e, Tail(chain)), pass'.step = "idle"
  PROVE  /\ chain' \in Seq(Entries) /\ Len(chain') <= MaxQueue /\ ChainInv' /\ (Reloading' => Reloading)
         /\ conn' \in Conns /\ conn'.data = c.data
         /\ <<conn'.state, conn'.ws, conn'.old, conn'.timer>> = <<c.state, c.ws, c.old, c.timer>>
<1>1. chain \in Seq(Entries) /\ Len(chain) \in Nat /\ Len(chain) <= MaxQueue
  BY DEF IInv, TypeOK
<1>2. /\ Tail(chain) \in Seq(Entries) /\ Len(Tail(chain)) = Len(chain) - 1
      /\ \A i \in 1 .. Len(Tail(chain)) : Tail(chain)[i] = chain[i + 1] /\ i + 1 \in 1 .. Len(chain) /\ i + 1 # 1
  BY <1>1, TailFacts
<1>3. chain' = Tail(chain) \/ chain' = Append(Tail(chain), QueuedPass(c.session))
  BY DEF Carry
<1>4. conn' = c \/ conn' = [c EXCEPT !.deferred = "yes"]
  BY DEF Carry
<1>5. /\ conn' \in Conns /\ conn'.data = c.data
      /\ <<conn'.state, conn'.ws, conn'.old, conn'.timer>> = <<c.state, c.ws, c.old, c.timer>>
  BY <1>4 DEF Conns
<1>6. CASE chain' = Tail(chain)
  BY <1>5, <1>6, LeaveKeepsChain
<1>7. CASE chain' = Append(Tail(chain), QueuedPass(c.session))
  <2> DEFINE x == QueuedPass(c.session)
  <2>1. x \in Entries /\ x.kind = "pass" /\ x.refresh = "yes"
    BY EntryType DEF Conns, QueuedPass
  <2> HIDE DEF x
  <2>2. /\ chain' \in Seq(Entries) /\ Len(chain') = Len(chain)
        /\ \A i \in 1 .. Len(Tail(chain)) : chain'[i] = Tail(chain)[i]
        /\ chain'[Len(chain)] = x
    BY <1>1, <1>2, <1>7, <2>1, AppendFacts DEF x
  <2>3. \A i \in 1 .. Len(chain') : i \in 1 .. Len(Tail(chain)) \/ i = Len(chain)
    <3>1. Len(chain) \in Nat /\ Len(Tail(chain)) = Len(chain) - 1 /\ Len(chain') = Len(chain)
      BY <1>1, <1>2, <2>2
    <3>2. \A n \in Nat : \A i \in 1 .. n : i \in 1 .. (n - 1) \/ i = n
      OBVIOUS
    <3> QED
      BY <3>1, <3>2
  <2>4. ChainInv'
    BY <1>2, <2>1, <2>2, <2>3 DEF IInv, ChainInv
  <2>5. Reloading' => Reloading
    BY <1>2, <2>1, <2>2, <2>3 DEF Reloading
  <2> QED
    BY <1>1, <1>5, <2>2, <2>4, <2>5
<1> QED
  BY <1>3, <1>6, <1>7

-----------------------------------------------------------------------------
(* Reloads, and what happens around the connection                         *)

LEMMA UseEventType == ASSUME IInv, UseEvent \/ UNCHANGED used PROVE used' \in 0 .. MaxEvents
BY BoundsAssumption DEF IInv, TypeOK, UseEvent

LEMMA ReloadType ==
  ASSUME IInv
  PROVE  Reload \in [waiting : 0 .. MaxReloads, loaded : Loads] /\ Reload.loaded = top.loaded
BY ReloadsAssumption DEF Reload, IInv, TypeOK

\* Nothing of the connection changes, and an authorization that was revoked stays so.
LEMMA WorldKeepsInv ==
  ASSUME IInv, ChangeConfig \/ TopLoads \/ TwitchDrops \/ SubRevoked \/ GrantRevoked
  PROVE  IInv'
<1>1. UNCHANGED <<sock, conn, chain, pass, zombie, dropped>>
  BY DEF ChangeConfig, TopLoads, TwitchDrops, SubRevoked, GrantRevoked
<1>2. grant' \in {"valid", "revoked"} /\ (grant' = "valid" => grant = "valid")
  BY DEF IInv, TypeOK, ChangeConfig, TopLoads, TwitchDrops, SubRevoked, GrantRevoked
<1>3. db' \in Configs
  BY DEF IInv, TypeOK, ChangeConfig, TopLoads, TwitchDrops, SubRevoked, GrantRevoked
<1>4. subs' \in [Types -> Links]
  BY NoTypes DEF IInv, TypeOK, ChangeConfig, TopLoads, TwitchDrops, SubRevoked, GrantRevoked, Links
<1>5. used' \in 0 .. MaxEvents
  <2>1. CASE TopLoads
    BY <2>1, UseEventType DEF TopLoads
  <2> QED
    BY <2>1, UseEventType DEF ChangeConfig, TwitchDrops, SubRevoked, GrantRevoked
<1>6. top' \in [waiting : 0 .. MaxReloads, loaded : Loads] /\ top'.loaded.token # "expired"
  <2>1. CASE TopLoads
    <3>1. PICK token \in {"valid", "none"} : top' = [waiting |-> top.waiting - 1, loaded |-> [db |-> db, token |-> token]]
      BY <2>1 DEF TopLoads
    <3>2. [db |-> db, token |-> token] \in Loads
      BY DEF IInv, TypeOK, Loads, Tokens
    <3>3. top.waiting - 1 \in 0 .. MaxReloads
      BY <2>1, ReloadsAssumption DEF TopLoads, IInv, TypeOK
    <3> QED
      BY <3>1, <3>2, <3>3
  <2>2. CASE top' = Reload \/ UNCHANGED top
    BY <2>2, ReloadType DEF IInv, TypeOK, TokenInv
  <2> QED
    BY <2>1, <2>2 DEF ChangeConfig, TwitchDrops, SubRevoked, GrantRevoked
<1>7. TypeOK'
  BY <1>1, <1>2, <1>3, <1>4, <1>5, <1>6 DEF IInv, TypeOK
<1>8. ConnInv' /\ ChainInv'
  BY <1>1 DEF IInv, ConnInv, OneLink, ChainInv
<1>9. TokenInv'
  BY <1>1, <1>6 DEF IInv, TokenInv, Reloading
<1>10. PassInv'
  BY <1>1, <1>2 DEF IInv, PassInv
<1> QED
  BY <1>7, <1>8, <1>9, <1>10 DEF IInv

\* stop() leaves nothing open, whatever becomes of the pass.
LEMMA StopKeepsInv ==
  ASSUME IInv, NEW why \in {"no", "lapsed", "reload"}, StopConnection(why), UNCHANGED <<db, grant, subs, used>>,
         zombie' \in Passes, top' \in [waiting : 0 .. MaxReloads, loaded : Loads], top'.loaded.token # "expired"
  PROVE  IInv'
<1>1. /\ conn' = NoConn /\ chain' = <<>> /\ pass' = NoPass /\ dropped' = why
      /\ sock' = [s \in Sockets |-> IF s \in {conn.ws, conn.old} THEN "closed" ELSE sock[s]]
  BY DEF StopConnection
<1>2. sock' \in [Sockets -> SocketStates] /\ \A s \in Sockets : sock'[s] = "closed"
  BY <1>1 DEF IInv, TypeOK, ConnInv, OneLink, SocketStates
<1>3. TypeOK'
  BY <1>1, <1>2, NoTypes, BoundsAssumption DEF IInv, TypeOK
<1>4. ConnInv'
  BY <1>1, <1>2 DEF ConnInv, OneLink, NoConn
<1>5. ChainInv' /\ TokenInv' /\ PassInv'
  BY <1>1 DEF ChainInv, TokenInv, PassInv, Reloading, NoPass
<1> QED
  BY <1>3, <1>4, <1>5 DEF IInv

LEMMA NotLoadedType ==
  ASSUME IInv, top' = [top EXCEPT !.loaded = NotLoaded]
  PROVE  top' \in [waiting : 0 .. MaxReloads, loaded : Loads] /\ top'.loaded.token # "expired"
BY NoTypes DEF IInv, TypeOK, NotLoaded

LEMMA StopRemovedKeepsInv == ASSUME IInv, StopRemoved PROVE IInv'
<1>1. zombie' \in Passes
  BY NoTypes DEF StopRemoved, IInv, TypeOK
<1> QED
  BY <1>1, NotLoadedType, StopKeepsInv DEF StopRemoved

LEMMA LoadedType ==
  ASSUME IInv, top.loaded # NotLoaded
  PROVE  Loaded \in Data /\ Loaded.token # "expired"
<1>1. top.loaded \in [db : Configs, token : Tokens]
  BY DEF IInv, TypeOK, Loads
<1>2. top.loaded.db.types \subseteq Types
  BY <1>1 DEF Configs, Removed
<1> QED
  BY <1>1, <1>2 DEF Loaded, Data, IInv, TokenInv

LEMMA StartKeepsInv == ASSUME IInv, StartConnection PROVE IInv'
<1>1. /\ conn.state = "none" /\ Free # {} /\ dropped' = "no"
      /\ conn' = [NoConn EXCEPT !.state = "running", !.ws = NewSocket, !.data = Loaded]
      /\ sock' = [sock EXCEPT ![NewSocket] = "opening"]
      /\ UNCHANGED <<db, grant, subs, chain, pass, zombie, used>>
  BY DEF StartConnection
<1>2. top' \in [waiting : 0 .. MaxReloads, loaded : Loads] /\ top'.loaded.token # "expired"
  BY NotLoadedType DEF StartConnection
<1>3. NewSocket \in Sockets /\ NewSocket # None
  BY <1>1, NewSocketIsFree, NoneAssumption
<1>4. conn = NoConn /\ chain = <<>> /\ pass = NoPass /\ \A s \in Sockets : sock[s] = "closed"
  BY <1>1, NoneAssumption DEF IInv, ConnInv, OneLink, NoConn
<1>5. sock' \in [Sockets -> SocketStates] /\ \A s \in Sockets : sock'[s] # "closed" => s = NewSocket
  BY <1>1, <1>4 DEF IInv, TypeOK, SocketStates
<1>6. /\ conn' \in Conns /\ conn'.state = "running" /\ conn'.ws = NewSocket /\ conn'.timer = "off"
      /\ conn'.data = Loaded
  <2>1. Loaded \in Data
    BY LoadedType DEF StartConnection
  <2>2. NoConn \in Conns /\ NoConn.timer = "off"
    BY NoTypes DEF NoConn
  <2>3. NewSocket \in Links
    BY <1>3 DEF Links
  <2> QED
    BY <1>1, <2>1, <2>2, <2>3 DEF Conns
<1>7. TypeOK'
  BY <1>1, <1>2, <1>5, <1>6 DEF IInv, TypeOK
<1>8. ConnInv'
  BY <1>3, <1>5, <1>6 DEF ConnInv, OneLink
<1>9. ChainInv' /\ TokenInv' /\ PassInv'
  BY <1>1, <1>2, <1>4 DEF ChainInv, TokenInv, PassInv, Reloading, NoPass
<1> QED
  BY <1>7, <1>8, <1>9 DEF IInv

LEMMA ReloadKeepsInv == ASSUME IInv, ReloadConnection PROVE IInv'
<1>1. /\ conn.state = "running" /\ Len(chain) < MaxQueue
      /\ conn' = [conn EXCEPT !.data = Loaded, !.retry = "off", !.attempts = 0]
      /\ chain' = Append(chain, Entry("reload", None, "no"))
      /\ pass' = IF pass.step = "token" THEN [pass EXCEPT !.fresh = "no"] ELSE pass
      /\ UNCHANGED <<db, grant, sock, subs, zombie, dropped, used>>
  BY DEF ReloadConnection
<1>2. top' \in [waiting : 0 .. MaxReloads, loaded : Loads] /\ top'.loaded.token # "expired"
  BY NotLoadedType DEF ReloadConnection
<1>3. Loaded \in Data /\ Loaded.token # "expired"
  BY LoadedType DEF ReloadConnection
<1>4. conn \in Conns /\ pass \in Passes
  BY DEF IInv, TypeOK
<1>5. /\ conn' \in Conns /\ conn'.data = Loaded
      /\ <<conn'.state, conn'.ws, conn'.old, conn'.timer>> = <<conn.state, conn.ws, conn.old, conn.timer>>
  <2>1. 0 \in 0 .. MaxAttempts
    BY BoundsAssumption
  <2> QED
    BY <1>1, <1>3, <1>4, <2>1 DEF Conns
<1>6. /\ pass' \in Passes /\ pass'.step = pass.step /\ pass'.todo = pass.todo /\ pass'.live = pass.live
      /\ pass'.data = pass.data /\ pass'.transient = pass.transient
  BY <1>1, <1>4 DEF Passes
<1>7. /\ chain' \in Seq(Entries) /\ Len(chain') <= MaxQueue /\ ChainInv' /\ Reloading'
      /\ chain # <<>> => chain'[1].kind = chain[1].kind
  <2>1. LET e == Entry("reload", None, "no") IN e \in Entries /\ e.kind = "reload"
    BY EntryType DEF Links
  <2> QED
    BY <1>1, <1>6, <2>1, JoinKeepsChain
<1>8. TypeOK'
  BY <1>1, <1>2, <1>5, <1>6, <1>7 DEF IInv, TypeOK
<1>9. ConnInv'
  BY <1>1, <1>5 DEF IInv, ConnInv, OneLink
<1>10. TokenInv'
  BY <1>2, <1>3, <1>5, <1>6, <1>7 DEF IInv, ChainInv, TokenInv
<1>11. PassInv'
  BY <1>1, <1>6 DEF IInv, PassInv
<1> QED
  BY <1>7, <1>8, <1>9, <1>10, <1>11 DEF IInv

-----------------------------------------------------------------------------
(* Sockets and sessions                                                    *)

\* A running connection that changes its sockets keeps its chain, its pass and its token.
LEMMA LinkKeepsInv ==
  ASSUME IInv, conn' \in Conns, conn'.state = "running", sock' \in [Sockets -> SocketStates],
         conn'.ws = None <=> conn'.timer = "on",
         \A s \in Sockets : sock'[s] # "closed" => s \in {conn'.ws, conn'.old},
         conn'.data.token = "expired" => conn.data.token = "expired" \/ ~Reloading',
         chain' \in Seq(Entries), Len(chain') <= MaxQueue, ChainInv', Reloading' => Reloading,
         chain # <<>> => chain'[1].kind = chain[1].kind, Reloading => Reloading',
         subs' \in [Types -> Links], used' \in 0 .. MaxEvents,
         UNCHANGED <<db, grant, pass, zombie, top, dropped>>
  PROVE  IInv'
<1>1. TypeOK'
  BY DEF IInv, TypeOK
<1>2. ConnInv'
  BY DEF ConnInv, OneLink
<1>3. TokenInv'
  BY DEF IInv, ChainInv, TokenInv
<1>4. PassInv'
  BY DEF IInv, PassInv
<1> QED
  BY <1>1, <1>2, <1>3, <1>4 DEF IInv

\* What LinkKeepsInv asks of the chain, when it stays as it is.
LEMMA ChainStays ==
  ASSUME IInv, UNCHANGED <<chain, pass>>
  PROVE  /\ chain' \in Seq(Entries) /\ Len(chain') <= MaxQueue /\ ChainInv' /\ (Reloading' <=> Reloading)
         /\ chain # <<>> => chain'[1].kind = chain[1].kind
BY DEF IInv, TypeOK, ChainInv, Reloading

\* A connection with a socket, a timer or an old socket runs.
LEMMA RunningFacts ==
  ASSUME IInv
  PROVE  /\ conn \in Conns /\ sock \in [Sockets -> SocketStates] /\ subs \in [Types -> Links]
         /\ used \in 0 .. MaxEvents
         /\ conn.ws # None => conn.state = "running" /\ conn.timer = "off" /\ conn.ws \in Sockets
         /\ conn.timer = "on" => conn.state = "running" /\ conn.ws = None
         /\ conn.old # None \/ conn.retry = "on" => conn.state = "running"
         /\ chain # <<>> \/ pass.step # "idle" => conn.state = "running"
         /\ conn.data.token # "none" => conn.state = "running"
         /\ conn.state = "running" => (conn.ws = None <=> conn.timer = "on")
         /\ \A s \in Sockets : sock[s] # "closed" => s \in {conn.ws, conn.old}
<1>1. conn \in Conns /\ sock \in [Sockets -> SocketStates] /\ subs \in [Types -> Links] /\ used \in 0 .. MaxEvents
  BY DEF IInv, TypeOK
<1>2. conn.state \in {"none", "running"} /\ conn.ws \in Links /\ conn.timer \in {"on", "off"}
  BY <1>1 DEF Conns
<1>3. NoConn.ws = None /\ NoConn.timer = "off" /\ NoConn.old = None /\ NoConn.retry = "off" /\ NoConn.data.token = "none"
  BY DEF NoConn, NoData
<1>4. NoPass.step = "idle"
  BY DEF NoPass
<1> QED
  BY <1>1, <1>2, <1>3, <1>4 DEF IInv, ConnInv, OneLink, Links

LEMMA ReconnectKeepsInv == ASSUME IInv, ReconnectTimerFires PROVE IInv'
<1>1. /\ conn.timer = "on" /\ Free # {}
      /\ conn' = [conn EXCEPT !.timer = "off", !.ws = NewSocket]
      /\ sock' = [sock EXCEPT ![NewSocket] = "opening"]
      /\ UNCHANGED <<db, grant, subs, chain, pass, zombie, top, dropped, used>>
  BY DEF ReconnectTimerFires
<1>2. NewSocket \in Sockets /\ NewSocket \in Links /\ NewSocket # None
  BY <1>1, NewSocketIsFree, NoneAssumption DEF Links
<1>3. /\ conn \in Conns /\ sock \in [Sockets -> SocketStates] /\ conn.state = "running" /\ conn.ws = None
      /\ \A s \in Sockets : sock[s] # "closed" => s \in {conn.ws, conn.old}
  BY <1>1, RunningFacts
<1>4. /\ conn' \in Conns /\ conn'.state = "running" /\ conn'.ws = NewSocket /\ conn'.timer = "off"
      /\ conn'.old = conn.old /\ conn'.data = conn.data
  BY <1>1, <1>2, <1>3 DEF Conns
<1>5. sock' \in [Sockets -> SocketStates] /\ \A s \in Sockets : sock'[s] # "closed" => s \in {conn'.ws, conn'.old}
  BY <1>1, <1>2, <1>3, <1>4, NoneAssumption DEF SocketStates
<1> QED
  BY <1>1, <1>2, <1>4, <1>5, ChainStays, RunningFacts, LinkKeepsInv

LEMMA SessionReconnectKeepsInv == ASSUME IInv, SessionReconnect PROVE IInv'
<1>1. /\ conn.ws # None /\ Free # {}
      /\ sock' = [s \in Sockets |-> CASE s = NewSocket -> "opening"
                                      [] s = conn.old  -> "closed"
                                      [] OTHER         -> sock[s]]
      /\ conn' = [conn EXCEPT !.ws = NewSocket, !.old = conn.ws, !.migrating = "yes"]
      /\ UNCHANGED <<db, grant, subs, chain, pass, zombie, top, dropped>>
  BY DEF SessionReconnect
<1>2. NewSocket \in Sockets /\ NewSocket \in Links /\ NewSocket # None
  BY <1>1, NewSocketIsFree, NoneAssumption DEF Links
<1>3. /\ conn \in Conns /\ sock \in [Sockets -> SocketStates] /\ conn.state = "running" /\ conn.timer = "off"
      /\ \A s \in Sockets : sock[s] # "closed" => s \in {conn.ws, conn.old}
  BY <1>1, RunningFacts
<1>4. /\ conn' \in Conns /\ conn'.state = "running" /\ conn'.ws = NewSocket /\ conn'.timer = "off"
      /\ conn'.old = conn.ws /\ conn'.data = conn.data
  BY <1>1, <1>2, <1>3 DEF Conns
<1>5. sock' \in [Sockets -> SocketStates]
  BY <1>1, <1>3 DEF SocketStates
<1>6. \A s \in Sockets : sock'[s] # "closed" => s \in {conn'.ws, conn'.old}
  BY <1>1, <1>3, <1>4
<1>7. used' \in 0 .. MaxEvents
  BY UseEventType DEF SessionReconnect
<1> QED
  BY <1>1, <1>2, <1>4, <1>5, <1>6, <1>7, ChainStays, RunningFacts, LinkKeepsInv

LEMMA MigrationCloseKeepsInv == ASSUME IInv, MigrationCloseTimer PROVE IInv'
<1>1. /\ conn.old # None
      /\ sock' = [sock EXCEPT ![conn.old] = "closed"]
      /\ conn' = [conn EXCEPT !.old = None]
      /\ UNCHANGED <<db, grant, subs, chain, pass, zombie, top, dropped, used>>
  BY DEF MigrationCloseTimer
<1>2. /\ conn \in Conns /\ sock \in [Sockets -> SocketStates] /\ conn.state = "running"
      /\ conn.ws = None <=> conn.timer = "on"
      /\ \A s \in Sockets : sock[s] # "closed" => s \in {conn.ws, conn.old}
  BY <1>1, RunningFacts
<1>3. /\ conn' \in Conns /\ conn'.state = "running" /\ conn'.ws = conn.ws /\ conn'.timer = conn.timer
      /\ conn'.data = conn.data
  BY <1>1, <1>2 DEF Conns, Links
<1>4. sock' \in [Sockets -> SocketStates] /\ \A s \in Sockets : sock'[s] # "closed" => s \in {conn'.ws, conn'.old}
  BY <1>1, <1>2, <1>3 DEF SocketStates
<1> QED
  BY <1>1, <1>2, <1>3, <1>4, ChainStays, RunningFacts, LinkKeepsInv

LEMMA HangKeepsInv == ASSUME IInv, SocketHangs PROVE IInv'
<1>1. /\ conn.ws # None
      /\ sock' = [sock EXCEPT ![conn.ws] = "mute"]
      /\ UNCHANGED <<db, grant, subs, conn, chain, pass, zombie, top, dropped>>
  BY DEF SocketHangs
<1>2. sock' \in [Sockets -> SocketStates] /\ \A s \in Sockets : sock'[s] # "closed" => s \in {conn'.ws, conn'.old}
  BY <1>1, RunningFacts DEF SocketStates
<1>3. used' \in 0 .. MaxEvents
  BY UseEventType DEF SocketHangs
<1> QED
  BY <1>1, <1>2, <1>3, ChainStays, RunningFacts, LinkKeepsInv

LEMMA ExpireKeepsInv == ASSUME IInv, TokenExpires PROVE IInv'
<1>1. /\ conn.data.token = "valid" /\ \A i \in 1 .. Len(chain) : chain[i].kind = "pass"
      /\ conn' = [conn EXCEPT !.data.token = "expired"]
      /\ UNCHANGED <<db, grant, sock, subs, chain, pass, zombie, top, dropped>>
  BY DEF TokenExpires
<1>2. conn \in Conns /\ conn.data \in Data
  BY RunningFacts DEF Conns
<1>3. [conn.data EXCEPT !.token = "expired"] \in Data
  BY <1>2 DEF Data, Tokens
<1>4. /\ conn' \in Conns
      /\ <<conn'.state, conn'.ws, conn'.old, conn'.timer>> = <<conn.state, conn.ws, conn.old, conn.timer>>
  BY <1>1, <1>2, <1>3 DEF Conns
<1>5. ~Reloading'
  BY <1>1 DEF Reloading
<1>6. used' \in 0 .. MaxEvents
  BY UseEventType DEF TokenExpires
<1> QED
  BY <1>1, <1>4, <1>5, <1>6, ChainStays, RunningFacts, LinkKeepsInv

\* forceReconnect closes the connection's socket and sets the timer.
LEMMA ForceReconnectKeepsInv == ASSUME IInv, SocketFails \/ WatchdogFires \/ IdleClose PROVE IInv'
<1>1. /\ conn.ws # None
      /\ conn' = [conn EXCEPT !.ws = None, !.session = None, !.retry = "off", !.migrating = "no", !.deferred = "no",
                              !.timer = "on"]
      /\ sock' = [sock EXCEPT ![conn.ws] = "closed"]
      /\ chain' = Bumped(chain)
      /\ UNCHANGED <<db, grant, subs, pass, zombie, top, dropped>>
  BY DEF SocketFails, WatchdogFires, IdleClose, ForceReconnect
<1>2. /\ conn \in Conns /\ sock \in [Sockets -> SocketStates] /\ conn.state = "running"
      /\ \A s \in Sockets : sock[s] # "closed" => s \in {conn.ws, conn.old}
  BY <1>1, RunningFacts
<1>3. None \in Links
  BY DEF Links
<1>4. /\ conn' \in Conns /\ conn'.state = "running" /\ conn'.ws = None /\ conn'.timer = "on" /\ conn'.old = conn.old
      /\ conn'.data = conn.data
  BY <1>1, <1>2, <1>3 DEF Conns
<1>5. sock' \in [Sockets -> SocketStates] /\ \A s \in Sockets : sock'[s] # "closed" => s \in {conn'.ws, conn'.old}
  BY <1>1, <1>2, <1>4 DEF SocketStates
<1>6. used' \in 0 .. MaxEvents
  BY UseEventType DEF SocketFails, WatchdogFires, IdleClose
<1> QED
  BY <1>1, <1>4, <1>5, <1>6, BumpKeepsChain, RunningFacts, LinkKeepsInv

LEMMA WelcomeKeepsInv == ASSUME IInv, Welcome PROVE IInv'
<1> DEFINE s0 == conn.ws
           x == QueuedPass(s0)
<1>1. /\ s0 # None /\ Len(chain) < MaxQueue
      /\ sock' = [sock EXCEPT ![s0] = "open"]
      /\ conn' = [conn EXCEPT !.session = s0, !.retry = "off", !.attempts = 0]
      /\ chain' = Append(Bumped(chain), x)
      /\ UNCHANGED <<db, grant, subs, pass, zombie, top, dropped, used>>
  BY DEF Welcome
<1>2. /\ conn \in Conns /\ sock \in [Sockets -> SocketStates] /\ conn.state = "running"
      /\ conn.ws = None <=> conn.timer = "on"
      /\ \A s \in Sockets : sock[s] # "closed" => s \in {conn.ws, conn.old}
  BY <1>1, RunningFacts
<1>3. s0 \in Links /\ x \in Entries /\ x.kind = "pass" /\ x.refresh = "yes"
  BY <1>2, EntryType DEF Conns, QueuedPass
<1>4. 0 \in 0 .. MaxAttempts
  BY BoundsAssumption
<1>5. /\ conn' \in Conns /\ conn'.data = conn.data
      /\ <<conn'.state, conn'.ws, conn'.old, conn'.timer>> = <<conn.state, conn.ws, conn.old, conn.timer>>
  BY <1>1, <1>2, <1>3, <1>4 DEF Conns
<1>6. sock' \in [Sockets -> SocketStates] /\ \A s \in Sockets : sock'[s] # "closed" => s \in {conn'.ws, conn'.old}
  BY <1>1, <1>2, <1>5 DEF SocketStates
<1> HIDE DEF x
<1>7. /\ chain' \in Seq(Entries) /\ Len(chain') <= MaxQueue /\ ChainInv' /\ (Reloading' <=> Reloading)
      /\ chain # <<>> => chain'[1].kind = chain[1].kind
  BY <1>1, <1>3, JoinKeepsChain
<1> QED
  BY <1>1, <1>2, <1>5, <1>6, <1>7, RunningFacts, LinkKeepsInv

LEMMA MigrationWelcomeKeepsInv == ASSUME IInv, MigrationWelcome PROVE IInv'
<1> DEFINE s0 == conn.ws
           x == QueuedPass(s0)
<1>1. /\ s0 # None /\ Len(chain) < MaxQueue
      /\ sock' = [sock EXCEPT ![s0] = "open"]
      /\ subs' = [t \in Types |-> IF subs[t] = conn.session THEN s0 ELSE subs[t]]
      /\ conn' = [conn EXCEPT !.session = s0, !.migrating = "no", !.deferred = "no"]
      /\ chain' = IF conn.deferred = "yes" THEN Append(chain, x) ELSE chain
      /\ UNCHANGED <<db, grant, pass, zombie, top, dropped, used>>
  BY DEF MigrationWelcome
<1>2. /\ conn \in Conns /\ sock \in [Sockets -> SocketStates] /\ conn.state = "running"
      /\ conn.ws = None <=> conn.timer = "on"
      /\ \A s \in Sockets : sock[s] # "closed" => s \in {conn.ws, conn.old}
  BY <1>1, RunningFacts
<1>3. s0 \in Links /\ x \in Entries /\ x.kind = "pass" /\ x.refresh = "yes"
  BY <1>2, EntryType DEF Conns, QueuedPass
<1>4. subs' \in [Types -> Links]
  BY <1>1, <1>3, RunningFacts
<1>5. /\ conn' \in Conns /\ conn'.data = conn.data
      /\ <<conn'.state, conn'.ws, conn'.old, conn'.timer>> = <<conn.state, conn.ws, conn.old, conn.timer>>
  BY <1>1, <1>2, <1>3 DEF Conns
<1>6. sock' \in [Sockets -> SocketStates] /\ \A s \in Sockets : sock'[s] # "closed" => s \in {conn'.ws, conn'.old}
  BY <1>1, <1>2, <1>5 DEF SocketStates
<1> HIDE DEF x
<1>7. /\ chain' \in Seq(Entries) /\ Len(chain') <= MaxQueue /\ ChainInv' /\ (Reloading' <=> Reloading)
      /\ chain # <<>> => chain'[1].kind = chain[1].kind
  <2>1. CASE conn.deferred = "yes"
    BY <1>1, <1>3, <2>1, JoinKeepsChain
  <2>2. CASE conn.deferred # "yes"
    BY <1>1, <2>2, ChainStays
  <2> QED
    BY <2>1, <2>2
<1> QED
  BY <1>1, <1>2, <1>4, <1>5, <1>6, <1>7, RunningFacts, LinkKeepsInv

LEMMA RestartKeepsInv == ASSUME IInv, Restart PROVE IInv'
<1>1. /\ conn' = NoConn /\ chain' = <<>> /\ pass' = NoPass /\ zombie' = NoPass /\ dropped' = "no"
      /\ sock' = [s \in Sockets |-> "closed"] /\ top' = [waiting |-> 1, loaded |-> NotLoaded]
      /\ UNCHANGED <<db, grant, subs>>
  BY DEF Restart
<1>2. used' \in 0 .. MaxEvents
  BY UseEventType DEF Restart
<1>3. TypeOK'
  BY <1>1, <1>2, NoTypes, BoundsAssumption, ReloadsAssumption DEF IInv, TypeOK, SocketStates
<1>4. ConnInv'
  BY <1>1 DEF ConnInv, OneLink, NoConn
<1>5. ChainInv' /\ TokenInv' /\ PassInv'
  BY <1>1 DEF ChainInv, TokenInv, PassInv, Reloading, NoPass, NotLoaded
<1> QED
  BY <1>3, <1>4, <1>5 DEF IInv

-----------------------------------------------------------------------------
(* Passes                                                                  *)

\* What PassInv says a pass does not lose.
Covered(p) == \A t \in p.data.wanted : t \in p.todo \cup p.live \/ p.transient = "yes"

LEMMA ListsFacts ==
  ASSUME IInv, NEW p \in Passes, NEW p2, Lists(p, p2)
  PROVE  /\ p2 \in Passes /\ p2.data = p.data /\ p.step = "list" /\ p2.step = "ensure"
         /\ subs' \in [Types -> Links] /\ used' \in 0 .. MaxEvents
         /\ Covered(p) => Covered(p2)
<1>1. PICK l \in [Types -> Links] : p2 = [p EXCEPT !.step = "ensure", !.listed = l]
  BY NoTypes, RunningFacts DEF Lists
<1>2. p2 \in Passes /\ p2.data = p.data /\ p2.step = "ensure" /\ p2.todo = p.todo /\ p2.live = p.live /\ p2.transient = p.transient
  BY <1>1 DEF Passes
<1>3. used' \in 0 .. MaxEvents
  BY UseEventType DEF Lists
<1>4. subs' \in [Types -> Links]
  BY RunningFacts DEF Lists
<1>5. Covered(p) => Covered(p2)
  BY <1>2 DEF Covered
<1> QED
  BY <1>2, <1>3, <1>4, <1>5 DEF Lists

LEMMA RemainingType ==
  ASSUME IInv, NEW p \in Passes, NEW t \in Types
  PROVE  Remaining(p, t) \in [Types -> Links]
BY RunningFacts DEF Remaining, Links

LEMMA EnsuredFacts ==
  ASSUME IInv, NEW p \in Passes, NEW p2, Ensured(p, p2)
  PROVE  /\ p2 \in Passes /\ p2.data = p.data /\ p.step = "ensure" /\ p2.step = "ensure"
         /\ subs' \in [Types -> Links] /\ used' \in 0 .. MaxEvents
         /\ p.data.token = "valid" /\ grant = "valid" /\ Covered(p) => Covered(p2)
<1> DEFINE done(t) == [p EXCEPT !.todo = @ \ {t}]
           live(t) == [done(t) EXCEPT !.live = @ \cup {t}]
           failed(t) == [done(t) EXCEPT !.transient = "yes"]
           left(t) == Remaining(p, t)
<1>1. PICK t \in p.todo :
        /\ p.step = "ensure"
        /\ \/ p2 = live(t) \/ p2 = failed(t)
           \/ p2 = done(t) /\ ~Authorized(p)
        /\ subs' \in {subs, left(t), [left(t) EXCEPT ![t] = p.session]}
        /\ UseEvent \/ UNCHANGED used
  BY DEF Ensured
<1>2. t \in Types /\ p.session \in Links /\ p.todo \subseteq Types /\ p.live \subseteq Types
  BY <1>1 DEF Passes
<1>3. subs' \in [Types -> Links]
  <2>1. subs \in [Types -> Links] /\ left(t) \in [Types -> Links]
    BY <1>2, RemainingType, RunningFacts
  <2> HIDE DEF left
  <2> QED
    BY <1>1, <1>2, <2>1
<1>4. done(t) \in Passes /\ done(t).data = p.data /\ done(t).step = p.step /\ done(t).todo = p.todo \ {t}
      /\ done(t).live = p.live /\ done(t).transient = p.transient
  BY <1>2 DEF Passes
<1> HIDE DEF done
<1>5. live(t) \in Passes /\ live(t).data = p.data /\ live(t).step = p.step /\ live(t).todo = p.todo \ {t}
      /\ live(t).live = p.live \cup {t} /\ live(t).transient = p.transient
  BY <1>2, <1>4 DEF Passes
<1>6. failed(t) \in Passes /\ failed(t).data = p.data /\ failed(t).step = p.step /\ failed(t).transient = "yes"
  BY <1>4 DEF Passes
<1> HIDE DEF live, failed
<1>7. p2 \in Passes /\ p2.data = p.data /\ p2.step = "ensure"
  BY <1>1, <1>4, <1>5, <1>6
<1>8. ASSUME p.data.token = "valid", grant = "valid", Covered(p) PROVE Covered(p2)
  <2>1. Authorized(p)
    BY <1>8 DEF Authorized
  <2>2. p2 = live(t) \/ p2 = failed(t)
    BY <1>1, <2>1
  <2> QED
    BY <1>5, <1>6, <1>8, <2>2 DEF Covered
<1> QED
  BY <1>1, <1>3, <1>7, <1>8, UseEventType

LEMMA PrunedFacts ==
  ASSUME IInv, NEW p \in Passes, NEW p2, Pruned(p, p2)
  PROVE  /\ p2 \in Passes /\ p2.data = p.data /\ p.step = "ensure" /\ p2.step = "prune" /\ p2.todo = {}
         /\ subs' \in [Types -> Links] /\ used' \in 0 .. MaxEvents
         /\ Covered(p) => Covered(p2)
<1>1. p.step = "ensure" /\ p.todo = {} /\ p2 = [p EXCEPT !.step = "prune", !.listed = NoSubs]
  BY DEF Pruned
<1>2. p2 \in Passes /\ p2.data = p.data /\ p2.step = "prune" /\ p2.todo = p.todo /\ p2.live = p.live /\ p2.transient = p.transient
  BY <1>1, NoTypes DEF Passes
<1>3. used' \in 0 .. MaxEvents
  BY UseEventType DEF Pruned
<1>4. subs' \in [Types -> Links]
  BY RunningFacts DEF Pruned, Links
<1>5. Covered(p) => Covered(p2)
  BY <1>2 DEF Covered
<1> QED
  BY <1>1, <1>2, <1>3, <1>4, <1>5

LEMMA ZombieKeepsInv == ASSUME IInv, ZombieSteps \/ ZombieEnds PROVE IInv'
<1>1. UNCHANGED <<db, grant, sock, conn, chain, pass, top>>
  BY DEF ZombieSteps, ZombieEnds
<1>2. zombie' \in Passes /\ subs' \in [Types -> Links] /\ used' \in 0 .. MaxEvents
  <2>1. CASE ZombieSteps
    <3>1. zombie \in Passes
      BY DEF IInv, TypeOK
    <3> QED
      BY <2>1, <3>1, ListsFacts, EnsuredFacts, PrunedFacts DEF ZombieSteps
  <2>2. CASE ZombieEnds
    BY <2>2, NoTypes, RunningFacts, UseEventType DEF ZombieEnds, Links
  <2> QED
    BY <2>1, <2>2
<1>3. dropped' \in {"robbed", dropped}
  BY DEF ZombieSteps, ZombieEnds
<1>4. TypeOK'
  BY <1>1, <1>2, <1>3 DEF IInv, TypeOK
<1>5. ConnInv' /\ ChainInv' /\ PassInv'
  BY <1>1 DEF IInv, ConnInv, OneLink, ChainInv, PassInv
<1>6. TokenInv'
  BY <1>1 DEF IInv, TokenInv, Reloading
<1> QED
  BY <1>4, <1>5, <1>6 DEF IInv

LEMMA PassStepsKeepInv == ASSUME IInv, PassSteps PROVE IInv'
<1>1. UNCHANGED <<db, grant, sock, conn, chain, zombie, top>> /\ dropped' \in {"blind", dropped}
  BY DEF PassSteps
<1>2. pass \in Passes
  BY DEF IInv, TypeOK
<1>3. /\ pass' \in Passes /\ pass'.data = pass.data /\ subs' \in [Types -> Links] /\ used' \in 0 .. MaxEvents
      /\ pass.step \in {"list", "ensure"} /\ pass'.step \in {"ensure", "prune"}
      /\ pass'.step = "prune" => pass'.todo = {}
      /\ pass.data.token = "valid" /\ grant = "valid" /\ Covered(pass) => Covered(pass')
  BY <1>2, ListsFacts, EnsuredFacts, PrunedFacts DEF PassSteps
<1>4. TypeOK'
  BY <1>1, <1>3 DEF IInv, TypeOK
<1>5. ConnInv'
  BY <1>1, <1>3, RunningFacts DEF IInv, ConnInv, OneLink
<1>6. ChainInv'
  BY <1>1, <1>3 DEF IInv, ChainInv
<1>7. TokenInv'
  BY <1>1, <1>3 DEF IInv, TokenInv, Reloading
<1>8. PassInv'
  BY <1>1, <1>3 DEF IInv, PassInv, Covered
<1> QED
  BY <1>4, <1>5, <1>6, <1>7, <1>8 DEF IInv

-----------------------------------------------------------------------------
(* The subscribe chain                                                     *)

\* A step of the chain leaves the connection's sockets alone; its pass begins with a token that did
\* not just expire, and loses no type.
LEMMA ChainStepKeepsInv ==
  ASSUME IInv, conn.state = "running", conn' \in Conns,
         <<conn'.state, conn'.ws, conn'.old, conn'.timer>> = <<conn.state, conn.ws, conn.old, conn.timer>>,
         chain' \in Seq(Entries), Len(chain') <= MaxQueue, ChainInv', Reloading' => conn'.data.token # "expired",
         pass' \in Passes, PassInv',
         pass'.step = "token" => (pass'.fresh = "yes" \/ Reloading') /\ chain'[1].kind = "pass",
         pass'.step \notin {"idle", "token"} => pass'.data.token # "expired",
         UNCHANGED <<db, grant, sock, subs, zombie, top, dropped>>, used' \in 0 .. MaxEvents
  PROVE  IInv'
<1>1. TypeOK'
  BY DEF IInv, TypeOK
<1>2. ConnInv'
  BY DEF IInv, ConnInv, OneLink
<1>3. TokenInv'
  BY DEF IInv, TokenInv
<1> QED
  BY <1>1, <1>2, <1>3 DEF IInv

LEMMA IdleFacts == NoPass \in Passes /\ NoPass.step = "idle"
BY NoTypes DEF NoPass

LEMMA IdlePassInv == ASSUME pass'.step = "idle" PROVE PassInv'
BY DEF PassInv

\* A pass that begins has all it wants still to do.
LEMMA BeginPassInv ==
  ASSUME NEW data \in Data, NEW session \in Links, pass' = Begin(data, session)
  PROVE  PassInv'
<1>1. /\ pass'.step \in {"list", "prune"} /\ pass'.data = data
      /\ pass'.step = "list" => pass'.todo = data.wanted
      /\ pass'.step = "prune" => data.token = "none" /\ pass'.todo = {}
  BY BeginType
<1> QED
  BY <1>1 DEF PassInv

LEMMA HeadFacts ==
  ASSUME IInv, chain # <<>>
  PROVE  Head(chain) = chain[1] /\ Head(chain) \in Entries /\ 1 \in 1 .. Len(chain) /\ conn.state = "running"
<1>1. chain \in Seq(Entries)
  BY DEF IInv, TypeOK
<1>2. Head(chain) \in Entries /\ Head(chain) = chain[1] /\ Len(chain) \in Nat \ {0}
  BY <1>1, TailFacts
<1> QED
  BY <1>2, RunningFacts

LEMMA RunReloadKeepsInv == ASSUME IInv, RunReload PROVE IInv'
<1>1. /\ chain # <<>> /\ pass.step = "idle" /\ Head(chain).kind = "reload"
      /\ UNCHANGED <<db, grant, subs, zombie, top, dropped, used>>
  BY DEF RunReload, Ready
<1>2. /\ conn \in Conns /\ pass \in Passes /\ conn.state = "running" /\ chain \in Seq(Entries)
      /\ chain[1].kind = "reload" /\ 1 \in 1 .. Len(chain) /\ used \in 0 .. MaxEvents
      /\ conn.ws = None <=> conn.timer = "on"
  BY <1>1, HeadFacts, RunningFacts DEF IInv, TypeOK
<1>3. Reloading /\ conn.data.token # "expired"
  BY <1>2 DEF IInv, TokenInv, Reloading
<1>4. CASE conn' \in {conn, [conn EXCEPT !.deferred = "yes"]} /\ chain' = Tail(chain) /\ UNCHANGED <<sock, pass>>
  <2>1. /\ conn' \in Conns /\ conn'.data = conn.data
        /\ <<conn'.state, conn'.ws, conn'.old, conn'.timer>> = <<conn.state, conn.ws, conn.old, conn.timer>>
    BY <1>2, <1>4 DEF Conns
  <2>2. chain' \in Seq(Entries) /\ Len(chain') <= MaxQueue /\ ChainInv'
    BY <1>1, <1>4, LeaveKeepsChain
  <2> QED
    BY <1>1, <1>2, <1>3, <1>4, <2>1, <2>2, IdlePassInv, ChainStepKeepsInv
<1>5. CASE /\ chain' = [chain EXCEPT ![1] = Entry("pass", conn.session, "no")]
           /\ pass' = Begin(conn.data, conn.session) /\ UNCHANGED <<conn, sock>>
  <2> DEFINE e == Entry("pass", conn.session, "no")
  <2>1. e \in Entries /\ e.kind = "pass" /\ conn.session \in Links /\ conn.data \in Data
    BY <1>2, EntryType DEF Conns
  <2> HIDE DEF e
  <2>2. /\ chain' = [chain EXCEPT ![1] = e]
        /\ chain' \in Seq(Entries) /\ Len(chain') = Len(chain) /\ chain'[1] = e
        /\ \A i \in 1 .. Len(chain) : i # 1 => chain'[i] = chain[i]
    BY <1>2, <1>5, <2>1 DEF e
  <2>3. Len(chain') <= MaxQueue /\ chain' # <<>>
    BY <1>2, <2>2 DEF IInv, TypeOK
  <2>4. pass' \in Passes /\ pass'.step \in {"list", "prune"} /\ pass'.data = conn.data
    BY <1>5, <2>1, BeginType
  <2>5. ChainInv'
    BY <1>1, <2>2, <2>3, <2>4 DEF IInv, ChainInv
  <2>6. PassInv'
    BY <1>5, <2>1, BeginPassInv
  <2> QED
    BY <1>1, <1>2, <1>3, <1>5, <2>2, <2>3, <2>4, <2>5, <2>6, ChainStepKeepsInv
<1>6. CASE conn.migrating = "yes"
  <2>1. conn' = [conn EXCEPT !.deferred = "yes"] /\ chain' = Tail(chain) /\ UNCHANGED <<sock, pass>>
    BY <1>6 DEF RunReload
  <2> QED
    BY <1>4, <2>1
<1>7. CASE conn.migrating = "no" /\ (conn.ws = None \/ conn.session = None)
  <2>1. ~(conn.ws = None /\ conn.timer = "off")
    BY <1>2
  <2>2. chain' = Tail(chain) /\ UNCHANGED <<conn, sock, pass>>
    BY <1>7, <2>1 DEF RunReload
  <2> QED
    BY <1>4, <2>2
<1>8. CASE conn.migrating # "yes" /\ ~(conn.migrating = "no" /\ (conn.ws = None \/ conn.session = None))
  BY <1>5, <1>8 DEF RunReload
<1> QED
  BY <1>6, <1>7, <1>8

LEMMA SkipKeepsInv == ASSUME IInv, SkipOvertaken PROVE IInv'
<1>1. /\ chain # <<>> /\ pass.step = "idle"
      /\ Carry(conn, Head(chain), Tail(chain))
      /\ UNCHANGED <<db, grant, sock, subs, pass, zombie, top, dropped, used>>
  BY DEF SkipOvertaken, Ready
<1>2. conn \in Conns /\ pass \in Passes /\ used \in 0 .. MaxEvents
  BY DEF IInv, TypeOK
<1>3. /\ chain' \in Seq(Entries) /\ Len(chain') <= MaxQueue /\ ChainInv' /\ (Reloading' => Reloading)
      /\ conn' \in Conns /\ conn'.data = conn.data
      /\ <<conn'.state, conn'.ws, conn'.old, conn'.timer>> = <<conn.state, conn.ws, conn.old, conn.timer>>
  BY <1>1, <1>2, CarryKeepsChain
<1>4. Reloading' => conn'.data.token # "expired"
  BY <1>3 DEF IInv, TokenInv
<1> QED
  BY <1>1, <1>2, <1>3, <1>4, HeadFacts, IdlePassInv, ChainStepKeepsInv

LEMMA StartPassKeepsInv == ASSUME IInv, StartPass PROVE IInv'
<1>1. /\ chain # <<>> /\ pass.step = "idle" /\ Head(chain).kind = "pass"
      /\ pass' = IF Head(chain).refresh = "yes"
                   THEN [NoPass EXCEPT !.step = "token", !.session = conn.session, !.data.wanted = conn.data.wanted]
                   ELSE Begin(conn.data, conn.session)
      /\ UNCHANGED <<db, grant, sock, subs, conn, chain, zombie, top, dropped, used>>
  BY DEF StartPass, Ready
<1>2. /\ conn \in Conns /\ conn.state = "running" /\ used \in 0 .. MaxEvents
      /\ Head(chain) = chain[1] /\ 1 \in 1 .. Len(chain) /\ chain[1] \in Entries
  BY <1>1, HeadFacts DEF IInv, TypeOK
<1>3. Head(chain).refresh = "yes"
  BY <1>1, <1>2 DEF IInv, ChainInv, Entries
<1>4. pass' \in Passes /\ pass'.step = "token" /\ pass'.fresh = "yes"
  <2>1. conn.data.wanted \in SUBSET Types /\ conn.session \in Links
    BY <1>2 DEF Conns, Data
  <2>2. [NoData EXCEPT !.wanted = conn.data.wanted] \in Data
    BY <2>1, NoTypes DEF Data
  <2>3. NoPass \in Passes /\ NoPass.data = NoData /\ NoPass.fresh = "yes"
    BY NoTypes DEF NoPass
  <2>4. pass' = [NoPass EXCEPT !.step = "token", !.session = conn.session, !.data.wanted = conn.data.wanted]
    BY <1>1, <1>3
  <2> QED
    BY <2>1, <2>2, <2>3, <2>4 DEF Passes
<1>5. ChainInv' /\ PassInv'
  BY <1>1, <1>4 DEF IInv, ChainInv, PassInv
<1>6. chain' \in Seq(Entries) /\ Len(chain') <= MaxQueue /\ (Reloading' => conn'.data.token # "expired")
  BY <1>1 DEF IInv, TypeOK, TokenInv, Reloading
<1> QED
  BY <1>1, <1>2, <1>4, <1>5, <1>6, ChainStepKeepsInv

\* The token that a refresh leaves is not one that just expired: it was renewed, its refresh failed,
\* or a reload replaced it.
LEMMA RefreshFacts ==
  ASSUME IInv, pass.step = "token",
         NEW next \in {Refreshed("valid"), conn, Refreshed("lapsed")},
         next = Refreshed("valid") \/ next = (IF conn.data.token = "expired" THEN Refreshed("lapsed") ELSE conn)
  PROVE  /\ next \in Conns /\ next.data.token # "expired"
         /\ <<next.state, next.ws, next.old, next.timer>> = <<conn.state, conn.ws, conn.old, conn.timer>>
<1>1. conn \in Conns /\ conn.data \in Data
  BY RunningFacts DEF Conns
<1>2. ASSUME NEW token \in Tokens
      PROVE  LET c == [conn EXCEPT !.data.token = token]
             IN  /\ c \in Conns /\ c.data.token = token
                 /\ <<c.state, c.ws, c.old, c.timer>> = <<conn.state, conn.ws, conn.old, conn.timer>>
  <2>1. [conn.data EXCEPT !.token = token] \in Data /\ [conn.data EXCEPT !.token = token].token = token
    BY <1>1 DEF Data
  <2> QED
    BY <1>1, <2>1 DEF Conns
<1>3. pass.fresh # "yes" => conn.data.token # "expired"
  BY DEF IInv, TokenInv
<1>4. "valid" \in Tokens /\ "lapsed" \in Tokens
  BY DEF Tokens
<1>5. CASE pass.fresh = "yes"
  BY <1>1, <1>2, <1>4, <1>5 DEF Refreshed
<1>6. CASE pass.fresh # "yes"
  BY <1>1, <1>3, <1>6 DEF Refreshed
<1> QED
  BY <1>5, <1>6

LEMMA TokenRefreshedKeepsInv == ASSUME IInv, TokenRefreshed PROVE IInv'
<1>1. pass.step = "token" /\ UNCHANGED <<db, grant, sock, subs, zombie, top, dropped>>
  BY DEF TokenRefreshed
<1>2. PICK next \in {Refreshed("valid"), conn, Refreshed("lapsed")} :
        /\ CASE next = Refreshed("valid") -> grant = "valid" /\ UNCHANGED used
             [] OTHER ->
                  /\ next = IF conn.data.token = "expired" THEN Refreshed("lapsed") ELSE conn
                  /\ IF grant = "valid" THEN UseEvent ELSE UNCHANGED used
        /\ IF Ours(Head(chain))
             THEN /\ pass' = Begin(next.data, pass.session)
                  /\ conn' = next
                  /\ UNCHANGED chain
             ELSE /\ pass' = NoPass
                  /\ Carry(next, Head(chain), Tail(chain))
  BY DEF TokenRefreshed
<1>3. /\ next \in Conns /\ next.data.token # "expired"
      /\ <<next.state, next.ws, next.old, next.timer>> = <<conn.state, conn.ws, conn.old, conn.timer>>
  BY <1>1, <1>2, RefreshFacts
<1>4. used' \in 0 .. MaxEvents
  BY <1>2, UseEventType
<1>5. chain # <<>> /\ conn.state = "running"
  BY <1>1, RunningFacts DEF IInv, ChainInv
<1>6. CASE Ours(Head(chain))
  <2>1. pass' = Begin(next.data, pass.session) /\ conn' = next /\ UNCHANGED chain
    BY <1>2, <1>6
  <2>2. next.data \in Data /\ pass.session \in Links
    BY <1>3 DEF Conns, IInv, TypeOK, Passes
  <2>3. pass' \in Passes /\ pass'.step \in {"list", "prune"} /\ pass'.data = next.data
    BY <2>1, <2>2, BeginType
  <2>4. PassInv'
    BY <2>1, <2>2, BeginPassInv
  <2>5. ChainInv' /\ chain' \in Seq(Entries) /\ Len(chain') <= MaxQueue
    BY <1>1, <2>1, <2>3 DEF IInv, TypeOK, ChainInv
  <2> QED
    BY <1>1, <1>3, <1>4, <1>5, <2>1, <2>3, <2>4, <2>5, ChainStepKeepsInv
<1>7. CASE ~Ours(Head(chain))
  <2>1. pass' = NoPass /\ Carry(next, Head(chain), Tail(chain))
    BY <1>2, <1>7
  <2>2. /\ chain' \in Seq(Entries) /\ Len(chain') <= MaxQueue /\ ChainInv' /\ (Reloading' => Reloading)
        /\ conn' \in Conns /\ conn'.data = next.data
        /\ <<conn'.state, conn'.ws, conn'.old, conn'.timer>> = <<next.state, next.ws, next.old, next.timer>>
    BY <1>3, <1>5, <2>1, IdleFacts, CarryKeepsChain
  <2> QED
    BY <1>1, <1>3, <1>4, <1>5, <2>1, <2>2, IdleFacts, IdlePassInv, ChainStepKeepsInv
<1> QED
  BY <1>6, <1>7

LEMMA PassEndsKeepInv == ASSUME IInv, ResultIgnored \/ OutcomeHandled PROVE IInv'
<1>1. /\ pass.step = "prune" /\ pass' = NoPass
      /\ UNCHANGED <<db, grant, sock, subs, zombie, top, dropped, used>>
  BY DEF ResultIgnored, OutcomeHandled
<1>2. /\ chain # <<>> /\ conn.state = "running" /\ conn \in Conns /\ used \in 0 .. MaxEvents
      /\ pass'.step = "idle" /\ pass' \in Passes
  BY <1>1, RunningFacts, IdleFacts DEF IInv, ChainInv
<1>3. /\ chain' \in Seq(Entries) /\ Len(chain') <= MaxQueue /\ ChainInv' /\ (Reloading' => Reloading)
      /\ conn' \in Conns /\ conn'.data = conn.data
      /\ <<conn'.state, conn'.ws, conn'.old, conn'.timer>> = <<conn.state, conn.ws, conn.old, conn.timer>>
  <2>1. CASE ResultIgnored
    BY <1>2, <2>1, CarryKeepsChain DEF ResultIgnored
  <2>2. CASE OutcomeHandled
    <3>1. conn' = Retries(pass) /\ chain' = Tail(chain)
      BY <2>2 DEF OutcomeHandled
    <3>2. conn.attempts \in 0 .. MaxAttempts /\ MaxAttempts \in Nat /\ 0 \in 0 .. MaxAttempts
      BY <1>2, BoundsAssumption DEF Conns
    <3>3. conn.attempts < MaxAttempts => conn.attempts + 1 \in 0 .. MaxAttempts
      BY <3>2
    <3>4. /\ conn' \in Conns /\ conn'.data = conn.data
          /\ <<conn'.state, conn'.ws, conn'.old, conn'.timer>> = <<conn.state, conn.ws, conn.old, conn.timer>>
      BY <1>2, <3>1, <3>2, <3>3 DEF Retries, Conns
    <3> QED
      BY <1>2, <3>1, <3>4, LeaveKeepsChain
  <2> QED
    BY <2>1, <2>2
<1>4. Reloading' => conn'.data.token # "expired"
  BY <1>3 DEF IInv, TokenInv
<1> QED
  BY <1>1, <1>2, <1>3, <1>4, IdlePassInv, ChainStepKeepsInv

LEMMA SelfStopKeepsInv == ASSUME IInv, SelfStop PROVE IInv'
<1>1. PICK why \in {"no", "lapsed", "reload"} : StopConnection(why)
  BY DEF SelfStop
<1>2. /\ UNCHANGED <<db, grant, subs, zombie, top, used>>
      /\ zombie' \in Passes /\ top' \in [waiting : 0 .. MaxReloads, loaded : Loads] /\ top'.loaded.token # "expired"
  BY DEF SelfStop, IInv, TypeOK, TokenInv
<1> QED
  BY <1>1, <1>2, StopKeepsInv

LEMMA RetryKeepsInv == ASSUME IInv, RetryFires PROVE IInv'
<1>1. /\ conn.retry = "on"
      /\ UNCHANGED <<db, grant, sock, subs, pass, zombie, top, dropped, used>>
  BY DEF RetryFires
<1>2. /\ conn.state = "running" /\ conn \in Conns /\ sock \in [Sockets -> SocketStates] /\ subs \in [Types -> Links]
      /\ used \in 0 .. MaxEvents /\ (conn.ws = None <=> conn.timer = "on")
      /\ \A s \in Sockets : sock[s] # "closed" => s \in {conn.ws, conn.old}
  BY <1>1, RunningFacts
<1>3. /\ conn' \in Conns /\ conn'.data = conn.data
      /\ <<conn'.state, conn'.ws, conn'.old, conn'.timer>> = <<conn.state, conn.ws, conn.old, conn.timer>>
  <2>1. conn' \in {[conn EXCEPT !.retry = "off"], [conn EXCEPT !.retry = "off", !.deferred = "yes"]}
    BY DEF RetryFires
  <2> QED
    BY <1>2, <2>1 DEF Conns
<1>4. /\ chain' \in Seq(Entries) /\ Len(chain') <= MaxQueue /\ ChainInv' /\ (Reloading' <=> Reloading)
      /\ chain # <<>> => chain'[1].kind = chain[1].kind
  <2>1. CASE UNCHANGED chain
    BY <1>1, <2>1, ChainStays
  <2>2. CASE Len(chain) < MaxQueue /\ chain' = Append(chain, QueuedPass(conn.session))
    <3> DEFINE x == QueuedPass(conn.session)
    <3>1. x \in Entries /\ x.kind = "pass" /\ x.refresh = "yes"
      BY <1>2, EntryType DEF Conns, QueuedPass
    <3> HIDE DEF x
    <3>2. chain' = Append(chain, x)
      BY <2>2 DEF x
    <3> QED
      BY <1>1, <2>2, <3>1, <3>2, JoinKeepsChain
  <2> QED
    BY <2>1, <2>2 DEF RetryFires
<1> QED
  BY <1>1, <1>2, <1>3, <1>4, LinkKeepsInv

LEMMA NextInv == IInv /\ [Next]_vars => IInv'
<1> SUFFICES ASSUME IInv, [Next]_vars PROVE IInv'
  OBVIOUS
<1>1. CASE Reloads \/ ChangeConfig \/ TwitchDrops
  BY <1>1, WorldKeepsInv, StopRemovedKeepsInv, StartKeepsInv, ReloadKeepsInv DEF Reloads
<1>2. CASE Chain
  BY <1>2, RunReloadKeepsInv, SkipKeepsInv, StartPassKeepsInv, TokenRefreshedKeepsInv, PassStepsKeepInv, PassEndsKeepInv,
     SelfStopKeepsInv
  DEF Chain
<1>3. CASE ZombieSteps \/ ZombieEnds
  BY <1>3, ZombieKeepsInv
<1>4. CASE RetryFires \/ Timers
  BY <1>4, RetryKeepsInv, ReconnectKeepsInv, MigrationCloseKeepsInv, ForceReconnectKeepsInv DEF Timers
<1>5. CASE Welcome \/ MigrationWelcome \/ IdleClose
  BY <1>5, WelcomeKeepsInv, MigrationWelcomeKeepsInv, ForceReconnectKeepsInv
<1>6. CASE Twitch
  BY <1>6, SessionReconnectKeepsInv, ForceReconnectKeepsInv, HangKeepsInv, WorldKeepsInv, ExpireKeepsInv DEF Twitch
<1>7. CASE Restart
  BY <1>7, RestartKeepsInv
<1>8. CASE UNCHANGED vars
  BY <1>8 DEF vars, IInv, TypeOK, ConnInv, OneLink, ChainInv, TokenInv, Reloading, PassInv
<1> QED
  BY <1>1, <1>2, <1>3, <1>4, <1>5, <1>6, <1>7, <1>8 DEF Next

LEMMA SpecKeepsInv == Spec => []IInv
BY InitInv, NextInv, PTL DEF Spec

-----------------------------------------------------------------------------
(* The theorems                                                            *)

\* The connection, its chain, its passes and what waits for a reload have their types in every
\* reachable state; the chain keeps to its bound.
THEOREM TypeCorrect == Spec => []TypeOK
<1>1. IInv => TypeOK
  BY DEF IInv
<1> QED
  BY <1>1, SpecKeepsInv, PTL

\* However reconnects, migrations, timeouts, reloads and stops meet, a running connection has a
\* socket or a reconnect timer, never both and never neither, and it leaves no socket of an earlier
\* session open but the one that a migration is about to close (connect, forceReconnect, stop).
THEOREM LinksAreOne == Spec => []OneLink
<1>1. IInv => OneLink
  BY DEF IInv, ConnInv
<1> QED
  BY <1>1, SpecKeepsInv, PTL

\* A connection stops itself only when nothing is wanted or nothing can be had, never over a token
\* that was left to expire while its pass waited (shouldSelfStop, SubscribePassRunner.queue).
THEOREM SelfStopsAreJustified == Spec => SelfStopIsJustified
<1> DEFINE Justified == SelfStop => \/ pass.data.wanted = {}
                                    \/ grant = "revoked"
                                    \/ pass.data.token \in {"lapsed", "none"}
<1>1. ASSUME IInv PROVE Justified
  <2> SUFFICES ASSUME SelfStop, pass.data.wanted # {}, grant # "revoked", pass.data.token \notin {"lapsed", "none"}
               PROVE  FALSE
    OBVIOUS
  <2>1. pass.step = "prune" /\ shouldSelfStop(pass)
    BY DEF SelfStop
  <2>2. grant = "valid" /\ pass.data.token = "valid"
    <3>1. pass.data \in Data
      BY <1>1 DEF IInv, TypeOK, Passes
    <3> QED
      BY <1>1, <2>1, <3>1 DEF IInv, TypeOK, TokenInv, Data, Tokens
  <2>3. pass.live = {} /\ pass.transient = "no"
    BY <2>1, <2>2 DEF shouldSelfStop, Desired
  <2>4. \A t \in pass.data.wanted : t \in pass.todo \cup pass.live \/ pass.transient = "yes"
    BY <1>1, <2>1, <2>2 DEF IInv, PassInv
  <2>5. pass.todo = {}
    BY <1>1, <2>1 DEF IInv, PassInv
  <2> QED
    BY <2>3, <2>4, <2>5
<1>2. IInv => [Justified]_vars
  BY <1>1
<1> QED
  BY <1>2, SpecKeepsInv, PTL DEF SelfStopIsJustified
=============================================================================
