----------------------------- MODULE AuthProofs ------------------------------
(***************************************************************************)
(* Proofs about Auth for any set of processes, any life time of a token    *)
(* and any refresh window that is shorter.                                 *)
(***************************************************************************)
EXTENDS Auth, TLAPS

-----------------------------------------------------------------------------
(* Types.                                                                  *)

LEMMA TokenTypes ==
  /\ NoToken \in Token
  /\ Empty \in [Fields -> Token]
  /\ Granted \subseteq Token
  /\ [left |-> Lifetime, exp |-> Unknown] \in Token
  /\ Clear \in Tasks
<1> USE ConstantsAssumption
<1>1. NoToken \in Token
  BY DEF NoToken, Unknown, Token, Days
<1>2. Empty \in [Fields -> Token]
  BY <1>1 DEF Empty
<1>3. Granted \subseteq Token
  BY DEF Granted, Unknown, Token, Days
<1>4. [left |-> Lifetime, exp |-> Unknown] \in Token
  BY DEF Unknown, Token, Days
<1> QED
  BY <1>1, <1>2, <1>3, <1>4 DEF Tasks

(* A process that goes on with well-typed variables keeps the types.       *)
LEMMA GoType ==
  ASSUME TypeOK, NEW p \in Procs, NEW label \in Labels, NEW t \in Tasks,
         NEW tok \in Token, NEW content \in [Fields -> Token],
         Go(p, label, t, tok, content)
  PROVE  /\ pc' \in [Procs -> Labels]
         /\ task' \in [Procs -> Tasks]
         /\ token' \in [Procs -> Token]
         /\ draft' \in [Procs -> [Fields -> Token]]
BY DEF TypeOK, Go

LEMMA EndType ==
  ASSUME TypeOK, NEW p \in Procs, End(p)
  PROVE  /\ pc' \in [Procs -> Labels]
         /\ task' \in [Procs -> Tasks]
         /\ token' \in [Procs -> Token]
         /\ draft' \in [Procs -> [Fields -> Token]]
BY GoType, TokenTypes DEF End, Labels

LEMMA UsedType ==
  ASSUME TypeOK, NEW x \in Providers, Used(x)
  PROVE  unused' \in [Providers -> 0..(RefreshWindow + 1)]
BY ConstantsAssumption DEF TypeOK, Used

LEMMA ChangedType ==
  ASSUME NEW t \in Tasks, NEW f \in [Fields -> Token], NEW new \in Token
  PROVE  Changed(t, f, new) \in [Fields -> Token]
BY TokenTypes DEF Changed

LEMMA TaskFields ==
  ASSUME NEW t \in Tasks
  PROVE  /\ t.who \in Providers \/ t.who = "page" \/ t = Clear
         /\ t \in Requests => t.who \in Providers /\ t.do # "login" /\ t.do # "clear"
         /\ t.do = "page" => t.who = "meta" /\ t \in Requests
BY DEF Tasks, Requests, Clear, Providers

LEMMA TypeInit == Init => TypeOK
<1> SUFFICES ASSUME Init PROVE TypeOK
  OBVIOUS
<1>1. unused \in [Providers -> 0..(RefreshWindow + 1)]
  BY ConstantsAssumption DEF Init
<1> QED
  BY <1>1, TokenTypes DEF Init, TypeOK, Labels

LEMMA CallType ==
  ASSUME TypeOK, NEW p \in Procs, Call(p)
  PROVE  TypeOK'
<1> USE TokenTypes
<1>0. /\ task[p] \in Tasks /\ token[p] \in Token /\ draft[p] \in [Fields -> Token]
      /\ {"idle", "exchange", "derive", "lock", "write"} = Labels
      /\ \A x \in Fields : file[x] \in Token
  BY DEF TypeOK, Labels
<1>1. CASE Load(p)
  <2>1. PICK t \in Requests :
          IF ~Fresh(file[t.who])
          THEN Go(p, "exchange", t, file[t.who], Empty) /\ UNCHANGED unused
          ELSE /\ IF t.do = "page" THEN Go(p, "derive", t, NoToken, Empty) ELSE End(p)
               /\ Used(t.who)
    BY <1>1 DEF Load
  <2>2. t \in Tasks /\ t.who \in Providers /\ file[t.who] \in Token
    BY <1>0, TaskFields DEF Tasks, Fields
  <2>3. /\ pc' \in [Procs -> Labels] /\ task' \in [Procs -> Tasks]
        /\ token' \in [Procs -> Token] /\ draft' \in [Procs -> [Fields -> Token]]
    BY <1>0, <2>1, <2>2, GoType, EndType
  <2>4. unused' \in [Providers -> 0..(RefreshWindow + 1)]
    BY <2>1, <2>2, UsedType DEF TypeOK
  <2> QED
    BY <1>1, <2>3, <2>4 DEF Load, TypeOK
<1>2. CASE Exchange(p)
  <2>1. /\ pc' \in [Procs -> Labels] /\ task' \in [Procs -> Tasks]
        /\ token' \in [Procs -> Token] /\ draft' \in [Procs -> [Fields -> Token]]
    BY <1>0, <1>2, GoType, EndType DEF Exchange
  <2> QED
    BY <1>2, <2>1 DEF Exchange, TypeOK
<1>3. CASE Login(p)
  <2>1. PICK x \in Providers, new \in Granted :
          Go(p, "lock", [do |-> "login", who |-> x], new, Empty)
    BY <1>3 DEF Login
  <2>2. [do |-> "login", who |-> x] \in Tasks
    BY DEF Tasks
  <2>3. /\ pc' \in [Procs -> Labels] /\ task' \in [Procs -> Tasks]
        /\ token' \in [Procs -> Token] /\ draft' \in [Procs -> [Fields -> Token]]
    BY <1>0, <2>1, <2>2, GoType
  <2> QED
    BY <1>3, <2>3 DEF Login, TypeOK
<1>4. CASE Derive(p)
  <2>1. [do |-> "derive", who |-> "page"] \in Tasks
    BY DEF Tasks
  <2>2. /\ pc' \in [Procs -> Labels] /\ task' \in [Procs -> Tasks]
        /\ token' \in [Procs -> Token] /\ draft' \in [Procs -> [Fields -> Token]]
    BY <1>0, <1>4, <2>1, GoType, EndType DEF Derive
  <2> QED
    BY <1>4, <2>2 DEF Derive, TypeOK
<1>5. CASE Logout(p)
  <2>1. /\ pc' \in [Procs -> Labels] /\ task' \in [Procs -> Tasks]
        /\ token' \in [Procs -> Token] /\ draft' \in [Procs -> [Fields -> Token]]
    BY <1>0, <1>5, GoType DEF Logout
  <2> QED
    BY <1>5, <2>1 DEF Logout, TypeOK
<1>6. CASE Lock(p)
  <2>1. Changed(task[p], file, token[p]) \in [Fields -> Token]
    BY <1>0, ChangedType DEF TypeOK
  <2>2. /\ pc' \in [Procs -> Labels] /\ task' \in [Procs -> Tasks]
        /\ token' \in [Procs -> Token] /\ draft' \in [Procs -> [Fields -> Token]]
    BY <1>0, <1>6, <2>1, GoType DEF Lock
  <2> QED
    BY <1>6, <2>2 DEF Lock, TypeOK
<1>7. CASE Write(p)
  <2>1. /\ pc' \in [Procs -> Labels] /\ task' \in [Procs -> Tasks]
        /\ token' \in [Procs -> Token] /\ draft' \in [Procs -> [Fields -> Token]]
    BY <1>0, <1>7, GoType, EndType DEF Write
  <2>2. unused' \in [Providers -> 0..(RefreshWindow + 1)]
    BY <1>7, UsedType DEF Write, TypeOK
  <2> QED
    BY <1>0, <1>7, <2>1, <2>2 DEF Write, Unlock, TypeOK
<1>8. CASE WriteFails(p)
  BY <1>0, <1>8, EndType DEF WriteFails, Unlock, TypeOK
<1> QED
  BY <1>1, <1>2, <1>3, <1>4, <1>5, <1>6, <1>7, <1>8 DEF Call

(* A day less to live is still a number of days.                           *)
LEMMA OlderType == \A t \in Token : Older(t) \in Token
BY ConstantsAssumption DEF Older, Token, Days

LEMMA TypeStep == TypeOK /\ [Next]_vars => TypeOK'
<1> SUFFICES ASSUME TypeOK, [Next]_vars
             PROVE  TypeOK'
  OBVIOUS
<1>1. CASE Tick
  <2>1. file' \in [Fields -> Token]
    BY <1>1, OlderType DEF Tick, TypeOK
  <2>2. unused' \in [Providers -> 0..(RefreshWindow + 1)]
    BY <1>1, ConstantsAssumption DEF Tick, TypeOK
  <2> QED
    BY <1>1, <2>1, <2>2 DEF Tick, TypeOK, procVars
<1>2. ASSUME NEW p \in Procs, Call(p)
      PROVE  TypeOK'
  BY <1>2, CallType
<1>3. ASSUME NEW p \in Procs, Crash(p)
      PROVE  TypeOK'
  BY <1>3, EndType DEF Crash, Unlock, TypeOK
<1>4. CASE UNCHANGED vars
  BY <1>4 DEF vars, procVars, TypeOK
<1> QED
  BY <1>1, <1>2, <1>3, <1>4 DEF Next

(* The file, the lock and every process keep their types, for any life     *)
(* time and refresh window.                                                *)
THEOREM TypeCorrect == Spec => []TypeOK
BY TypeInit, TypeStep, PTL DEF Spec

-----------------------------------------------------------------------------
(* The inductive invariant. What a process is about to store is fresh and  *)
(* has its own expiry, the holder of the lock has read the present file,   *)
(* and a token of the file lasts until the next refresh window is over.    *)

New(t, tok) ==
  /\ tok.exp \in {Unknown, tok.left}
  /\ t.who \in Providers => tok.exp \in {Unknown, Lifetime}

ProcInv(p) ==
  /\ pc[p] \in {"lock", "write"} => New(task[p], token[p])
  /\ pc[p] = "write" =>
       lock = p /\ draft[p] = Changed(task[p], file, token[p])

FileInv(f, u) ==
  /\ \A x \in Fields : f[x].exp \in {Unknown, f[x].left}
  /\ \A x \in Providers :
       f[x].exp # Unknown /\ u[x] <= RefreshWindow => f[x].exp + u[x] > RefreshWindow

AuthInv == FileInv(file, unused) /\ \A p \in Procs : ProcInv(p)

(* A change of the file by what a process holds keeps the file good, also  *)
(* when the days without use are counted anew.                             *)
LEMMA ChangedIsGood ==
  ASSUME NEW t \in Tasks, NEW f \in [Fields -> Token], NEW tok \in Token,
         NEW u \in [Providers -> 0..(RefreshWindow + 1)], New(t, tok), FileInv(f, u)
  PROVE  /\ FileInv(Changed(t, f, tok), u)
         /\ t.who \in Providers => FileInv(Changed(t, f, tok), [u EXCEPT ![t.who] = 0])
<1> DEFINE g == Changed(t, f, tok)
<1>1. \A x \in Fields : IF x = t.who THEN g[x] = tok ELSE g[x] \in {f[x], NoToken}
  <2>1. ASSUME NEW x \in Fields, x = t.who
        PROVE  x \in Written(t)
    BY <2>1 DEF Written, Tasks, Requests, Clear, Nobody, Fields, Providers
  <2> QED
    BY <2>1 DEF Changed
<1> HIDE DEF g
<1>2. \A x \in Fields : g[x].exp \in {Unknown, g[x].left}
  BY <1>1 DEF FileInv, New, NoToken
<1>3. ASSUME NEW x \in Providers, g[x].exp # Unknown, x # t.who
      PROVE  g[x] = f[x]
  BY <1>1, <1>3 DEF NoToken, Fields
<1>4. ASSUME NEW x \in Providers, g[x].exp # Unknown, x = t.who
      PROVE  g[x].exp = Lifetime
  BY <1>1, <1>4 DEF New, Fields
<1>5. FileInv(g, u)
  <2>1. ASSUME NEW x \in Providers, g[x].exp # Unknown, u[x] <= RefreshWindow
        PROVE  g[x].exp + u[x] > RefreshWindow
    <3>1. CASE x = t.who
      BY <1>4, <2>1, <3>1, ConstantsAssumption
    <3>2. CASE x # t.who
      BY <1>3, <2>1, <3>2 DEF FileInv
    <3> QED
      BY <3>1, <3>2
  <2> QED
    BY <1>2, <2>1 DEF FileInv
<1>6. ASSUME t.who \in Providers
      PROVE  FileInv(g, [u EXCEPT ![t.who] = 0])
  <2> DEFINE v == [u EXCEPT ![t.who] = 0]
  <2>1. ASSUME NEW x \in Providers, g[x].exp # Unknown, v[x] <= RefreshWindow
        PROVE  g[x].exp + v[x] > RefreshWindow
    <3>1. CASE x = t.who
      BY <1>4, <2>1, <3>1, ConstantsAssumption
    <3>2. CASE x # t.who
      BY <1>3, <2>1, <3>2 DEF FileInv
    <3> QED
      BY <3>1, <3>2
  <2> QED
    BY <1>2, <2>1 DEF FileInv
<1> QED
  BY <1>5, <1>6 DEF g

(* A step of p that does not touch the file keeps what holds of the other  *)
(* processes, as long as it takes the lock only when it is free.           *)
LEMMA GoKeeps ==
  ASSUME TypeOK, AuthInv, NEW p \in Procs, NEW label \in Labels, NEW t, NEW tok,
         NEW content, Go(p, label, t, tok, content), UNCHANGED file,
         \A q \in Procs \ {p} : lock = q => lock' = q,
         label \in {"lock", "write"} => New(t, tok),
         label = "write" => lock' = p /\ content = Changed(t, file, tok)
  PROVE  \A q \in Procs : ProcInv(q)'
<1> SUFFICES ASSUME NEW q \in Procs PROVE ProcInv(q)'
  OBVIOUS
<1>1. CASE q = p
  BY <1>1 DEF TypeOK, Go, ProcInv
<1>2. CASE q # p
  BY <1>2 DEF TypeOK, AuthInv, Go, ProcInv
<1> QED
  BY <1>1, <1>2

(* The holder of the lock gives it back: nobody else is writing.           *)
LEMMA WriterKeeps ==
  ASSUME TypeOK, AuthInv, NEW p \in Procs, pc[p] = "write", Unlock(p),
         NEW label \in {"idle", "derive"}, NEW t, NEW tok, NEW content,
         Go(p, label, t, tok, content)
  PROVE  \A q \in Procs : ProcInv(q)'
<1> SUFFICES ASSUME NEW q \in Procs PROVE ProcInv(q)'
  OBVIOUS
<1>1. CASE q = p
  BY <1>1 DEF TypeOK, Go, ProcInv
<1>2. CASE q # p
  <2>1. pc[q] # "write"
    BY <1>2 DEF AuthInv, ProcInv
  <2> QED
    BY <1>2, <2>1 DEF TypeOK, AuthInv, Go, ProcInv
<1> QED
  BY <1>1, <1>2

LEMMA InvInit == Init => AuthInv
BY DEF Init, AuthInv, FileInv, ProcInv, Empty, NoToken, Fields

LEMMA InvCall ==
  ASSUME TypeOK, AuthInv, NEW p \in Procs, Call(p)
  PROVE  AuthInv'
<1>0. /\ {"idle", "exchange", "derive", "lock", "write"} = Labels
      /\ FileInv(file, unused)
      /\ task[p] \in Tasks /\ token[p] \in Token
  BY DEF AuthInv, Labels, TypeOK
<1>1. CASE Load(p)
  <2>1. PICK t \in Requests :
          IF ~Fresh(file[t.who])
          THEN Go(p, "exchange", t, file[t.who], Empty) /\ UNCHANGED unused
          ELSE /\ IF t.do = "page" THEN Go(p, "derive", t, NoToken, Empty) ELSE End(p)
               /\ Used(t.who)
    BY <1>1 DEF Load
  <2>2. \A q \in Procs : ProcInv(q)'
    BY <1>0, <1>1, <2>1, GoKeeps DEF Load, End
  <2>3. t.who \in Providers /\ t.who \in Fields /\ file[t.who] \in Token
    BY TaskFields DEF Tasks, Fields, TypeOK
  <2>4. FileInv(file, unused)'
    <3>1. CASE UNCHANGED unused
      BY <1>0, <1>1, <3>1 DEF Load, FileInv
    <3>2. CASE Fresh(file[t.who]) /\ Used(t.who)
      BY <1>0, <1>1, <2>3, <3>2, ConstantsAssumption
         DEF Load, FileInv, Fresh, Used, TypeOK, Token, Days
    <3> QED
      BY <2>1, <3>1, <3>2
  <2> QED
    BY <2>2, <2>4 DEF AuthInv
<1>2. CASE Exchange(p)
  <2>1. \A new \in Granted : New(task[p], new)
    BY DEF Granted, New
  <2>2. \A q \in Procs : ProcInv(q)'
    BY <1>0, <1>2, <2>1, GoKeeps DEF Exchange, End
  <2> QED
    BY <1>0, <1>2, <2>2 DEF Exchange, AuthInv
<1>3. CASE Login(p)
  <2>1. \A new \in Granted, t \in Tasks : New(t, new)
    BY DEF Granted, New
  <2>2. \A x \in Providers : [do |-> "login", who |-> x] \in Tasks
    BY DEF Tasks
  <2>3. \A q \in Procs : ProcInv(q)'
    BY <1>0, <1>3, <2>1, <2>2, GoKeeps DEF Login
  <2> QED
    BY <1>0, <1>3, <2>3 DEF Login, AuthInv
<1>4. CASE Derive(p)
  <2>1. New([do |-> "derive", who |-> "page"], [left |-> Lifetime, exp |-> Unknown])
    BY DEF New
  <2>2. \A q \in Procs : ProcInv(q)'
    BY <1>0, <1>4, <2>1, GoKeeps DEF Derive, End
  <2> QED
    BY <1>0, <1>4, <2>2 DEF Derive, AuthInv
<1>5. CASE Logout(p)
  <2>1. New(Clear, NoToken)
    BY DEF New, NoToken
  <2>2. \A q \in Procs : ProcInv(q)'
    BY <1>0, <1>5, <2>1, GoKeeps DEF Logout
  <2> QED
    BY <1>0, <1>5, <2>2 DEF Logout, AuthInv
<1>6. CASE Lock(p)
  <2>1. New(task[p], token[p])
    BY <1>6 DEF Lock, AuthInv, ProcInv
  <2>2. \A q \in Procs : lock # q
    BY <1>6, ConstantsAssumption DEF Lock
  <2>3. \A q \in Procs : ProcInv(q)'
    BY <1>0, <1>6, <2>1, <2>2, GoKeeps DEF Lock
  <2> QED
    BY <1>0, <1>6, <2>3 DEF Lock, AuthInv
<1>7. ASSUME pc[p] = "write"
      PROVE  /\ FileInv(draft[p], unused)
             /\ task[p].who \in Providers =>
                  FileInv(draft[p], [unused EXCEPT ![task[p].who] = 0])
  <2>1. New(task[p], token[p]) /\ draft[p] = Changed(task[p], file, token[p])
    BY <1>7 DEF AuthInv, ProcInv
  <2> QED
    BY <1>0, <2>1, ChangedIsGood DEF TypeOK
<1>8. CASE Write(p)
  <2>1. \A q \in Procs : ProcInv(q)'
    BY <1>8, WriterKeeps DEF Write, End
  <2> QED
    BY <1>7, <1>8, <2>1 DEF Write, Used, AuthInv
<1>9. CASE WriteFails(p)
  <2>1. \A q \in Procs : ProcInv(q)'
    BY <1>9, WriterKeeps DEF WriteFails, End
  <2> QED
    BY <1>0, <1>7, <1>9, <2>1 DEF WriteFails, AuthInv
<1> QED
  BY <1>1, <1>2, <1>3, <1>4, <1>5, <1>6, <1>8, <1>9 DEF Call

(* A day passes: what is left and what goes unused change alike.           *)
LEMMA InvTick ==
  ASSUME TypeOK, AuthInv, Tick
  PROVE  AuthInv'
<1>1. \A q \in Procs : ProcInv(q)'
  BY DEF Tick, ProcInv, procVars
<1>2. ASSUME NEW x \in Fields
      PROVE  file'[x].exp \in {Unknown, file'[x].left}
  BY DEF TypeOK, AuthInv, FileInv, Tick, Older, Token, Days, Unknown
<1>3. ASSUME NEW x \in Providers, file'[x].exp # Unknown, unused'[x] <= RefreshWindow
      PROVE  file'[x].exp + unused'[x] > RefreshWindow
  <2>1. x \in Fields /\ file[x].exp \in Days /\ unused[x] \in 0..(RefreshWindow + 1)
    BY DEF TypeOK, Fields, Token
  <2>2. file'[x] = Older(file[x]) /\ unused'[x] = unused[x] + 1
    BY <1>3, <2>1, ConstantsAssumption DEF Tick
  <2>3. file[x].exp # Unknown
    BY <1>3, <2>1, <2>2 DEF Older, Unknown
  <2>4. file[x].exp + unused[x] > RefreshWindow
    BY <1>3, <2>1, <2>2, <2>3, ConstantsAssumption DEF AuthInv, FileInv
  <2> QED
    BY <1>3, <2>1, <2>2, <2>4, ConstantsAssumption DEF Older, Days, Unknown
<1> QED
  BY <1>1, <1>2, <1>3 DEF AuthInv, FileInv

LEMMA InvStep == TypeOK /\ AuthInv /\ [Next]_vars => AuthInv'
<1> SUFFICES ASSUME TypeOK, AuthInv, [Next]_vars
             PROVE  AuthInv'
  OBVIOUS
<1>1. CASE Tick
  BY <1>1, InvTick
<1>2. ASSUME NEW p \in Procs, Call(p)
      PROVE  AuthInv'
  BY <1>2, InvCall
<1>3. ASSUME NEW p \in Procs, Crash(p)
      PROVE  AuthInv'
  <2>1. \A q \in Procs : ProcInv(q)'
    BY <1>3, GoKeeps DEF Crash, End, Unlock, Labels
  <2> QED
    BY <1>3, <2>1 DEF Crash, AuthInv
<1>4. CASE UNCHANGED vars
  BY <1>4 DEF vars, procVars, AuthInv, ProcInv
<1> QED
  BY <1>1, <1>2, <1>3, <1>4 DEF Next

LEMMA AuthInvHolds == Spec => []AuthInv
BY InvInit, InvStep, TypeCorrect, PTL DEF Spec

(* The recorded expiry is the stored token's own, for any number of        *)
(* processes that overlap and die (manager.go:304-311, 334-341).           *)
THEOREM ExpiriesAreTrue == Spec => []RecordedExpiryIsTrue
<1>1. AuthInv => RecordedExpiryIsTrue
  BY DEF AuthInv, FileInv, RecordedExpiryIsTrue
<1> QED
  BY <1>1, AuthInvHolds, PTL

(* A token that some call uses at least once per refresh window does not   *)
(* die, for any window shorter than the life of a token                    *)
(* (manager.go:298-300, 328-330).                                          *)
THEOREM TokensInUseStayAlive == Spec => []TokenInUseStaysAlive
<1>1. TypeOK /\ AuthInv => TokenInUseStaysAlive
  <2> SUFFICES ASSUME TypeOK, AuthInv, NEW x \in Providers,
                      file[x].exp # Unknown, unused[x] <= RefreshWindow
               PROVE  file[x].left > 0
    BY DEF TokenInUseStaysAlive
  <2>1. /\ x \in Fields /\ file[x].exp \in Days
        /\ unused[x] \in 0..(RefreshWindow + 1)
    BY DEF TypeOK, Fields, Token
  <2>2. file[x].exp = file[x].left /\ file[x].exp + unused[x] > RefreshWindow
    BY <2>1 DEF AuthInv, FileInv
  <2> QED
    BY <2>1, <2>2, ConstantsAssumption DEF Days
<1> QED
  BY <1>1, AuthInvHolds, TypeCorrect, PTL

(* No rewrite of the token file undoes a login or a refresh of the other   *)
(* provider, for any number of processes (store.go:127-156).               *)
THEOREM NoUpdateIsLost == Spec => UpdatesAreNotLost
<1>1. ASSUME TypeOK, AuthInv, [Next]_vars, NEW p \in Procs, pc[p] = "write",
             pc'[p] # pc[p], NEW x \in Fields \ Written(task[p])
      PROVE  file'[x] = file[x]
  <2>1. draft[p][x] = file[x]
    BY <1>1 DEF AuthInv, ProcInv, Changed
  <2>2. ASSUME NEW q \in Procs, Call(q), q # p
        PROVE  pc'[p] = pc[p]
    BY <1>1, <2>2 DEF Call, Load, Exchange, Login, Derive, Logout, Lock, Write,
       WriteFails, Go, End, TypeOK
  <2>3. CASE Write(p) \/ WriteFails(p)
    BY <2>1, <2>3 DEF Write, WriteFails
  <2>4. CASE \E q \in Procs : Crash(q)
    BY <2>4 DEF Crash
  <2>5. CASE Tick
    BY <1>1, <2>5 DEF Tick
  <2>6. CASE UNCHANGED vars
    BY <2>6 DEF vars
  <2> QED
    BY <1>1, <2>2, <2>3, <2>4, <2>5, <2>6
       DEF Next, Call, Load, Exchange, Login, Derive, Logout, Lock
<1>2. TypeOK /\ AuthInv /\ [Next]_vars =>
        [\A p \in Procs : pc[p] = "write" /\ pc'[p] # pc[p] =>
           \A x \in Fields \ Written(task[p]) : file'[x] = file[x]]_vars
  BY <1>1
<1> QED
  BY <1>2, AuthInvHolds, TypeCorrect, PTL DEF Spec, UpdatesAreNotLost

=============================================================================
