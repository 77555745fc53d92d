-------------------------------- MODULE Auth --------------------------------
(***************************************************************************)
(* internal/authn and internal/authstore: the token file that every ppw    *)
(* process shares.                                                         *)
(*                                                                         *)
(* Each process is a ppw auth command, or a goroutine whose Instagram,     *)
(* Facebook or Threads client asks for a token before an API call. A call  *)
(* loads the file, exchanges a token that is about to expire for a new     *)
(* one, and updates the file. Load and Update hold a file lock; the        *)
(* exchange between them does not. Time is counted in days: RefreshWindow  *)
(* is 7 in the code, tokens live for about 60. A call takes seconds, so a  *)
(* day passes only when none is under way.                                 *)
(***************************************************************************)
EXTENDS Integers, FiniteSets

Nobody == "nobody"

CONSTANTS
  Procs,          \* processes that use the token file
  Lifetime,       \* days a new token lives
  RefreshWindow   \* days before its expiry in which a token is refreshed

ASSUME ConstantsAssumption ==
  /\ Lifetime \in Nat
  /\ RefreshWindow \in Nat
  /\ RefreshWindow < Lifetime
  /\ Nobody \notin Procs

Providers == {"meta", "threads"}

Fields == Providers \cup {"page"}

Unknown == -1

(* A token that lives for left more days; exp says the same from the       *)
(* recorded expiry, which is Unknown when it was never found out.          *)
(* Identifiers, scopes and the dates nothing reads are left out.           *)
NoToken == [left |-> -1, exp |-> Unknown]

Days == -1..Lifetime

Token == [left : Days, exp : Days]

(* do is what the process is at, who is the field of the file it is about. *)
Requests == [do : {"request"}, who : Providers]
            \cup {[do |-> "page", who |-> "meta"]}

Clear == [do |-> "clear", who |-> Nobody]

Tasks == Requests \cup [do : {"login"}, who : Providers]
         \cup {[do |-> "derive", who |-> "page"], Clear}

Labels == {"idle", "exchange", "derive", "lock", "write"}

VARIABLES
  file,    \* tokens.json; an absent file is one without tokens
  lock,    \* the holder of tokens.json.lock
  pc, task,
  token,   \* the token each process loaded or was given
  draft,   \* what each process is about to write
  unused   \* days since a request or login for the provider last succeeded

procVars == <<pc, task, token, draft>>
vars == <<file, lock, procVars, unused>>

Empty == [x \in Fields |-> NoToken]

Init ==
  /\ file = Empty
  /\ lock = Nobody
  /\ pc = [p \in Procs |-> "idle"]
  /\ task = [p \in Procs |-> Clear]
  /\ token = [p \in Procs |-> NoToken]
  /\ draft = [p \in Procs |-> Empty]
  /\ unused = [x \in Providers |-> 0]

-----------------------------------------------------------------------------
(* Process p goes on with these local variables; the end forgets them.     *)
Go(p, label, t, tok, content) ==
  /\ pc' = [pc EXCEPT ![p] = label]
  /\ task' = [task EXCEPT ![p] = t]
  /\ token' = [token EXCEPT ![p] = tok]
  /\ draft' = [draft EXCEPT ![p] = content]

End(p) == Go(p, "idle", Clear, NoToken, Empty)

Used(x) == unused' = [unused EXCEPT ![x] = 0]

(* Mutant of Fresh: a token is kept on the first day of its last week.     *)
FreshToTheDay(t) == t.exp = Unknown \/ t.exp >= RefreshWindow

(* A token without a recorded expiry counts as one that never expires.     *)
Fresh(t) == t.exp = Unknown \/ t.exp > RefreshWindow

(* MetaUserToken, ThreadsAccessToken, and PageAccessToken which starts as  *)
(* the first: load the token, and return it unless it has to be refreshed. *)
Load(p) ==
  /\ pc[p] = "idle"
  /\ lock = Nobody
  /\ \E t \in Requests :
       /\ file[t.who] # NoToken
       /\ IF ~Fresh(file[t.who])
          THEN Go(p, "exchange", t, file[t.who], Empty) /\ UNCHANGED unused
          ELSE /\ IF t.do = "page" THEN Go(p, "derive", t, NoToken, Empty) ELSE End(p)
               /\ Used(t.who)
  /\ UNCHANGED <<file, lock>>

(* The service gives a new token for one that still lives.                 *)
Granted == {[left |-> Lifetime, exp |-> e] : e \in {Lifetime, Unknown}}

(* The exchange of an old token; unless it works the request fails.        *)
Exchange(p) ==
  /\ pc[p] = "exchange"
  /\ \/ /\ token[p].left > 0
        /\ \E new \in Granted : Go(p, "lock", task[p], new, Empty)
     \/ End(p)
  /\ UNCHANGED <<file, lock, unused>>

(* ppw auth login: the codes of the browser are exchanged for a token that *)
(* is then to be stored; when any call fails nothing is.                   *)
Login(p) ==
  /\ pc[p] = "idle"
  /\ \E x \in Providers, new \in Granted :
       Go(p, "lock", [do |-> "login", who |-> x], new, Empty)
  /\ UNCHANGED <<file, lock, unused>>

(* The page token is asked for with the user token, and stored. It does    *)
(* not expire.                                                             *)
Derive(p) ==
  /\ pc[p] = "derive"
  /\ \/ Go(p, "lock", [do |-> "derive", who |-> "page"],
           [left |-> Lifetime, exp |-> Unknown], Empty)
     \/ End(p)
  /\ UNCHANGED <<file, lock, unused>>

(* ppw auth logout.                                                        *)
Logout(p) ==
  /\ pc[p] = "idle"
  /\ Go(p, "lock", Clear, NoToken, Empty)
  /\ UNCHANGED <<file, lock, unused>>

-----------------------------------------------------------------------------
(* The fields of the file a task changes.                                  *)
Written(t) ==
  CASE t.do = "clear" -> Fields
    [] t.do = "login" /\ t.who = "meta" -> {"meta", "page"}
    [] OTHER -> {t.who}

(* Mutant of Changed: a refresh stores the token and not its expiry.       *)
ChangedButExpiry(t, f, new) ==
  [x \in Fields |-> IF x \notin Written(t) THEN f[x]
                    ELSE IF x # t.who THEN NoToken
                    ELSE IF t.do = "request" THEN [new EXCEPT !.exp = f[x].exp]
                    ELSE new]

(* The new file: one field is set, the others that are written are erased. *)
Changed(t, f, new) ==
  [x \in Fields |-> IF x \notin Written(t) THEN f[x]
                    ELSE IF x = t.who THEN new ELSE NoToken]

(* Mutant of Lock: the lock is taken by whoever asks.                      *)
LockFreely(p) ==
  /\ pc[p] = "lock"
  /\ lock' = p
  /\ Go(p, "write", task[p], token[p], Changed(task[p], file, token[p]))
  /\ UNCHANGED <<file, unused>>

(* Update and Save: under the lock the file is read again and changed.     *)
Lock(p) ==
  /\ pc[p] = "lock"
  /\ lock = Nobody
  /\ lock' = p
  /\ Go(p, "write", task[p], token[p], Changed(task[p], file, token[p]))
  /\ UNCHANGED <<file, unused>>

Unlock(p) == lock' = IF lock = p THEN Nobody ELSE lock

(* The file is replaced and the lock given back.                           *)
Write(p) ==
  /\ pc[p] = "write"
  /\ file' = draft[p]
  /\ Unlock(p)
  /\ IF task[p].do = "page" THEN Go(p, "derive", task[p], NoToken, Empty) ELSE End(p)
  /\ IF task[p].who \in Providers THEN Used(task[p].who) ELSE UNCHANGED unused

(* An error before the rename or after it ends the call; PageAccessToken   *)
(* alone does not mind.                                                    *)
WriteFails(p) ==
  /\ pc[p] = "write"
  /\ file' \in {file, draft[p]}
  /\ Unlock(p)
  /\ End(p)
  /\ UNCHANGED unused

(* A process dies; the kernel gives its lock back.                         *)
Crash(p) ==
  /\ pc[p] # "idle"
  /\ Unlock(p)
  /\ End(p)
  /\ UNCHANGED <<file, unused>>

(* Mutant of Older: an expiry that was never found out runs out as well.   *)
OlderAll(t) ==
  [left |-> IF t.left > 0 THEN t.left - 1 ELSE t.left,
   exp  |-> IF t.exp # 0 THEN t.exp - 1 ELSE t.exp]

Older(t) ==
  [left |-> IF t.left > 0 THEN t.left - 1 ELSE t.left,
   exp  |-> IF t.exp > 0 THEN t.exp - 1 ELSE t.exp]

(* A day passes. Page tokens do not expire.                                *)
Tick ==
  /\ \A p \in Procs : pc[p] = "idle"
  /\ file' = [x \in Fields |-> IF x \in Providers THEN Older(file[x]) ELSE file[x]]
  /\ unused' = [x \in Providers |-> IF unused[x] > RefreshWindow THEN unused[x]
                                    ELSE unused[x] + 1]
  /\ UNCHANGED <<lock, procVars>>

Call(p) ==
  \/ Load(p) \/ Exchange(p) \/ Login(p) \/ Derive(p) \/ Logout(p) \/ Lock(p)
  \/ Write(p) \/ WriteFails(p)

Next == Tick \/ \E p \in Procs : Call(p) \/ Crash(p)

Spec == Init /\ [][Next]_vars

-----------------------------------------------------------------------------
(* Every variable has its type; a process that writes holds the lock.      *)
TypeOK ==
  /\ file \in [Fields -> Token]
  /\ lock \in Procs \cup {Nobody}
  /\ pc \in [Procs -> Labels]
  /\ task \in [Procs -> Tasks]
  /\ token \in [Procs -> Token]
  /\ draft \in [Procs -> [Fields -> Token]]
  /\ unused \in [Providers -> 0..(RefreshWindow + 1)]

(* Whatever overlaps or dies between two steps, a rewrite for one provider *)
(* leaves the tokens of the other as they are in the file at that moment:  *)
(* no login and no refresh is lost (store.go:127-156).                     *)
UpdatesAreNotLost ==
  [][\A p \in Procs : pc[p] = "write" /\ pc'[p] # pc[p] =>
       \A x \in Fields \ Written(task[p]) : file'[x] = file[x]]_vars

(* The recorded expiry is the one of the token it is stored with, or none  *)
(* is recorded, also after overlapping refreshes, logins and logouts       *)
(* (manager.go:304-311, 334-341).                                          *)
RecordedExpiryIsTrue ==
  \A x \in Fields : file[x].exp \in {Unknown, file[x].left}

(* A token whose expiry is known does not die as long as some call for its *)
(* provider succeeds at least once per refresh window, however the calls   *)
(* overlap, fail and die in between (manager.go:298-300, 328-330).         *)
TokenInUseStaysAlive ==
  \A x \in Providers :
    file[x].exp # Unknown /\ unused[x] <= RefreshWindow => file[x].left > 0

=============================================================================
