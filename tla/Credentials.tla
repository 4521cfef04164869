----------------------------- MODULE Credentials -----------------------------
(***************************************************************************)
(* credentials.json: `claw login', `claw logout' and the start of a turn,  *)
(* which loads the saved tokens, refreshes them when they have expired and *)
(* saves what it got (runtime/src/oauth.rs, api/src/providers/anthropic.rs *)
(* and the command line).                                                  *)
(*                                                                         *)
(* Programs do not know of each other.  A save reads the whole file,       *)
(* changes one key, writes it beside the file, always under one name, and  *)
(* renames it: a program whose temporary file another one renames goes on  *)
(* writing to what is now the file.  Every system call may fail and every  *)
(* program may end between two of them; both end the operation.  The       *)
(* provider may replace the refresh token with every refresh, and then     *)
(* refuses the one before.                                                 *)
(***************************************************************************)
EXTENDS Integers

CONSTANTS
  Programs,
  MaxGrants, \* bound: tokens issued by the provider
  MaxOps,    \* bound: operations begun
  MaxFaults  \* bound: calls that fail, answers that are lost, programs that end

VARIABLES
  path, temp, \* credentials.json and credentials.json.tmp
  op,         \* what each program is at
  grants, valid, expired, \* the provider: how many tokens it issued, the refresh tokens
                          \* it accepts, the access tokens that have expired
  ops, faults,
  promise,    \* histories: what the last successful save was to leave in the file,
  clash,      \* whether saves have overlapped since the last one that had the file to itself,
  lost,       \* whether a newer refresh token was lost: with the answer or the program that
              \* had it, or because another program has yet to save an older answer; until a
              \* login or a logout when no program is about to save a refreshed token,
  loggedOut,  \* whether the last change was a logout,
  before      \* and the programs that were at something when it ended

vars == <<path, temp, op, grants, valid, expired, ops, faults, promise, clash, lost, loggedOut, before>>

\* OAuthTokenSet: the access token is its number; no refresh token is 0.
NoToken == [access |-> 0, refresh |-> 0]
\* A file: what reading it gives.  `other' are keys that are not the program's.
Object(token, other) == [is |-> "object", token |-> token, other |-> other]
Absent == [is |-> "absent", token |-> NoToken, other |-> FALSE]
Empty == [Absent EXCEPT !.is = "empty"]
Garbled == [Absent EXCEPT !.is = "garbled"]

\* A save has the file from `at' = "opening" to its rename; `file' is what its descriptor leads to.
Idle == [kind |-> "idle", at |-> "idle", token |-> NoToken, root |-> Empty, file |-> "none", mixed |-> FALSE]
Saving(p) == op[p].at \in {"opening", "writing", "renaming"}

Init ==
  /\ path \in {Absent, Object(NoToken, TRUE)} /\ temp = Absent
  /\ op = [p \in Programs |-> Idle]
  /\ grants = 0 /\ valid = {} /\ expired = {} /\ ops = 0 /\ faults = 0
  /\ promise = path /\ clash = FALSE /\ lost = FALSE /\ loggedOut = FALSE /\ before = {}

Provider == <<grants, valid, expired>>
Files == <<path, temp>>
Histories == <<promise, clash, lost, loggedOut, before>>

\* A program has a token that nobody else has: the provider accepts it and the file lacks it.
Holds(p) == op[p].token # NoToken /\ op[p].at \in {"saving", "opening", "writing", "renaming"}
\* The operation ends without its save: a token of a refresh is lost with it.
Stops(p, replaced) ==
  /\ op' = [op EXCEPT ![p] = Idle]
  /\ lost' = (lost \/ replaced \/ (Holds(p) /\ op[p].kind = "start"))
Fault == faults < MaxFaults /\ faults' = faults + 1

\* run_login, run_logout and resolve_startup_auth_source begin.
Begin(p) ==
  /\ op[p] = Idle /\ ops < MaxOps /\ ops' = ops + 1
  /\ \/ op' = [op EXCEPT ![p].kind = "login", ![p].at = "waiting"]
     \/ op' = [op EXCEPT ![p].kind = "logout", ![p].at = "saving"]
     \/ op' = [op EXCEPT ![p].kind = "start", ![p].at = "loading"]
  /\ UNCHANGED <<Files, Provider, faults, Histories>>

\* The first request at the port is the callback.  One with an error, without a code or with
\* the state of an earlier login ends the login; the code of this one is exchanged.
Callback(p) ==
  /\ op[p].at = "waiting"
  /\ \/ /\ grants < MaxGrants /\ grants' = grants + 1
        /\ \E refresh \in {0, grants'} :
             /\ op' = [op EXCEPT ![p].at = "saving", ![p].token = [access |-> grants', refresh |-> refresh]]
             /\ valid' = valid \union ({refresh} \ {0})
        /\ UNCHANGED <<expired, lost>>
     \/ Stops(p, FALSE) /\ UNCHANGED Provider
  /\ UNCHANGED <<Files, ops, faults, promise, clash, loggedOut, before>>

\* load_oauth_credentials: without a token, and with one that has expired and cannot be
\* refreshed, there is no source; a fresh one is used as it is.
Load(p) ==
  /\ op[p].at = "loading"
  /\ IF path.token.access \in expired /\ path.token.refresh # 0
     THEN op' = [op EXCEPT ![p].at = "refreshing", ![p].token = path.token]
     ELSE op' = [op EXCEPT ![p] = Idle]
  /\ UNCHANGED <<Files, Provider, ops, faults, Histories>>

\* Mutant of Refreshed: a refresh token that the answer does not repeat is forgotten.
RefreshedAsTold(token, replaced) == [access |-> grants + 1, refresh |-> IF replaced THEN grants + 1 ELSE 0]

\* Mutant of Refreshed: the token that was sent stays, also when the answer has a new one.
RefreshedAsBefore(token, replaced) == [token EXCEPT !.access = grants + 1]

\* What resolve_saved_oauth_token_set makes of the answer: without a new refresh token the old one stays.
Refreshed(token, replaced) == [access |-> grants + 1, refresh |-> IF replaced THEN grants + 1 ELSE token.refresh]

\* refresh_oauth_token.
Refresh(p) ==
  /\ op[p].at = "refreshing"
  /\ LET old == op[p].token.refresh IN
     \/ /\ old \in valid /\ grants < MaxGrants /\ grants' = grants + 1
        /\ \E replaced \in BOOLEAN :
             /\ valid' = IF replaced THEN (valid \ {old}) \union {grants'} ELSE valid
             /\ \/ /\ op' = [op EXCEPT ![p].at = "saving", ![p].token = Refreshed(op[p].token, replaced)]
                   /\ lost' = (lost \/ (replaced /\ \E q \in Programs \ {p} : Holds(q) /\ op[q].token.refresh = old))
                   /\ UNCHANGED faults
                \/ Fault /\ Stops(p, replaced)
        /\ UNCHANGED expired
     \/ Stops(p, FALSE) /\ UNCHANGED <<Provider, faults>>
  /\ UNCHANGED <<Files, ops, promise, clash, loggedOut, before>>

\* read_credentials_root of a save or a clear.
ReadRoot(p) ==
  /\ op[p].at = "saving"
  /\ IF path.is = "garbled"
     THEN Stops(p, FALSE)
     ELSE /\ op' = [q \in Programs |->
                      IF q = p THEN [op[p] EXCEPT !.at = "opening", !.root = path,
                                                  !.mixed = \E r \in Programs \ {p} : Saving(r)]
                      ELSE [op[q] EXCEPT !.mixed = @ \/ Saving(q)]]
          /\ UNCHANGED lost
  /\ UNCHANGED <<Files, Provider, ops, faults, promise, clash, loggedOut, before>>

\* Mutant of Kept: the file is made anew.
KeptNothing(root) == FALSE

\* The root read before, with the key of the tokens replaced or removed.
Kept(root) == root.other
Content(p) == Object(op[p].token, Kept(op[p].root))

\* fs::write in write_credentials_root: the temporary file is emptied, or created.
Open(p) ==
  /\ op[p].at = "opening"
  /\ temp' = Empty /\ op' = [op EXCEPT ![p].at = "writing", ![p].file = "temp"]
  /\ UNCHANGED <<path, Provider, ops, faults, Histories>>

\* Bytes over those of another program leave a mixture unless there are as many.
Over(old, new) == IF old \in {Empty, new} THEN {new} ELSE {new, Garbled}
\* The file that a program's descriptor leads to becomes one of `outcomes'.
Written(file, outcomes) ==
  \/ file = "temp" /\ temp' \in outcomes /\ UNCHANGED path
  \/ file = "path" /\ path' \in outcomes /\ UNCHANGED temp
  \/ file = "gone" /\ UNCHANGED Files

Write(p) ==
  /\ op[p].at = "writing"
  /\ \E file \in {op[p].file} :
       \/ /\ Written(file, Over(IF file = "path" THEN path ELSE temp, Content(p)))
          /\ op' = [op EXCEPT ![p].at = "renaming", ![p].file = "none"] /\ UNCHANGED <<faults, lost>>
       \/ Fault /\ Written(file, {Garbled}) /\ Stops(p, FALSE)
  /\ UNCHANGED <<Provider, ops, promise, clash, loggedOut, before>>

\* What a save promises: one key of what is promised so far, or of what was found after an overlap.
Promised(p) == Object(op[p].token, IF clash THEN op[p].root.other ELSE promise.other)

\* fs::rename; descriptors follow their files.
Rename(p) ==
  /\ op[p].at = "renaming"
  /\ IF temp = Absent
     THEN Stops(p, FALSE) /\ UNCHANGED <<Files, promise, clash, loggedOut, before>>
     ELSE /\ path' = temp /\ temp' = Absent
          /\ op' = [q \in Programs |->
                      IF q = p THEN Idle
                      ELSE [op[q] EXCEPT !.file = IF @ = "temp" THEN "path" ELSE IF @ = "path" THEN "gone" ELSE @]]
          /\ clash' = op[p].mixed
          /\ promise' = Promised(p)
          /\ lost' = (lost /\ \/ op[p].kind = "start"
                               \/ \E q \in Programs \ {p} : Holds(q) /\ op[q].kind = "start")
          /\ loggedOut' = ((op[p].kind = "logout" /\ ~op[p].mixed) \/ (loggedOut /\ op[p].kind = "start" /\ p \notin before))
          /\ before' = IF op[p].kind = "logout" THEN {q \in Programs \ {p} : op[q] # Idle} ELSE before \ {p}
  /\ UNCHANGED <<Provider, ops, faults>>

\* A call fails or the program ends; the configuration that a refresh needs may not load.
Dies(p) ==
  /\ op[p] # Idle /\ Fault /\ Stops(p, FALSE)
  /\ UNCHANGED <<Files, Provider, ops, promise, clash, loggedOut, before>>

Expire ==
  /\ \E t \in (1..grants) \ expired : expired' = expired \union {t}
  /\ UNCHANGED <<Files, op, grants, valid, ops, faults, Histories>>

Next ==
  \/ \E p \in Programs :
       \/ Begin(p) \/ Callback(p) \/ Load(p) \/ Refresh(p) \/ ReadRoot(p)
       \/ Open(p) \/ Write(p) \/ Rename(p) \/ Dies(p)
  \/ Expire

Spec == Init /\ [][Next]_vars

TypeOK ==
  LET Tokens == [access : 0..MaxGrants, refresh : 0..MaxGrants]
      Contents == [is : {"object", "absent", "empty", "garbled"}, token : Tokens, other : BOOLEAN]
  IN /\ {path, temp, promise} \subseteq Contents
     /\ op \in [Programs -> [kind : {"idle", "login", "logout", "start"},
                             at : {"idle", "waiting", "loading", "refreshing", "saving", "opening", "writing", "renaming"},
                             token : Tokens, root : Contents, file : {"none", "temp", "path", "gone"}, mixed : BOOLEAN]]
     /\ grants \in 0..MaxGrants /\ valid \subseteq 1..grants /\ expired \subseteq 1..grants
     /\ ops \in 0..MaxOps /\ faults \in 0..MaxFaults
     /\ {clash, lost, loggedOut} \subseteq BOOLEAN /\ before \subseteq Programs

\* Unless saves have overlapped, the file is exactly what the last save that succeeded was to
\* leave, whatever failed or ended since: a logout, a login and a refresh are whole or nothing,
\* and keys of others stay.
FileIsThePromise == clash \/ path = promise

\* A token in the file can be refreshed whenever the provider gave anything to refresh it with:
\* its refresh token is the newest, or a program is about to save a newer one, unless the
\* provider's answer or the program that had it was lost, or two programs refreshed one token
\* and the one with the older answer was the slower.
NewestIsKept ==
  \/ clash \/ lost \/ path.token.refresh \in valid \union {0}
  \/ \E p \in Programs : op[p].kind = "start" /\ Holds(p)

\* A login whose token could be refreshed stays one: only another login or a logout ends that.
RefreshKept ==
  (path.token.refresh # 0 /\ path'.token # NoToken /\ path'.token.refresh = 0) =>
    clash \/ clash' \/ \E p \in Programs : op[p].kind = "login" /\ op'[p] = Idle

\* After a logout the file has no token until the next login, except from a program that was
\* about to refresh the old one when it ended.
LogoutHolds == loggedOut => clash \/ path.token = NoToken

CredentialsAreSound == FileIsThePromise /\ NewestIsKept /\ LogoutHolds

-----------------------------------------------------------------------------
(* What all this follows from.                                             *)

Tokens == [access : 0..grants, refresh : 0..grants]
Contents == [is : {"object", "absent", "empty", "garbled"}, token : Tokens, other : BOOLEAN]
Operations ==
  [kind : {"idle", "login", "logout", "start"},
   at : {"idle", "waiting", "loading", "refreshing", "saving", "opening", "writing", "renaming"},
   token : Tokens, root : Contents, file : {"none", "temp", "path", "gone"}, mixed : BOOLEAN]

Typed ==
  /\ path \in Contents /\ temp \in Contents /\ promise \in Contents
  /\ op \in [Programs -> Operations]
  /\ grants \in 0..MaxGrants /\ valid \subseteq 1..grants /\ expired \subseteq 1..grants
  /\ ops \in 0..MaxOps /\ faults \in 0..MaxFaults
  /\ clash \in BOOLEAN /\ lost \in BOOLEAN /\ loggedOut \in BOOLEAN /\ before \subseteq Programs

\* What the place of a program in its operation says of it.
InStep(p) ==
  /\ op[p].at # "idle" => op[p].kind # "idle"
  /\ op[p].at = "waiting" => op[p].kind = "login"
  /\ op[p].at \in {"loading", "refreshing"} => op[p].kind = "start"
  /\ op[p].kind = "logout" => op[p].token = NoToken
  /\ op[p].kind = "start" /\ op[p].at # "loading" => op[p].token.refresh # 0
  /\ op[p].at = "writing" <=> op[p].file # "none"
  /\ op[p].mixed => Saving(p)

\* A save that has not met another has both files to itself.
Alone(p) ==
  Saving(p) /\ ~op[p].mixed =>
    /\ \A q \in Programs \ {p} : ~Saving(q)
    /\ op[p].root = path
    /\ op[p].at = "writing" => op[p].file = "temp" /\ temp = Empty
    /\ op[p].at = "renaming" => temp = Content(p)

\* The token of a login is its own until it is saved.
OwnToken(p) ==
  LET own == op[p].token.refresh IN
  op[p].kind = "login" /\ Holds(p) /\ ~op[p].mixed /\ own # 0 =>
    /\ own \in valid /\ path.token.refresh # own
    /\ op[p].at = "saving" => temp.token.refresh # own
    /\ \A q \in Programs \ {p} : op[q].token.refresh # own

\* A refreshed token is the newest, or a loss.
NewestToken(p) == op[p].kind = "start" /\ Holds(p) => lost \/ op[p].token.refresh \in valid

\* After a logout nobody has a token to save but those who had it before.
LogoutIsLast ==
  loggedOut =>
    /\ ~clash /\ path.token = NoToken
    /\ \A p \in Programs : op[p].kind = "start" /\ op[p].at # "loading" => p \in before

Inv ==
  /\ Typed /\ (\A p \in Programs : InStep(p) /\ Alone(p) /\ OwnToken(p) /\ NewestToken(p))
  /\ ~clash => \A p \in Programs : op[p].file # "path"
  /\ FileIsThePromise /\ NewestIsKept /\ LogoutIsLast
=============================================================================
