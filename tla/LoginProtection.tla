----------------------------- MODULE LoginProtection -----------------------------
(***************************************************************************)
(* Counting wrong passwords for one name a user signs in with, in          *)
(* auth-service.  Every key of Redis holds the name as it was typed, the   *)
(* e-mail address or the user name, so the two are counted apart: the      *)
(* module follows the keys of one of them.  There is a state for each      *)
(* address attempts come from, and one for the name's account.  A password *)
(* reset knows the e-mail address, and clears only the keys of that.       *)
(*                                                                         *)
(* Each GET and SET is a call of its own: attempts in several replicas     *)
(* read, compute and write in between each other, and a request may break  *)
(* off between any two calls.                                              *)
(*                                                                         *)
(* MaxAttempts wrong passwords from an address lock it; the first one      *)
(* after that lock has passed locks it again.  Each lock is a strike, and  *)
(* after MaxStrikes the account needs a new password.                      *)
(***************************************************************************)
EXTENDS Naturals

CONSTANTS
  Ips, Tries,               \* addresses; attempts under way at once
  MaxAttempts, MaxStrikes,  \* settings.login_max_attempts, _max_strikes: 3
  FirstLockout, RetryLockout, \* in ticks of the clock
  MaxNow, MaxTries, MaxResets, MaxBreaks \* bounds on the clock, attempts,
                            \* resets and requests that break off

ASSUME LoginAssumption ==
  /\ {MaxAttempts, MaxStrikes, FirstLockout, RetryLockout} \subseteq Nat \ {0}
  /\ {MaxNow, MaxTries, MaxResets, MaxBreaks} \subseteq Nat

VARIABLES
  now,
  loginId,                  \* what the name is: "email" or "username"
  ipState, account,         \* Redis
  knownIps,                 \* Redis: the addresses with a state
  try,                      \* each attempt: its next call, its address, whether
                            \* its password is right, the address state it has
                            \* read, and what it will write
  resetAt, resetIps,        \* the password reset
  tries, resets, breaks,
  counted,                  \* wrong passwords of each address since it was last
                            \* cleared
  earned,                   \* strikes they were worth since the account was last
                            \* cleared, of requests that were not broken off
  since,                    \* wrong passwords since the account was last cleared
  raced, straddled          \* requests overlapped; one held what it read of the
                            \* account while the account was cleared

storeVars == <<ipState, account, knownIps>>
resetVars == <<resetAt, resetIps>>
ledgerVars == <<counted, earned, since, raced, straddled>>
loginVars == <<now, loginId, storeVars, try, resetVars, tries, resets, breaks, ledgerVars>>

Fresh == [phase |-> "normal", failures |-> 0, until |-> 0, tier |-> "none"]
Clean == [strikes |-> 0, reset |-> FALSE]
Unlocked == <<Fresh, Clean>>
NoTry == [at |-> "idle", ip |-> "none", right |-> FALSE, saw |-> Fresh, next |-> Unlocked]

LoginInit ==
  /\ now = 0
  /\ loginId \in {"email", "username"}
  /\ ipState = [ip \in Ips |-> Fresh]
  /\ account = Clean
  /\ knownIps = {}
  /\ try = [x \in Tries |-> NoTry]
  /\ resetAt = "idle" /\ resetIps = {}
  /\ tries = 0 /\ resets = 0 /\ breaks = 0
  /\ counted = [ip \in Ips |-> 0]
  /\ earned = 0 /\ since = 0
  /\ raced = FALSE /\ straddled = FALSE

TickLogin ==
  /\ now < MaxNow
  /\ now' = now + 1
  /\ UNCHANGED <<loginId, storeVars, try, resetVars, tries, resets, breaks, ledgerVars>>

-------------------------------------------------------------------------------
(* The rules.                                                              *)

\* Slip: every lock ends without the grace of one attempt.
AdvanceToNormal(s) == IF s.phase = "locked" /\ now >= s.until THEN Fresh ELSE s

\* advance_ip_state.
Advance(s) ==
  IF s.phase = "locked" /\ now >= s.until
  THEN [Fresh EXCEPT !.phase = IF s.tier = "primary" THEN "grace" ELSE "normal"]
  ELSE s

Locked(tier, lockout) ==
  [phase |-> "locked", failures |-> 0, until |-> now + lockout, tier |-> tier]

\* check_login_allowed.
Allowed(s, acct) == ~acct.reset /\ Advance(s).phase # "locked"

\* record_login_failure.
AfterFailure(s, acct) ==
  LET t == Advance(s)
      locks == t.phase = "grace" \/ t.failures + 1 >= MaxAttempts
      strikes == acct.strikes + IF locks THEN 1 ELSE 0
      nextIp ==
        IF t.phase = "grace" THEN Locked("retry", RetryLockout)
        ELSE IF locks THEN Locked("primary", FirstLockout)
        ELSE [t EXCEPT !.failures = @ + 1]
  IN  IF acct.reset THEN <<t, acct>>
      ELSE <<nextIp, [strikes |-> strikes, reset |-> strikes >= MaxStrikes]>>

\* record_login_success.
AfterSuccess(s, acct) == IF acct.reset THEN <<s, acct>> ELSE Unlocked

-------------------------------------------------------------------------------
(* POST /login, call by call.                                              *)

OpenTries == {x \in Tries : try[x].at # "idle"}

\* check, its GET of the address.
BeginTry(x, ip, right) ==
  /\ try[x].at = "idle"
  /\ tries < MaxTries
  /\ tries' = tries + 1
  /\ try' = [try EXCEPT ![x] = [NoTry EXCEPT !.at = "check", !.ip = ip,
                                            !.right = right, !.saw = ipState[ip]]]
  /\ raced' = (raced \/ OpenTries # {} \/ resetAt # "idle")
  /\ UNCHANGED <<now, loginId, storeVars, resetVars, resets, breaks,
                 counted, earned, since, straddled>>

\* check, its GET of the account; a request refused here is over.
CheckTry(x) ==
  /\ try[x].at = "check"
  /\ try' = [try EXCEPT ![x] =
               IF Allowed(@.saw, account) THEN [@ EXCEPT !.at = "verified"] ELSE NoTry]
  /\ UNCHANGED <<now, loginId, storeVars, resetVars, tries, resets, breaks, ledgerVars>>

\* The password is compared; record_failure or record_success reads again.
RecordIp(x) ==
  /\ try[x].at = "verified"
  /\ try' = [try EXCEPT ![x].at = "account", ![x].saw = ipState[try[x].ip]]
  /\ UNCHANGED <<now, loginId, storeVars, resetVars, tries, resets, breaks, ledgerVars>>

RecordAccount(x) ==
  /\ try[x].at = "account"
  /\ try' = [try EXCEPT ![x].at = "setIp",
                        ![x].next = IF try[x].right THEN AfterSuccess(try[x].saw, account)
                                    ELSE AfterFailure(try[x].saw, account)]
  /\ since' = IF try[x].right THEN since ELSE since + 1
  /\ UNCHANGED <<now, loginId, storeVars, resetVars, tries, resets, breaks,
                 counted, earned, raced, straddled>>

\* set_ip_state: SET and SADD in one pipeline.
SetIp(x) ==
  LET ip == try[x].ip IN
  /\ try[x].at = "setIp"
  /\ ipState' = [ipState EXCEPT ![ip] = try[x].next[1]]
  /\ knownIps' = knownIps \union {ip}
  /\ try' = [try EXCEPT ![x].at = "setAccount"]
  /\ counted' = [counted EXCEPT ![ip] = IF ~try[x].right THEN @ + 1
                                        ELSE IF try[x].next = Unlocked THEN 0 ELSE @]
  /\ UNCHANGED <<now, loginId, account, resetVars, tries, resets, breaks,
                 earned, since, raced, straddled>>

\* The n-th wrong password of an address is a strike when it locks the address,
\* or comes first after the lock.
IsStrike(n) == (n % (MaxAttempts + 1)) \in {MaxAttempts, 0}

\* The account is cleared while the attempts in S are under way.
Clearing(S) ==
  /\ earned' = 0
  /\ since' = 0
  /\ straddled' = (\E x \in S : try[x].at \in {"setIp", "setAccount"})

SetAccount(x) ==
  /\ try[x].at = "setAccount"
  /\ account' = try[x].next[2]
  /\ try' = [try EXCEPT ![x] = NoTry]
  /\ IF try[x].right /\ ~account'.reset THEN Clearing(Tries \ {x})
     ELSE /\ earned' = IF ~try[x].right /\ IsStrike(counted[try[x].ip])
                       THEN earned + 1 ELSE earned
          /\ UNCHANGED <<since, straddled>>
  /\ UNCHANGED <<now, loginId, ipState, knownIps, resetVars, tries, resets, breaks,
                 counted, raced>>

\* The request breaks off before its next call.
BreakTry(x) ==
  /\ try[x].at # "idle"
  /\ breaks < MaxBreaks
  /\ breaks' = breaks + 1
  /\ try' = [try EXCEPT ![x] = NoTry]
  /\ UNCHANGED <<now, loginId, storeVars, resetVars, tries, resets, ledgerVars>>

-------------------------------------------------------------------------------
(* POST /reset-password: unlock_after_password_reset, with the e-mail      *)
(* address the token was sent to.                                          *)

\* clear_email, its SMEMBERS.
BeginReset ==
  /\ resetAt = "idle"
  /\ resets < MaxResets
  /\ resets' = resets + 1
  /\ resetIps' = IF loginId = "email" THEN knownIps ELSE {}
  /\ resetAt' = "clear"
  /\ raced' = (raced \/ OpenTries # {})
  /\ UNCHANGED <<now, loginId, storeVars, try, tries, breaks,
                 counted, earned, since, straddled>>

\* The account that a reset clears is the e-mail address's.
ClearAccount ==
  IF loginId = "email" THEN account' = Clean /\ Clearing(Tries)
  ELSE UNCHANGED <<account, earned, since, straddled>>

\* ... and its pipeline.
ClearEmail ==
  /\ resetAt = "clear"
  /\ ClearAccount
  /\ ipState' = [ip \in Ips |-> IF ip \in resetIps THEN Fresh ELSE ipState[ip]]
  /\ counted' = [ip \in Ips |-> IF ip \in resetIps THEN 0 ELSE counted[ip]]
  /\ knownIps' = IF loginId = "email" THEN {} ELSE knownIps
  /\ resetAt' = "set"
  /\ UNCHANGED <<now, loginId, try, resetIps, tries, resets, breaks, raced>>

SetCleared ==
  /\ resetAt = "set"
  /\ ClearAccount
  /\ resetAt' = "idle"
  /\ UNCHANGED <<now, loginId, ipState, knownIps, try, resetIps, tries, resets, breaks,
                 counted, raced>>

\* The reset breaks off before its next call.
BreakReset ==
  /\ resetAt # "idle"
  /\ breaks < MaxBreaks
  /\ breaks' = breaks + 1
  /\ resetAt' = "idle"
  /\ UNCHANGED <<now, loginId, storeVars, try, resetIps, tries, resets, ledgerVars>>

LoginNext ==
  \/ TickLogin
  \/ \E x \in Tries :
       \/ \E ip \in Ips, right \in BOOLEAN : BeginTry(x, ip, right)
       \/ CheckTry(x) \/ RecordIp(x) \/ RecordAccount(x) \/ SetIp(x) \/ SetAccount(x)
       \/ BreakTry(x)
  \/ BeginReset \/ ClearEmail \/ SetCleared \/ BreakReset

LoginSpec == LoginInit /\ [][LoginNext]_loginVars

-------------------------------------------------------------------------------
(* Properties.                                                             *)

\* Every wrong password counts once: as long as requests come one at a time,
\* the account has the strikes that its wrong passwords are worth, whatever
\* locks have passed, however many addresses they came from and wherever a
\* request breaks off.  One that breaks off after it wrote the address's state
\* has locked the address and loses its strike, and no other.
StrikesCounted ==
  ~raced /\ OpenTries = {} /\ resetAt = "idle" => account.strikes = earned

\* An account needs a new password only after as many wrong ones as there are
\* strikes since it was last signed in to or reset, however attempts overlap:
\* excepted is an attempt that held its strikes while they were cleared, and
\* writes them back.
LockedForReason == account.reset => straddled \/ since >= MaxStrikes

\* Strikes are what the wrong passwords are worth, no fewer and no more.
StrikesEarned == StrikesCounted /\ LockedForReason
===============================================================================
