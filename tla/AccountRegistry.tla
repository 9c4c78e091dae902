---------------------------- MODULE AccountRegistry ----------------------------
(***************************************************************************)
(* The accounts of the configuration (config/config.go) and who changes    *)
(* them: administrators, imports, requests that find an account suspended, *)
(* the refresh of account information and of tokens.                       *)
(*                                                                         *)
(* Every operation runs under cfgLock, changes cfg.Accounts and writes the *)
(* whole configuration; some take their change back when the write fails   *)
(* and some do not.  An account keeps its id, whether it is an API key     *)
(* (ksk), what identifies it (user id, email, machine id, or the key       *)
(* itself), the version of its credentials, the switch and the ban.  A ban *)
(* is "auto" when its reason is one that ClearAccountBan lifts.            *)
(* D_x is D with the defect x, and no part of the specification.           *)
(***************************************************************************)
EXTENDS Integers, Sequences, SequencesExt

CONSTANTS
  AccountIds,      \* identifiers
  Users,           \* user ids, emails and machine ids
  Keys,            \* API key values
  NoId,            \* no account
  MaxAccounts,     \* bound on the length of the list
  MaxCred,         \* bound on refreshes of an account's credentials
  MaxRegFaults,    \* bound on failed writes
  RegLineups       \* what takes part: records of ids, users, keys and whether status is edited

ASSUME RegistryAssumption ==
  /\ NoId \notin AccountIds /\ MaxAccounts \in Nat /\ MaxCred \in Nat /\ MaxRegFaults \in Nat
  /\ \A l \in RegLineups :
       l.ids \subseteq AccountIds /\ l.users \subseteq Users /\ l.keys \subseteq Keys

VARIABLES
  cast,        \* the member of RegLineups this behaviour is about; never changes
  accounts,    \* cfg.Accounts
  accFile,     \* the accounts in the file
  infoCopy,    \* the copy RefreshAccountInfo works on: [id, banned]
  adminCopy,   \* the copy apiUpdateAccount has read
  gone,        \* history: ids deleted, the write having succeeded, and not added since
  regFaults    \* failed writes so far

regVars == <<cast, accounts, accFile, infoCopy, adminCopy, gone, regFaults>>

NoInfo == [id |-> NoId, banned |-> FALSE]
NoRecord == [id |-> NoId, ksk |-> FALSE, idents |-> {}, cred |-> 0, on |-> FALSE, ban |-> "none"]
Ids(list) == {list[i].id : i \in DOMAIN list}
Index(id) == CHOOSE i \in DOMAIN accounts : accounts[i].id = id
Current(id) == accounts[Index(id)]
Bans == {"auto", "manual"}

RegInit ==
  /\ cast \in RegLineups
  /\ accounts = <<>> /\ accFile = <<>>
  /\ infoCopy = NoInfo /\ adminCopy = NoRecord
  /\ gone = {} /\ regFaults = 0

(* Save: the file is replaced as a whole, by a rename, or not at all. *)
Saves(list) == accounts' = list /\ accFile' = list /\ UNCHANGED regFaults
Fault == regFaults < MaxRegFaults /\ regFaults' = regFaults + 1
FailsKeeping(list) == Fault /\ accounts' = list /\ UNCHANGED accFile
FailsUndone(list) == Fault /\ UNCHANGED <<accounts, accFile>>

-----------------------------------------------------------------------------
(* sameAccountIdentity.  An API key is a credential: it is matched by its   *)
(* id or its value, never by the user behind it.                            *)
sameAccountIdentity(a, b) ==
  \/ a.id = b.id
  \/ a.ksk = b.ksk /\ a.idents \cap b.idents # {}

(* mergeAccountDefaults: the new record keeps the id, and fields it does    *)
(* not set (nickname, proxy, overage, counters: not followed here).         *)
mergeAccountDefaults(a, existing) == [a EXCEPT !.id = existing.id]

(* upsertAccountByIdentityLocked: the first account that matches is         *)
(* replaced and keeps its id; otherwise the new one is appended.            *)
upsertAccountByIdentityLocked_newId(list, a) ==
  LET same == {i \in DOMAIN list : sameAccountIdentity(list[i], a)}
  IN IF same = {} THEN Append(list, a)
     ELSE LET i == CHOOSE j \in same : \A k \in same : j <= k
          IN [list EXCEPT ![i] = a]
upsertAccountByIdentityLocked(list, a) ==
  LET same == {i \in DOMAIN list : sameAccountIdentity(list[i], a)}
  IN IF same = {} THEN Append(list, a)
     ELSE LET i == CHOOSE j \in same : \A k \in same : j <= k
          IN [list EXCEPT ![i] = mergeAccountDefaults(a, list[i])]

(* One write for all that was imported. *)
SavesImport(list) ==
  /\ Len(list) <= MaxAccounts
  /\ \/ Saves(list) /\ gone' = gone \ Ids(list)
     \/ FailsUndone(list) /\ UNCHANGED gone
  /\ UNCHANGED <<infoCopy, adminCopy>>

UpsertAccountByIdentity(a) == SavesImport(upsertAccountByIdentityLocked(accounts, a))

(* A batch, here of two. *)
UpsertAccountsByIdentity(a, b) ==
  SavesImport(upsertAccountByIdentityLocked(upsertAccountByIdentityLocked(accounts, a), b))

(* AddAccount, with an id that was just generated. *)
AddAccount(a) ==
  LET list == Append(accounts, a)
  IN /\ a.id \notin Ids(accounts) \cup Ids(accFile) /\ Len(accounts) < MaxAccounts
     /\ Saves(list) \/ FailsKeeping(list)
     /\ gone' = gone \ {a.id}
     /\ UNCHANGED <<infoCopy, adminCopy>>

(* DeleteAccount. *)
DeleteAccountEntry(id) ==
  LET list == RemoveAt(accounts, Index(id))
  IN /\ id \in Ids(accounts)
     /\ \/ Saves(list) /\ gone' = gone \cup {id}
        \/ FailsKeeping(list) /\ UNCHANGED gone
     /\ UNCHANGED <<infoCopy, adminCopy>>

-----------------------------------------------------------------------------
With(id, a) == [accounts EXCEPT ![Index(id)] = a]
Others == UNCHANGED <<infoCopy, adminCopy, gone>>

(* PatchAccountStatus: disableAccount of a request, or RefreshAccountInfo,  *)
(* has found the account suspended or revoked.                              *)
PatchAccountStatus(id, why) ==
  LET list == With(id, [Current(id) EXCEPT !.on = FALSE, !.ban = why])
  IN /\ id \in Ids(accounts)
     /\ Saves(list) \/ FailsUndone(list)
     /\ Others

(* PatchAccountAdmin, on the account as it is now; apiUpdateAccount looked  *)
(* at it earlier.  Switching it on lifts a ban.                             *)
PatchedAdmin_stale(id, on) ==
  [adminCopy EXCEPT !.on = on, !.ban = IF on /\ ~adminCopy.on THEN "none" ELSE @]
PatchedAdmin_keepsBan(id, on) == [Current(id) EXCEPT !.on = on]
PatchedAdmin(id, on) ==
  [Current(id) EXCEPT !.on = on, !.ban = IF on /\ ~Current(id).on THEN "none" ELSE @]

apiUpdateAccount(id) ==
  /\ adminCopy = NoRecord /\ id \in Ids(accounts)
  /\ adminCopy' = Current(id)
  /\ UNCHANGED <<accounts, accFile, infoCopy, gone, regFaults>>

PatchAccountAdmin_readds(on) ==
  /\ adminCopy # NoRecord /\ adminCopy' = NoRecord
  /\ LET list == IF adminCopy.id \in Ids(accounts)
                  THEN With(adminCopy.id, PatchedAdmin(adminCopy.id, on))
                  ELSE Append(accounts, [adminCopy EXCEPT !.on = on])
     IN Saves(list) \/ FailsUndone(list)
  /\ UNCHANGED <<infoCopy, gone>>
PatchAccountAdmin(on) ==
  /\ adminCopy # NoRecord /\ adminCopy' = NoRecord
  /\ IF adminCopy.id \in Ids(accounts)
     THEN LET list == With(adminCopy.id, PatchedAdmin(adminCopy.id, on))
          IN Saves(list) \/ FailsUndone(list)
     ELSE UNCHANGED <<accounts, accFile, regFaults>>
  /\ UNCHANGED <<infoCopy, gone>>

(* SetAccountsEnabled: several accounts, one write. *)
SetAccountsEnabled(ids, on) ==
  LET list == [i \in DOMAIN accounts |->
                 IF accounts[i].id \in ids
                 THEN [accounts[i] EXCEPT !.on = on, !.ban = IF on THEN "none" ELSE @]
                 ELSE accounts[i]]
  IN /\ ids \cap Ids(accounts) # {}
     /\ Saves(list) \/ FailsKeeping(list)
     /\ Others

(* RefreshAccountInfo takes a copy, asks the upstream, and then clears the  *)
(* ban its copy had.                                                        *)
RefreshAccountInfo(id) ==
  /\ infoCopy = NoInfo /\ id \in Ids(accounts)
  /\ infoCopy' = [id |-> id, banned |-> Current(id).ban # "none"]
  /\ UNCHANGED <<accounts, accFile, adminCopy, gone, regFaults>>

ClearAccountBan ==
  /\ infoCopy # NoInfo /\ infoCopy' = NoInfo
  /\ IF infoCopy.banned /\ infoCopy.id \in Ids(accounts)
     THEN LET a == Current(infoCopy.id)
              list == With(infoCopy.id, [a EXCEPT !.on = @ \/ a.ban = "auto", !.ban = "none"])
          IN Saves(list) \/ FailsUndone(list)
     ELSE UNCHANGED <<accounts, accFile, regFaults>>
  /\ UNCHANGED <<adminCopy, gone>>

(* UpdateAccountInfo: the email or the user id that the upstream reports    *)
(* takes the place of an older one.                                         *)
UpdateAccountInfo(id, kept, u) ==
  LET list == With(id, [Current(id) EXCEPT !.idents = kept \cup {u}])
  IN /\ id \in Ids(accounts) /\ ~Current(id).ksk /\ kept \subseteq Current(id).idents
     /\ Saves(list) \/ FailsKeeping(list)
     /\ Others

(* UpdateAccountCredentialsBatch: updates of accounts that are gone are     *)
(* dropped.                                                                 *)
UpdateAccountCredentialsBatch_noUndo(id) ==
  LET list == With(id, [Current(id) EXCEPT !.cred = @ + 1])
  IN /\ id \in Ids(accounts) /\ ~Current(id).ksk /\ Current(id).cred < MaxCred
     /\ Saves(list) \/ FailsKeeping(list)
     /\ Others
UpdateAccountCredentialsBatch(id) ==
  LET list == With(id, [Current(id) EXCEPT !.cred = @ + 1])
  IN /\ id \in Ids(accounts) /\ ~Current(id).ksk /\ Current(id).cred < MaxCred
     /\ Saves(list) \/ FailsUndone(list)
     /\ Others

(* Any other update (counters, overage, region, profile, settings) writes   *)
(* the accounts as they are in memory.                                      *)
UpdateElsewhere ==
  /\ accFile # accounts
  /\ Saves(accounts) /\ Others

(* A restart: memory is what the file says. *)
LoadAccounts ==
  /\ accounts' = accFile /\ infoCopy' = NoInfo /\ adminCopy' = NoRecord
  /\ UNCHANGED <<accFile, gone, regFaults>>

NewAccount(id, ksk, ident) == [NoRecord EXCEPT !.id = id, !.ksk = ksk, !.idents = {ident}, !.on = TRUE]
Imported ==
  {NewAccount(of[1], FALSE, of[2]) : of \in cast.ids \X cast.users}
    \cup {NewAccount(of[1], TRUE, of[2]) : of \in cast.ids \X cast.keys}

StatusNext ==
  \/ \E id \in cast.ids :
       \/ \E why \in Bans : PatchAccountStatus(id, why)
       \/ apiUpdateAccount(id) \/ RefreshAccountInfo(id)
       \/ UpdateAccountCredentialsBatch(id)
  \/ \E ids \in SUBSET cast.ids, on \in BOOLEAN : SetAccountsEnabled(ids, on)
  \/ \E on \in BOOLEAN : PatchAccountAdmin(on)
  \/ ClearAccountBan

RegNext ==
  /\ \/ \E a \in Imported : AddAccount(a) \/ UpsertAccountByIdentity(a)
     \/ \E a, b \in Imported : UpsertAccountsByIdentity(a, b)
     \/ \E id \in cast.ids :
          \/ DeleteAccountEntry(id)
          \/ \E kept \in SUBSET cast.users, u \in cast.users : UpdateAccountInfo(id, kept, u)
     \/ cast.status /\ StatusNext
     \/ UpdateElsewhere \/ LoadAccounts
  /\ UNCHANGED cast

RegSpec == RegInit /\ [][RegNext]_regVars

-----------------------------------------------------------------------------
(* No two accounts share an id, however imports match one account by its id *)
(* and another by its user, alone or twice in a batch, and whatever was     *)
(* lost with a failed write: updates address accounts by id alone.          *)
RegIdsUnique ==
  \A i, j \in DOMAIN accounts : i # j => accounts[i].id # accounts[j].id

(* A banned account is switched off, in memory and in the file, through     *)
(* concurrent bans, edits that started before them, refreshes that work on  *)
(* an older copy, imports and restarts: the pool looks at the switch only.  *)
BannedIsOff ==
  /\ \A i \in DOMAIN accounts : accounts[i].ban # "none" => ~accounts[i].on
  /\ \A i \in DOMAIN accFile : accFile[i].ban # "none" => ~accFile[i].on

(* The credentials in use are the ones in the file: a refresh whose write   *)
(* failed is taken back, and an edit that read the account before a refresh *)
(* does not bring the old credentials back.                                 *)
CredentialsDurable ==
  \A i \in DOMAIN accounts, j \in DOMAIN accFile :
    accounts[i].id = accFile[j].id => accounts[i].cred = accFile[j].cred

(* Credentials of an account are replaced only by newer ones or by an       *)
(* import ("this stale HTTP snapshot cannot replace refreshed tokens",      *)
(* proxy/handler.go:4904): no other step lowers their version.              *)
CredentialsNeverOlder ==
  [][\A i \in DOMAIN accounts, j \in DOMAIN accounts' :
       accounts[i].id = accounts'[j].id
       => accounts'[j].cred >= accounts[i].cred \/ accounts'[j] \in Imported]_regVars

(* An account whose deletion was confirmed does not come back by itself:    *)
(* updates that were on their way to it, other accounts' writes and         *)
(* restarts leave it deleted, until it is added again.                      *)
DeletedStaysGone == gone \cap (Ids(accounts) \cup Ids(accFile)) = {}

(* The accounts as a whole: ids identify them, a ban keeps them off, the    *)
(* file has the credentials in use, and what was deleted stays deleted.     *)
AccountsSafe == RegIdsUnique /\ BannedIsOff /\ CredentialsDurable /\ DeletedStaysGone
=============================================================================
