----------------------------- MODULE Records_proofs -----------------------------
(***************************************************************************)
(* Proofs about what the process keeps, in four parts.                     *)
(* AccountRegistry: the list and its credentials, for any set of accounts, *)
(* users and keys, any length of the list and any number of failed writes. *)
(* AccountStats: the counters, for every set of accounts, requests and     *)
(* reloaders and any number of failed writes and resets.                   *)
(* AccountCooldowns: the maps keep their types and their keys in step, a   *)
(* quota backoff is kept through stragglers and restarts, and a transient  *)
(* cooldown always has its errors.                                         *)
(* LogArchive: the files keep the order of acceptance, and clear, flush    *)
(* and Close answer the truth, for every set of records and every bound.   *)
(***************************************************************************)
EXTENDS AccountRegistry, AccountStats, AccountCooldowns, LogArchive, DataLemmas

(* AccountRegistry. *)
Record == [id : cast.ids, ksk : BOOLEAN, idents : SUBSET (Users \cup Keys),
           cred : Nat, on : BOOLEAN, ban : {"none", "auto", "manual"}]
Sound(a) == a \in Record /\ (a.ban # "none" => ~a.on)
Distinct(list) == \A i, j \in DOMAIN list : i # j => list[i].id # list[j].id
ListInv(list) ==
  /\ list \in Seq(Record)
  /\ \A i \in DOMAIN list : Sound(list[i])
  /\ Distinct(list)

(* What is inductive: AccountsSafe, together with the same of the file,    *)
(* which a restart brings into memory.                                     *)
RegInv ==
  /\ cast \in RegLineups
  /\ ListInv(accounts) /\ ListInv(accFile)
  /\ CredentialsDurable /\ DeletedStaysGone

(* list is the accounts with some of them changed in place. *)
InPlace(list) ==
  /\ ListInv(list) /\ DOMAIN list = DOMAIN accounts
  /\ \A i \in DOMAIN list : list[i].id = accounts[i].id /\ list[i].cred >= accounts[i].cred
SameCredentials(list) == \A i \in DOMAIN list : list[i].cred = accounts[i].cred

NotOlder ==
  \A i \in DOMAIN accounts, j \in DOMAIN accounts' :
    accounts[i].id = accounts'[j].id
    => accounts'[j].cred >= accounts[i].cred \/ accounts'[j] \in Imported

-----------------------------------------------------------------------------
(* An account of the list replaced by another of the same id. *)
LEMMA Replaced ==
  ASSUME NEW list, ListInv(list), NEW i \in DOMAIN list, NEW a, Sound(a), a.id = list[i].id
  PROVE  /\ ListInv([list EXCEPT ![i] = a])
         /\ DOMAIN [list EXCEPT ![i] = a] = DOMAIN list
         /\ \A j \in DOMAIN list : [list EXCEPT ![i] = a][j].id = list[j].id
         /\ \A j \in DOMAIN list : [list EXCEPT ![i] = a][j] = IF j = i THEN a ELSE list[j]
<1> DEFINE new == [list EXCEPT ![i] = a]
<1>1. list \in Seq(Record) /\ a \in Record
  BY DEF ListInv, Sound
<1>2. new \in Seq(Record) /\ DOMAIN new = DOMAIN list
  BY <1>1
<1>3. \A j \in DOMAIN list : new[j] = IF j = i THEN a ELSE list[j]
  BY <1>1
<1>4. \A j \in DOMAIN list : new[j].id = list[j].id
  BY <1>3
<1>5. \A j \in DOMAIN new : Sound(new[j])
  BY <1>2, <1>3 DEF ListInv
<1>6. Distinct(new)
  BY <1>2, <1>4 DEF ListInv, Distinct
<1> QED
  BY <1>2, <1>3, <1>4, <1>5, <1>6 DEF ListInv

(* A new account at the end. *)
LEMMA Appended ==
  ASSUME NEW list, ListInv(list), NEW a, Sound(a), a.id \notin Ids(list)
  PROVE  /\ ListInv(Append(list, a))
         /\ Ids(Append(list, a)) = Ids(list) \cup {a.id}
         /\ DOMAIN Append(list, a) = DOMAIN list \cup {Len(list) + 1}
         /\ \A j \in DOMAIN Append(list, a) :
              Append(list, a)[j] = IF j = Len(list) + 1 THEN a ELSE list[j]
<1> DEFINE new == Append(list, a)
<1>1. list \in Seq(Record) /\ a \in Record
  BY DEF ListInv, Sound
<1>2. new \in Seq(Record) /\ DOMAIN new = 1 .. Len(list) + 1 /\ DOMAIN list = 1 .. Len(list) /\ Len(list) \in Nat
  BY <1>1
<1>3. \A j \in DOMAIN new : new[j] = IF j = Len(list) + 1 THEN a ELSE list[j]
  BY <1>1
<1>4. DOMAIN new = DOMAIN list \cup {Len(list) + 1} /\ Len(list) + 1 \notin DOMAIN list
  BY <1>2
<1>5. \A j \in DOMAIN new : Sound(new[j])
  BY <1>4, <1>3 DEF ListInv
<1>6. Distinct(new)
  BY <1>4, <1>3 DEF ListInv, Distinct, Ids
<1>7. Ids(new) = Ids(list) \cup {a.id}
  <2>1. ASSUME NEW x \in Ids(new) PROVE x \in Ids(list) \cup {a.id}
    BY <1>3, <1>4 DEF Ids
  <2>2. ASSUME NEW x \in Ids(list) PROVE x \in Ids(new)
    BY <1>3, <1>4 DEF Ids
  <2>3. a.id \in Ids(new)
    BY <1>3, <1>4 DEF Ids
  <2> QED
    BY <2>1, <2>2, <2>3
<1> QED
  BY <1>2, <1>3, <1>4, <1>5, <1>6, <1>7 DEF ListInv

(* One account taken out: what is left are accounts of the list. *)
LEMMA Removed ==
  ASSUME NEW list, ListInv(list), NEW i \in DOMAIN list
  PROVE  /\ ListInv(RemoveAt(list, i))
         /\ Ids(RemoveAt(list, i)) \subseteq Ids(list) \ {list[i].id}
         /\ \A j \in DOMAIN RemoveAt(list, i) : \E k \in DOMAIN list : RemoveAt(list, i)[j] = list[k]
<1> DEFINE new == RemoveAt(list, i)
           from(j) == IF j < i THEN j ELSE j + 1
<1>1. list \in Seq(Record) /\ Len(list) \in Nat /\ DOMAIN list = 1 .. Len(list) /\ i \in 1 .. Len(list)
  BY DEF ListInv
<1> DEFINE before == SubSeq(list, 1, i - 1)
           after == SubSeq(list, i + 1, Len(list))
<1>a. before \in Seq(Record) /\ Len(before) = i - 1 /\ \A j \in 1 .. (i - 1) : before[j] = list[j]
  BY <1>1
<1>b. after \in Seq(Record) /\ Len(after) = Len(list) - i /\ \A j \in 1 .. (Len(list) - i) : after[j] = list[j + i]
  BY <1>1
<1>c. new = before \o after
  BY DEF RemoveAt
<1> HIDE DEF before, after, new
<1>2. new \in Seq(Record) /\ DOMAIN new = 1 .. (Len(list) - 1)
  <2>1. new \in Seq(Record) /\ Len(new) = Len(before) + Len(after)
    BY <1>a, <1>b, <1>c, ConcatProperties
  <2>2. Len(new) = Len(list) - 1
    BY <2>1, <1>1, <1>a, <1>b
  <2> QED
    BY <2>1, <2>2
<1>3. \A j \in DOMAIN new : new[j] = list[from(j)]
  <2> SUFFICES ASSUME NEW j \in 1 .. (Len(list) - 1) PROVE new[j] = list[from(j)]
    BY <1>2
  <2>1. CASE j < i
    BY <2>1, <1>1, <1>a, <1>b, <1>c
  <2>2. CASE ~(j < i)
    <3>1. j \in 1 .. Len(before) + Len(after) /\ ~(j <= Len(before))
      BY <2>2, <1>1, <1>a, <1>b
    <3>3. new[j] = after[j - Len(before)]
      <4>1. \A k \in 1 .. Len(before) + Len(after) :
              (before \o after)[k] = IF k <= Len(before) THEN before[k] ELSE after[k - Len(before)]
        BY <1>a, <1>b, ConcatProperties, Zenon
      <4> QED
        BY <3>1, <4>1, <1>c, Zenon
    <3>2. j - (i - 1) \in 1 .. (Len(list) - i) /\ j - (i - 1) + i = j + 1
      BY <2>2, <1>1
    <3> QED
      BY <3>3, <3>2, <2>2, <1>a, <1>b
  <2> QED
    BY <2>1, <2>2
<1>4. \A j \in DOMAIN new : from(j) \in DOMAIN list /\ from(j) # i
  BY <1>1, <1>2
<1>5. \A j, k \in DOMAIN new : j # k => from(j) # from(k)
  BY <1>1, <1>2
<1> HIDE DEF from
<1>6. \A j \in DOMAIN new : Sound(new[j])
  BY <1>3, <1>4 DEF ListInv
<1>7. Distinct(new)
  BY <1>3, <1>4, <1>5 DEF ListInv, Distinct
<1>8. Ids(new) \subseteq Ids(list) \ {list[i].id}
  BY <1>3, <1>4 DEF ListInv, Distinct, Ids
<1>9. \A j \in DOMAIN new : \E k \in DOMAIN list : new[j] = list[k]
  BY <1>3, <1>4
<1> QED
  BY <1>2, <1>6, <1>7, <1>8, <1>9 DEF ListInv, new

(* A set of positions that is not empty has a first. *)
LEMMA FirstExists ==
  ASSUME NEW S, S \subseteq Nat, S # {}
  PROVE  \E j \in S : \A k \in S : j <= k
<1> DEFINE less == {ss \in Nat \X Nat : ss[1] < ss[2]}
<1>1. IsWellFoundedOn(less, Nat)
  BY NatLessThanWellFounded DEF OpToRel
<1>2. PICK j \in S : \A k \in S : ~ (<<k, j>> \in less)
  BY <1>1, WFMin
<1>3. \A k \in S : ~ (k < j)
  BY <1>2
<1> QED
  BY <1>3

(* What an import writes is a sound account, whatever id it is given. *)
LEMMA ImportedSound ==
  ASSUME cast \in RegLineups, NEW a \in Imported
  PROVE  Sound(a)
<1>1. PICK id \in cast.ids, ksk \in BOOLEAN, ident \in cast.users \cup cast.keys : a = NewAccount(id, ksk, ident)
  BY DEF Imported
<1>2. a = [id |-> id, ksk |-> ksk, idents |-> {ident}, cred |-> 0, on |-> TRUE, ban |-> "none"]
  BY <1>1 DEF NewAccount, NoRecord
<1>3. {ident} \subseteq Users \cup Keys
  BY RegistryAssumption
<1>4. a \in Record
  BY <1>2, <1>3 DEF Record
<1> QED
  BY <1>2, <1>4 DEF Sound

(* The merge keeps the id of the account that was there. *)
LEMMA MergedImported ==
  ASSUME cast \in RegLineups, NEW a \in Imported, NEW existing, existing.id \in cast.ids
  PROVE  /\ mergeAccountDefaults(a, existing) \in Imported
         /\ mergeAccountDefaults(a, existing).id = existing.id
<1>1. CASE a \in {NewAccount(of[1], FALSE, of[2]) : of \in cast.ids \X cast.users}
  <2>1. PICK id \in cast.ids, u \in cast.users : a = NewAccount(id, FALSE, u)
    BY <1>1
  <2>2. mergeAccountDefaults(a, existing) = NewAccount(existing.id, FALSE, u)
    BY <2>1 DEF mergeAccountDefaults, NewAccount, NoRecord
  <2>3. NewAccount(existing.id, FALSE, u) \in Imported /\ NewAccount(existing.id, FALSE, u).id = existing.id
    <3>1. <<existing.id, u>> \in cast.ids \X cast.users /\ <<existing.id, u>>[1] = existing.id /\ <<existing.id, u>>[2] = u
      OBVIOUS
    <3> QED
      BY <3>1 DEF Imported, NewAccount, NoRecord
  <2> QED
    BY <2>2, <2>3
<1>2. CASE a \in {NewAccount(of[1], TRUE, of[2]) : of \in cast.ids \X cast.keys}
  <2>1. PICK id \in cast.ids, k \in cast.keys : a = NewAccount(id, TRUE, k)
    BY <1>2
  <2>2. mergeAccountDefaults(a, existing) = NewAccount(existing.id, TRUE, k)
    BY <2>1 DEF mergeAccountDefaults, NewAccount, NoRecord
  <2>3. NewAccount(existing.id, TRUE, k) \in Imported /\ NewAccount(existing.id, TRUE, k).id = existing.id
    <3>1. <<existing.id, k>> \in cast.ids \X cast.keys /\ <<existing.id, k>>[1] = existing.id /\ <<existing.id, k>>[2] = k
      OBVIOUS
    <3> QED
      BY <3>1 DEF Imported, NewAccount, NoRecord
  <2> QED
    BY <2>2, <2>3
<1> QED
  BY <1>1, <1>2 DEF Imported

(* An import changes one place of the list or adds one, and no two accounts *)
(* get the same id: the account replaced keeps its id, and one is added     *)
(* only when none has its id.                                               *)
LEMMA Upserted ==
  ASSUME cast \in RegLineups, NEW list, ListInv(list), NEW a \in Imported
  PROVE  LET new == upsertAccountByIdentityLocked(list, a)
         IN /\ ListInv(new)
            /\ DOMAIN list \subseteq DOMAIN new
            /\ \A j \in DOMAIN new : new[j] \in Imported \/ (j \in DOMAIN list /\ new[j] = list[j])
<1> DEFINE same == {i \in DOMAIN list : sameAccountIdentity(list[i], a)}
           new == upsertAccountByIdentityLocked(list, a)
<1>0. list \in Seq(Record) /\ DOMAIN list = 1 .. Len(list) /\ Len(list) \in Nat
  BY DEF ListInv
<1>1. CASE same = {}
  <2>1. new = Append(list, a)
    BY <1>1 DEF upsertAccountByIdentityLocked
  <2>2. a.id \notin Ids(list)
    BY <1>1 DEF Ids, sameAccountIdentity
  <2>3. Sound(a)
    BY ImportedSound
  <2> QED
    BY <2>1, <2>2, <2>3, Appended
<1>2. CASE same # {}
  <2> DEFINE i == CHOOSE j \in same : \A k \in same : j <= k
             b == mergeAccountDefaults(a, list[i])
  <2>1. new = [list EXCEPT ![i] = b]
    BY <1>2 DEF upsertAccountByIdentityLocked
  <2>2. i \in DOMAIN list
    <3>1. same \subseteq Nat
      BY <1>0
    <3>2. \E j \in same : \A k \in same : j <= k
      BY <1>2, <3>1, FirstExists
    <3> QED
      BY <3>2
  <2> HIDE DEF i
  <2>3. list[i].id \in cast.ids
    BY <2>2 DEF ListInv, Sound, Record
  <2>4. b \in Imported /\ b.id = list[i].id
    BY <2>3, MergedImported
  <2>5. Sound(b)
    BY <2>4, ImportedSound
  <2> HIDE DEF b, new
  <2>6. /\ ListInv([list EXCEPT ![i] = b])
        /\ DOMAIN [list EXCEPT ![i] = b] = DOMAIN list
        /\ \A j \in DOMAIN list : [list EXCEPT ![i] = b][j] = IF j = i THEN b ELSE list[j]
    BY <2>2, <2>4, <2>5, Replaced
  <2> QED
    BY <2>1, <2>4, <2>6 DEF new
<1> QED
  BY <1>1, <1>2

-----------------------------------------------------------------------------
(* The account of an id is found. *)
LEMMA Found ==
  ASSUME ListInv(accounts), NEW id \in Ids(accounts)
  PROVE  /\ Index(id) \in DOMAIN accounts
         /\ Current(id).id = id /\ Sound(Current(id))
         /\ Current(id) = accounts[Index(id)]
<1>1. \E i \in DOMAIN accounts : accounts[i].id = id
  BY DEF Ids
<1>2. Index(id) \in DOMAIN accounts /\ accounts[Index(id)].id = id
  BY <1>1 DEF Index
<1> QED
  BY <1>2 DEF Current, ListInv

(* A sound record of the same id and no older credentials in its place is  *)
(* a change in place.                                                      *)
LEMMA WithInPlace ==
  ASSUME ListInv(accounts), NEW id \in Ids(accounts), NEW a, Sound(a), a.id = id,
         a.cred >= Current(id).cred
  PROVE  InPlace(With(id, a)) /\ (a.cred = Current(id).cred => SameCredentials(With(id, a)))
<1>1. Index(id) \in DOMAIN accounts /\ accounts[Index(id)].id = id /\ Current(id) = accounts[Index(id)]
  BY Found
<1>2. /\ ListInv(With(id, a)) /\ DOMAIN With(id, a) = DOMAIN accounts
      /\ \A j \in DOMAIN accounts : With(id, a)[j].id = accounts[j].id
      /\ \A j \in DOMAIN accounts : With(id, a)[j] = IF j = Index(id) THEN a ELSE accounts[j]
  BY <1>1, Replaced DEF With
<1>3. \A j \in DOMAIN accounts : accounts[j].cred \in Nat
  BY DEF ListInv, Sound, Record
<1>4. \A j \in DOMAIN accounts : With(id, a)[j].cred >= accounts[j].cred
  BY <1>1, <1>2, <1>3
<1> QED
  BY <1>1, <1>2, <1>4 DEF InPlace, SameCredentials

(* The lists a step leaves, moved to the next state. *)
LEMMA Carried ==
  ASSUME cast' = cast, NEW list, ListInv(list)
  PROVE  /\ accounts' = list => ListInv(accounts)'
         /\ accFile' = list => ListInv(accFile)'
BY DEF ListInv, Sound, Record, Distinct

(* Memory and file hold the same list, or those of before: no credentials  *)
(* differ.                                                                 *)
LEMMA BothSaved ==
  ASSUME NEW list, ListInv(list), accounts' = list, accFile' = list
  PROVE  CredentialsDurable'
BY DEF CredentialsDurable, ListInv, Distinct

(* A change in place keeps the invariant when its write succeeds, when it  *)
(* is taken back, and when it is kept in memory but concerns no            *)
(* credentials.                                                            *)
LEMMA EditKept ==
  ASSUME RegInv, cast' = cast, gone' = gone, NEW list, InPlace(list),
         Saves(list) \/ FailsUndone(list) \/ (SameCredentials(list) /\ FailsKeeping(list))
  PROVE  RegInv' /\ NotOlder
<1>0. ListInv(list) /\ ListInv(accounts) /\ ListInv(accFile)
  BY DEF RegInv, InPlace
<1>1. Ids(list) = Ids(accounts)
  BY DEF InPlace, Ids
<1>2. accounts' = list \/ accounts' = accounts
  BY DEF Saves, FailsUndone, FailsKeeping
<1>3. accFile' = list \/ accFile' = accFile
  BY DEF Saves, FailsUndone, FailsKeeping
<1>4. ListInv(accounts)' /\ ListInv(accFile)'
  BY <1>0, <1>2, <1>3, Carried
<1>5. CredentialsDurable'
  <2>1. CASE Saves(list)
    BY <2>1, <1>0, BothSaved DEF Saves
  <2>2. CASE FailsUndone(list)
    BY <2>2 DEF FailsUndone, RegInv, CredentialsDurable
  <2>3. CASE SameCredentials(list) /\ FailsKeeping(list)
    BY <2>3 DEF FailsKeeping, SameCredentials, InPlace, RegInv, CredentialsDurable
  <2> QED
    BY <2>1, <2>2, <2>3
<1>6. DeletedStaysGone'
  BY <1>1, <1>2, <1>3 DEF RegInv, DeletedStaysGone, Ids
<1>7. NotOlder
  <2> SUFFICES ASSUME NEW i \in DOMAIN accounts, NEW j \in DOMAIN accounts',
                      accounts[i].id = accounts'[j].id
               PROVE  accounts'[j].cred >= accounts[i].cred
    BY DEF NotOlder
  <2>1. j \in DOMAIN accounts /\ accounts'[j].id = accounts[j].id
    BY <1>2 DEF InPlace
  <2>2. i = j
    BY <2>1, <1>0 DEF ListInv, Distinct
  <2>3. accounts[i].cred \in Nat
    BY <1>0 DEF ListInv, Sound, Record
  <2> QED
    BY <1>2, <2>2, <2>3 DEF InPlace
<1> QED
  BY <1>4, <1>5, <1>6, <1>7 DEF RegInv

(* A step that changes neither memory nor file nor what is deleted. *)
LEMMA NothingKept ==
  ASSUME RegInv, cast' = cast, gone' = gone, accounts' = accounts, accFile' = accFile
  PROVE  RegInv' /\ NotOlder
<1>0. ListInv(accounts) /\ ListInv(accFile)
  BY DEF RegInv
<1>1. ListInv(accounts)' /\ ListInv(accFile)'
  BY <1>0, Carried
<1>2. CredentialsDurable' /\ DeletedStaysGone'
  BY DEF RegInv, CredentialsDurable, DeletedStaysGone, Ids
<1>3. NotOlder
  BY <1>0 DEF NotOlder, ListInv, Distinct, Sound, Record
<1> QED
  BY <1>1, <1>2, <1>3 DEF RegInv

-----------------------------------------------------------------------------
(* The steps that add, remove or import accounts. *)

LEMMA AddAccountKept ==
  ASSUME RegInv, cast' = cast, NEW a \in Imported, AddAccount(a)
  PROVE  RegInv' /\ NotOlder
<1> DEFINE list == Append(accounts, a)
<1>0. ListInv(accounts) /\ ListInv(accFile) /\ cast \in RegLineups
  BY DEF RegInv
<1>1. Sound(a) /\ a.id \notin Ids(accounts) /\ a.id \notin Ids(accFile)
  BY <1>0, ImportedSound DEF AddAccount
<1>2. /\ ListInv(list) /\ Ids(list) = Ids(accounts) \cup {a.id}
      /\ DOMAIN list = DOMAIN accounts \cup {Len(accounts) + 1}
      /\ \A j \in DOMAIN list : list[j] = IF j = Len(accounts) + 1 THEN a ELSE accounts[j]
  BY <1>0, <1>1, Appended
<1>3. accounts' = list /\ (accFile' = list \/ accFile' = accFile) /\ gone' = gone \ {a.id}
  BY DEF AddAccount, Saves, FailsKeeping
<1> HIDE DEF list
<1>4. ListInv(accounts)' /\ ListInv(accFile)'
  BY <1>0, <1>2, <1>3, Carried
<1>5. CredentialsDurable'
  <2>1. CASE accFile' = list
    BY <2>1, <1>2, <1>3, BothSaved
  <2>2. CASE accFile' = accFile
    <3>1. \A j \in DOMAIN accFile : accFile[j].id # a.id
      BY <1>1 DEF Ids
    <3> QED
      BY <2>2, <3>1, <1>2, <1>3 DEF RegInv, CredentialsDurable
  <2> QED
    BY <2>1, <2>2, <1>3
<1>6. DeletedStaysGone'
  <2>1. Ids(accounts)' = Ids(accounts) \cup {a.id}
    BY <1>2, <1>3 DEF Ids
  <2>2. Ids(accFile)' = Ids(accFile) \/ Ids(accFile)' = Ids(accounts) \cup {a.id}
    BY <1>2, <1>3 DEF Ids
  <2> QED
    BY <2>1, <2>2, <1>3 DEF RegInv, DeletedStaysGone
<1>7. NotOlder
  <2> SUFFICES ASSUME NEW i \in DOMAIN accounts, NEW j \in DOMAIN list, accounts[i].id = list[j].id
               PROVE  list[j].cred >= accounts[i].cred \/ list[j] \in Imported
    BY <1>3 DEF NotOlder
  <2>1. CASE j = Len(accounts) + 1
    BY <1>2, <2>1
  <2>2. CASE j # Len(accounts) + 1
    <3>1. j \in DOMAIN accounts /\ list[j] = accounts[j]
      BY <1>2, <2>2
    <3>2. i = j /\ accounts[i].cred \in Nat
      BY <1>0, <3>1 DEF ListInv, Distinct, Sound, Record
    <3> QED
      BY <3>1, <3>2
  <2> QED
    BY <2>1, <2>2
<1> QED
  BY <1>4, <1>5, <1>6, <1>7, <1>0 DEF RegInv

LEMMA DeleteAccountEntryKept ==
  ASSUME RegInv, cast' = cast, NEW id, DeleteAccountEntry(id)
  PROVE  RegInv' /\ NotOlder
<1> DEFINE list == RemoveAt(accounts, Index(id))
<1>0. ListInv(accounts) /\ ListInv(accFile) /\ cast \in RegLineups /\ id \in Ids(accounts)
  BY DEF RegInv, DeleteAccountEntry
<1>1. Index(id) \in DOMAIN accounts /\ accounts[Index(id)].id = id
  BY <1>0, Found
<1>2. /\ ListInv(list) /\ Ids(list) \subseteq Ids(accounts) \ {id}
      /\ \A j \in DOMAIN list : \E k \in DOMAIN accounts : list[j] = accounts[k]
  BY <1>0, <1>1, Removed
<1>3. /\ accounts' = list
      /\ \/ accFile' = list /\ gone' = gone \cup {id}
         \/ accFile' = accFile /\ gone' = gone
  BY DEF DeleteAccountEntry, Saves, FailsKeeping
<1> HIDE DEF list
<1>4. ListInv(accounts)' /\ ListInv(accFile)'
  BY <1>0, <1>2, <1>3, Carried
<1>5. CredentialsDurable'
  <2>1. CASE accFile' = list
    BY <2>1, <1>2, <1>3, BothSaved
  <2>2. CASE accFile' = accFile
    BY <2>2, <1>2, <1>3 DEF RegInv, CredentialsDurable
  <2> QED
    BY <2>1, <2>2, <1>3
<1>6. DeletedStaysGone'
  <2>1. Ids(accounts)' \subseteq Ids(accounts) \ {id}
    BY <1>2, <1>3 DEF Ids
  <2>2. CASE accFile' = list /\ gone' = gone \cup {id}
    <3>1. Ids(accFile)' \subseteq Ids(accounts) \ {id}
      BY <1>2, <2>2 DEF Ids
    <3> QED
      BY <2>1, <2>2, <3>1 DEF RegInv, DeletedStaysGone
  <2>3. CASE accFile' = accFile /\ gone' = gone
    <3>1. Ids(accFile)' = Ids(accFile)
      BY <2>3 DEF Ids
    <3> QED
      BY <2>1, <2>3, <3>1 DEF RegInv, DeletedStaysGone
  <2> QED
    BY <2>2, <2>3, <1>3
<1>7. NotOlder
  BY <1>2, <1>3, <1>0 DEF NotOlder, ListInv, Distinct, Sound, Record
<1> QED
  BY <1>4, <1>5, <1>6, <1>7, <1>0 DEF RegInv

(* Every account of the list is imported or was there, in the same place. *)
FromImport(list) ==
  /\ ListInv(list)
  /\ \A j \in DOMAIN list : list[j] \in Imported \/ (j \in DOMAIN accounts /\ list[j] = accounts[j])

LEMMA SavesImportKept ==
  ASSUME RegInv, cast' = cast, NEW list, FromImport(list), SavesImport(list)
  PROVE  RegInv' /\ NotOlder
<1>0. ListInv(accounts) /\ ListInv(accFile) /\ cast \in RegLineups /\ ListInv(list)
  BY DEF RegInv, FromImport
<1>1. CASE Saves(list) /\ gone' = gone \ Ids(list)
  <2>1. accounts' = list /\ accFile' = list
    BY <1>1 DEF Saves
  <2>2. ListInv(accounts)' /\ ListInv(accFile)'
    BY <1>0, <2>1, Carried
  <2>3. CredentialsDurable'
    BY <1>0, <2>1, BothSaved
  <2>4. DeletedStaysGone'
    <3>1. Ids(accounts)' = Ids(list) /\ Ids(accFile)' = Ids(list)
      BY <2>1 DEF Ids
    <3> QED
      BY <3>1, <1>1 DEF DeletedStaysGone
  <2>5. NotOlder
    <3>1. \A i, j \in DOMAIN accounts : accounts[i].id = accounts[j].id => i = j
      BY <1>0 DEF ListInv, Distinct
    <3>2. \A i \in DOMAIN accounts : accounts[i].cred \in Nat
      BY <1>0 DEF ListInv, Sound, Record
    <3> QED
      BY <2>1, <3>1, <3>2 DEF NotOlder, FromImport
  <2> QED
    BY <2>2, <2>3, <2>4, <2>5, <1>0 DEF RegInv
<1>2. CASE FailsUndone(list) /\ UNCHANGED gone
  BY <1>2, NothingKept DEF FailsUndone
<1> QED
  BY <1>1, <1>2 DEF SavesImport

LEMMA UpsertAccountByIdentityKept ==
  ASSUME RegInv, cast' = cast, NEW a \in Imported, UpsertAccountByIdentity(a)
  PROVE  RegInv' /\ NotOlder
<1> DEFINE list == upsertAccountByIdentityLocked(accounts, a)
<1>1. cast \in RegLineups /\ ListInv(accounts)
  BY DEF RegInv
<1>2. FromImport(list)
  BY <1>1, Upserted DEF FromImport
<1>3. SavesImport(list)
  BY DEF UpsertAccountByIdentity
<1> QED
  BY <1>2, <1>3, SavesImportKept

LEMMA UpsertAccountsByIdentityKept ==
  ASSUME RegInv, cast' = cast, NEW a \in Imported, NEW b \in Imported, UpsertAccountsByIdentity(a, b)
  PROVE  RegInv' /\ NotOlder
<1> DEFINE first == upsertAccountByIdentityLocked(accounts, a)
           list == upsertAccountByIdentityLocked(first, b)
<1>1. cast \in RegLineups /\ ListInv(accounts)
  BY DEF RegInv
<1>2. FromImport(first)
  BY <1>1, Upserted DEF FromImport
<1>3. SavesImport(list)
  BY DEF UpsertAccountsByIdentity
<1> HIDE DEF first
<1>4. /\ ListInv(list)
      /\ \A j \in DOMAIN list : list[j] \in Imported \/ (j \in DOMAIN first /\ list[j] = first[j])
  BY <1>1, <1>2, Upserted DEF FromImport
<1> HIDE DEF list
<1>5. FromImport(list)
  BY <1>2, <1>4 DEF FromImport
<1> QED
  BY <1>3, <1>5, SavesImportKept

-----------------------------------------------------------------------------
(* The steps that change accounts in place. *)

LEMMA PatchAccountStatusKept ==
  ASSUME RegInv, cast' = cast, NEW id, NEW why \in Bans, PatchAccountStatus(id, why)
  PROVE  RegInv' /\ NotOlder
<1> DEFINE a == [Current(id) EXCEPT !.on = FALSE, !.ban = why]
<1>1. ListInv(accounts) /\ id \in Ids(accounts)
  BY DEF RegInv, PatchAccountStatus
<1>2. Current(id) \in Record /\ Current(id).id = id
  BY <1>1, Found DEF Sound
<1>3. Sound(a) /\ a.id = id /\ a.cred = Current(id).cred /\ a.cred \in Nat
  BY <1>2 DEF Sound, Record, Bans
<1> HIDE DEF a
<1>4. InPlace(With(id, a))
  BY <1>1, <1>3, WithInPlace
<1>5. (Saves(With(id, a)) \/ FailsUndone(With(id, a))) /\ gone' = gone
  BY DEF PatchAccountStatus, Others, a
<1> QED
  BY <1>4, <1>5, EditKept

LEMMA PatchAccountAdminKept ==
  ASSUME RegInv, cast' = cast, NEW on \in BOOLEAN, PatchAccountAdmin(on)
  PROVE  RegInv' /\ NotOlder
<1> DEFINE id == adminCopy.id
<1>1. CASE id \in Ids(accounts)
  <2> DEFINE a == PatchedAdmin(id, on)
  <2>1. ListInv(accounts)
    BY DEF RegInv
  <2>2. Sound(Current(id)) /\ Current(id).id = id
    BY <1>1, <2>1, Found
  <2>3. Sound(a) /\ a.id = id /\ a.cred = Current(id).cred /\ a.cred \in Nat
    BY <2>2 DEF Sound, Record, PatchedAdmin
  <2> HIDE DEF a
  <2>4. InPlace(With(id, a))
    BY <1>1, <2>1, <2>3, WithInPlace
  <2>5. (Saves(With(id, a)) \/ FailsUndone(With(id, a))) /\ gone' = gone
    BY <1>1 DEF PatchAccountAdmin, a
  <2> QED
    BY <2>4, <2>5, EditKept
<1>2. CASE id \notin Ids(accounts)
  BY <1>2, NothingKept DEF PatchAccountAdmin
<1> QED
  BY <1>1, <1>2

LEMMA SetAccountsEnabledKept ==
  ASSUME RegInv, cast' = cast, NEW ids, NEW on \in BOOLEAN, SetAccountsEnabled(ids, on)
  PROVE  RegInv' /\ NotOlder
<1> DEFINE edited(a) == [a EXCEPT !.on = on, !.ban = IF on THEN "none" ELSE @]
           list == [i \in DOMAIN accounts |->
                      IF accounts[i].id \in ids THEN edited(accounts[i]) ELSE accounts[i]]
<1>1. ListInv(accounts) /\ accounts \in Seq(Record) /\ \A i \in DOMAIN accounts : Sound(accounts[i])
  BY DEF RegInv, ListInv
<1>2. ASSUME NEW a, Sound(a) PROVE Sound(edited(a)) /\ edited(a).id = a.id /\ edited(a).cred = a.cred
  BY <1>2 DEF Sound, Record
<1>3. (Saves(list) \/ FailsKeeping(list)) /\ gone' = gone
  BY DEF SetAccountsEnabled, Others
<1> HIDE DEF edited
<1>4. /\ DOMAIN list = DOMAIN accounts
      /\ \A i \in DOMAIN accounts : Sound(list[i]) /\ list[i].id = accounts[i].id /\ list[i].cred = accounts[i].cred
  BY <1>1, <1>2
<1>5. list \in Seq(Record)
  <2>1. DOMAIN accounts = 1 .. Len(accounts) /\ Len(accounts) \in Nat
    BY <1>1
  <2>2. list \in [1 .. Len(accounts) -> Record]
    BY <1>4, <2>1 DEF Sound
  <2> QED
    BY <2>1, <2>2
<1> HIDE DEF list
<1>6. Distinct(list)
  BY <1>1, <1>4 DEF ListInv, Distinct
<1>7. \A i \in DOMAIN accounts : accounts[i].cred \in Nat
  BY <1>1 DEF Sound, Record
<1>8. InPlace(list) /\ SameCredentials(list)
  BY <1>4, <1>5, <1>6, <1>7 DEF InPlace, SameCredentials, ListInv
<1> QED
  BY <1>3, <1>8, EditKept

LEMMA ClearAccountBanKept ==
  ASSUME RegInv, cast' = cast, ClearAccountBan
  PROVE  RegInv' /\ NotOlder
<1> DEFINE id == infoCopy.id
<1>1. CASE infoCopy.banned /\ id \in Ids(accounts)
  <2> DEFINE a == [Current(id) EXCEPT !.on = @ \/ Current(id).ban = "auto", !.ban = "none"]
  <2>1. ListInv(accounts)
    BY DEF RegInv
  <2>2. Sound(Current(id)) /\ Current(id).id = id
    BY <1>1, <2>1, Found
  <2>3. Sound(a) /\ a.id = id /\ a.cred = Current(id).cred /\ a.cred \in Nat
    BY <2>2 DEF Sound, Record
  <2> HIDE DEF a
  <2>4. InPlace(With(id, a))
    BY <1>1, <2>1, <2>3, WithInPlace
  <2>5. (Saves(With(id, a)) \/ FailsUndone(With(id, a))) /\ gone' = gone
    BY <1>1 DEF ClearAccountBan, a
  <2> QED
    BY <2>4, <2>5, EditKept
<1>2. CASE ~(infoCopy.banned /\ id \in Ids(accounts))
  BY <1>2, NothingKept DEF ClearAccountBan
<1> QED
  BY <1>1, <1>2

LEMMA UpdateAccountInfoKept ==
  ASSUME RegInv, cast' = cast, NEW id, NEW kept \in SUBSET cast.users, NEW u \in cast.users,
         UpdateAccountInfo(id, kept, u)
  PROVE  RegInv' /\ NotOlder
<1> DEFINE a == [Current(id) EXCEPT !.idents = kept \cup {u}]
<1>1. ListInv(accounts) /\ id \in Ids(accounts) /\ cast \in RegLineups
  BY DEF RegInv, UpdateAccountInfo
<1>2. Sound(Current(id)) /\ Current(id).id = id
  BY <1>1, Found
<1>3. kept \cup {u} \in SUBSET (Users \cup Keys)
  BY <1>1, RegistryAssumption
<1>4. Sound(a) /\ a.id = id /\ a.cred = Current(id).cred /\ a.cred \in Nat
  BY <1>2, <1>3 DEF Sound, Record
<1> HIDE DEF a
<1>5. InPlace(With(id, a)) /\ SameCredentials(With(id, a))
  BY <1>1, <1>4, WithInPlace
<1>6. (Saves(With(id, a)) \/ FailsKeeping(With(id, a))) /\ gone' = gone
  BY DEF UpdateAccountInfo, Others, a
<1> QED
  BY <1>5, <1>6, EditKept

LEMMA UpdateAccountCredentialsBatchKept ==
  ASSUME RegInv, cast' = cast, NEW id, UpdateAccountCredentialsBatch(id)
  PROVE  RegInv' /\ NotOlder
<1> DEFINE a == [Current(id) EXCEPT !.cred = @ + 1]
<1>1. ListInv(accounts) /\ id \in Ids(accounts)
  BY DEF RegInv, UpdateAccountCredentialsBatch
<1>2. Sound(Current(id)) /\ Current(id).id = id
  BY <1>1, Found
<1>3. Sound(a) /\ a.id = id /\ a.cred >= Current(id).cred
  BY <1>2 DEF Sound, Record
<1> HIDE DEF a
<1>4. InPlace(With(id, a))
  BY <1>1, <1>3, WithInPlace
<1>5. (Saves(With(id, a)) \/ FailsUndone(With(id, a))) /\ gone' = gone
  BY DEF UpdateAccountCredentialsBatch, Others, a
<1> QED
  BY <1>4, <1>5, EditKept

LEMMA UpdateElsewhereKept ==
  ASSUME RegInv, cast' = cast, UpdateElsewhere
  PROVE  RegInv' /\ NotOlder
<1>1. InPlace(accounts)
  BY DEF RegInv, InPlace, ListInv, Sound, Record
<1> QED
  BY <1>1, EditKept DEF UpdateElsewhere, Others

LEMMA LoadAccountsKept ==
  ASSUME RegInv, cast' = cast, LoadAccounts
  PROVE  RegInv' /\ NotOlder
<1>0. ListInv(accFile) /\ ListInv(accounts) /\ accounts' = accFile /\ accFile' = accFile /\ gone' = gone
  BY DEF RegInv, LoadAccounts
<1>1. ListInv(accounts)' /\ ListInv(accFile)'
  BY <1>0, Carried
<1>2. CredentialsDurable'
  BY <1>0, BothSaved
<1>3. DeletedStaysGone'
  BY <1>0 DEF RegInv, DeletedStaysGone, Ids
<1>4. \A j \in DOMAIN accFile : accFile[j].cred \in Nat
  BY <1>0 DEF ListInv, Sound, Record
<1>5. NotOlder
  BY <1>0, <1>4 DEF NotOlder, RegInv, CredentialsDurable
<1> QED
  BY <1>1, <1>2, <1>3, <1>5 DEF RegInv

-----------------------------------------------------------------------------
LEMMA StepKept ==
  ASSUME RegInv, [RegNext]_regVars
  PROVE  RegInv' /\ (regVars' # regVars => NotOlder)
<1>1. CASE regVars' = regVars
  BY <1>1, NothingKept DEF regVars
<1>2. CASE RegNext
  <2>0. cast' = cast
    BY <1>2 DEF RegNext
  <2>1. ASSUME NEW a \in Imported, AddAccount(a) PROVE RegInv' /\ NotOlder
    BY <2>0, <2>1, AddAccountKept
  <2>2. ASSUME NEW a \in Imported, UpsertAccountByIdentity(a) PROVE RegInv' /\ NotOlder
    BY <2>0, <2>2, UpsertAccountByIdentityKept
  <2>3. ASSUME NEW a \in Imported, NEW b \in Imported, UpsertAccountsByIdentity(a, b)
        PROVE  RegInv' /\ NotOlder
    BY <2>0, <2>3, UpsertAccountsByIdentityKept
  <2>4. ASSUME NEW id \in cast.ids, DeleteAccountEntry(id) PROVE RegInv' /\ NotOlder
    BY <2>0, <2>4, DeleteAccountEntryKept
  <2>5. ASSUME NEW id \in cast.ids, NEW kept \in SUBSET cast.users, NEW u \in cast.users,
               UpdateAccountInfo(id, kept, u)
        PROVE  RegInv' /\ NotOlder
    BY <2>0, <2>5, UpdateAccountInfoKept
  <2>6. CASE StatusNext
    <3>1. ASSUME NEW id \in cast.ids, NEW why \in Bans, PatchAccountStatus(id, why)
          PROVE  RegInv' /\ NotOlder
      BY <2>0, <3>1, PatchAccountStatusKept
    <3>2. ASSUME NEW id \in cast.ids, apiUpdateAccount(id) \/ RefreshAccountInfo(id)
          PROVE  RegInv' /\ NotOlder
      BY <2>0, <3>2, NothingKept DEF apiUpdateAccount, RefreshAccountInfo
    <3>3. ASSUME NEW id \in cast.ids, UpdateAccountCredentialsBatch(id)
          PROVE  RegInv' /\ NotOlder
      BY <2>0, <3>3, UpdateAccountCredentialsBatchKept
    <3>4. ASSUME NEW ids \in SUBSET cast.ids, NEW on \in BOOLEAN, SetAccountsEnabled(ids, on)
          PROVE  RegInv' /\ NotOlder
      BY <2>0, <3>4, SetAccountsEnabledKept
    <3>5. ASSUME NEW on \in BOOLEAN, PatchAccountAdmin(on) PROVE RegInv' /\ NotOlder
      BY <2>0, <3>5, PatchAccountAdminKept
    <3>6. CASE ClearAccountBan
      BY <2>0, <3>6, ClearAccountBanKept
    <3> QED
      BY <2>6, <3>1, <3>2, <3>3, <3>4, <3>5, <3>6 DEF StatusNext
  <2>7. CASE UpdateElsewhere
    BY <2>0, <2>7, UpdateElsewhereKept
  <2>8. CASE LoadAccounts
    BY <2>0, <2>8, LoadAccountsKept
  <2> QED
    BY <1>2, <2>1, <2>2, <2>3, <2>4, <2>5, <2>6, <2>7, <2>8 DEF RegNext
<1> QED
  BY <1>1, <1>2

LEMMA RegInit_RegInv == RegInit => RegInv
<1> SUFFICES ASSUME RegInit PROVE RegInv
  OBVIOUS
<1>1. ListInv(accounts) /\ ListInv(accFile)
  BY DEF RegInit, ListInv, Distinct
<1>2. CredentialsDurable /\ DeletedStaysGone
  BY DEF RegInit, CredentialsDurable, DeletedStaysGone
<1> QED
  BY <1>1, <1>2 DEF RegInit, RegInv

(* Accounts keep distinct ids, banned accounts are off, the credentials in *)
(* use are the ones in the file and a confirmed deletion lasts, for any    *)
(* accounts, users, keys and failed writes: what upsertAccountByIdentity-  *)
(* Locked, the Patch functions and the Save of config.go keep.             *)
THEOREM AccountsKept == RegSpec => []AccountsSafe
<1>1. RegInv /\ [RegNext]_regVars => RegInv'
  BY StepKept
<1>2. RegInv => AccountsSafe
  BY DEF RegInv, AccountsSafe, RegIdsUnique, BannedIsOff, ListInv, Sound, Distinct
<1> QED
  BY RegInit_RegInv, <1>1, <1>2, PTL DEF RegSpec

(* No step but an import replaces the credentials of an account by older   *)
(* ones: edits, bans and refreshes write the record as it is now, and a    *)
(* restart finds the credentials that were in use.                         *)
THEOREM CredentialsKept == RegSpec => CredentialsNeverOlder
<1>1. RegInv /\ [RegNext]_regVars => RegInv'
  BY StepKept
<1>2. RegInv /\ [RegNext]_regVars => [NotOlder]_regVars
  BY StepKept
<1>3. RegSpec => [][NotOlder]_regVars
  BY RegInit_RegInv, <1>1, <1>2, PTL DEF RegSpec
<1> QED
  BY <1>3 DEF CredentialsNeverOlder, NotOlder

-----------------------------------------------------------------------------
(* AccountStats. *)
Counts == [StatAccounts -> Nat]
CopyType == [ids : SUBSET StatAccounts, counts : Counts]
FlushPCs == {"idle", "waiting", "copied", "saved", "failed"}

StatsTypeOK ==
  /\ enabledIds \in SUBSET StatAccounts /\ poolIds \in SUBSET StatAccounts
  /\ dirtyStats \in SUBSET StatAccounts
  /\ cfgCount \in Counts /\ poolCount \in Counts /\ recorded \in Counts
  /\ updates \in CopyType /\ fetched \in [StatReloaders -> CopyType]
  /\ statsTimer \in {"nil", "armed", "fired"}
  /\ saveHolder \in Flushers \cup {Nobody}
  /\ statFlushPc \in [Flushers -> FlushPCs]
  /\ reloadPc \in [StatReloaders -> {"idle", "flushing", "fetched"}]
  /\ requestPc \in [StatRequests -> {"idle", "counted"}]

-----------------------------------------------------------------------------
LEMMA CopyTypes ==
  /\ Zero \in Counts /\ NoCopy \in CopyType
  /\ \A ids \in SUBSET StatAccounts, counts \in Counts :
       [ids |-> ids, counts |-> counts] \in CopyType
<1>1. Zero \in Counts
  BY DEF Zero, Counts
<1> QED
  BY <1>1 DEF NoCopy, CopyType

LEMMA FlushersFacts ==
  /\ Timer \in Flushers /\ StatReloaders \subseteq Flushers /\ Nobody \notin Flushers
  /\ \A r \in StatReloaders : r # Timer
BY StatsAssumption DEF Flushers, Timer, Nobody

LEMMA StatsTypeInit == StatsInit => StatsTypeOK
BY CopyTypes DEF StatsInit, StatsTypeOK, FlushPCs

LEMMA StatsTypeNext == StatsTypeOK /\ [StatsNext]_statVars => StatsTypeOK'
<1> SUFFICES ASSUME StatsTypeOK, [StatsNext]_statVars PROVE StatsTypeOK'
  OBVIOUS
<1> USE DEF StatsTypeOK
<1>1. ASSUME NEW q \in StatRequests, NEW a \in StatAccounts, UpdateStats(q, a)
      PROVE  StatsTypeOK'
  <2>1. poolCount' \in Counts /\ recorded' \in Counts
    BY <1>1 DEF UpdateStats, Counts
  <2> QED
    BY <1>1, <2>1 DEF UpdateStats, flushState, reloadState
<1>2. ASSUME NEW q \in StatRequests, scheduleAccountStatsSave(q) PROVE StatsTypeOK'
  BY <1>2 DEF scheduleAccountStatsSave, poolState, reloadState
<1>3. CASE StatsTimerFires
  BY <1>3 DEF StatsTimerFires, poolState, reloadState, FlushPCs
<1>4. ASSUME NEW f \in Flushers, FlushCopy(f) PROVE StatsTypeOK'
  <2>1. updates' \in CopyType
    BY <1>4, CopyTypes DEF FlushCopy
  <2> QED
    BY <1>4, <2>1 DEF FlushCopy, reloadState, FlushPCs
<1>5. ASSUME NEW f \in Flushers, UpdateAccountStatsBatch(f) PROVE StatsTypeOK'
  <2>1. cfgCount' \in Counts
    BY <1>5 DEF UpdateAccountStatsBatch, CopyType, Counts
  <2> QED
    BY <1>5, <2>1 DEF UpdateAccountStatsBatch, poolState, reloadState, FlushPCs
<1>6. ASSUME NEW f \in Flushers, FlushSaved(f) PROVE StatsTypeOK'
  BY <1>6, CopyTypes DEF FlushSaved, poolState, reloadState, FlushPCs
<1>7. ASSUME NEW f \in Flushers, FlushFailed(f) PROVE StatsTypeOK'
  <2>1. updates.ids \subseteq StatAccounts
    BY DEF CopyType
  <2> QED
    BY <1>7, <2>1, CopyTypes DEF FlushFailed, reloadState, FlushPCs
<1>8. ASSUME NEW r \in StatReloaders, Reload(r) PROVE StatsTypeOK'
  BY <1>8, FlushersFacts DEF Reload, poolState, FlushPCs
<1>9. ASSUME NEW r \in StatReloaders, GetEnabledAccounts(r) PROVE StatsTypeOK'
  <2>1. fetched' \in [StatReloaders -> CopyType]
    BY <1>9, CopyTypes DEF GetEnabledAccounts
  <2> QED
    BY <1>9, <2>1 DEF GetEnabledAccounts, poolState, flushState
<1>10. ASSUME NEW r \in StatReloaders, ReloadSwap(r) PROVE StatsTypeOK'
  <2>1. fetched[r] \in CopyType
    OBVIOUS
  <2>2. poolIds' \in SUBSET StatAccounts /\ poolCount' \in Counts
    BY <1>10, <2>1 DEF ReloadSwap, CopyType, Counts
  <2> QED
    BY <1>10, <2>2, CopyTypes DEF ReloadSwap, flushState
<1>11. ASSUME NEW a \in StatAccounts, SetEnabled(a) PROVE StatsTypeOK'
  BY <1>11 DEF SetEnabled, poolState, flushState, reloadState
<1>12. CASE ResetStats
  BY <1>12, CopyTypes DEF ResetStats, reloadState
<1>13. CASE ResetStatistics
  BY <1>13, CopyTypes DEF ResetStatistics, poolState, flushState, reloadState
<1>14. CASE UNCHANGED statVars
  BY <1>14 DEF statVars
<1> QED
  BY <1>1, <1>2, <1>3, <1>4, <1>5, <1>6, <1>7, <1>8, <1>9, <1>10, <1>11, <1>12, <1>13,
     <1>14 DEF StatsNext

-----------------------------------------------------------------------------
(* No copy of the counters, those on the way between the two included,      *)
(* holds more than was recorded.                                            *)
AtMost(counts) == \A a \in StatAccounts : counts[a] <= recorded[a]

CountedInv ==
  /\ AtMost(poolCount) /\ AtMost(cfgCount) /\ AtMost(updates.counts)
  /\ \A r \in StatReloaders : AtMost(fetched[r].counts)

LEMMA CountedInit == StatsInit => CountedInv
BY DEF StatsInit, CountedInv, AtMost, NoCopy, Zero

LEMMA ZeroAtMost == StatsTypeOK => AtMost(Zero) /\ AtMost(NoCopy.counts)
BY DEF StatsTypeOK, AtMost, Zero, NoCopy, Counts

LEMMA CountedNext == StatsTypeOK /\ CountedInv /\ [StatsNext]_statVars => CountedInv'
<1> SUFFICES ASSUME StatsTypeOK, CountedInv, [StatsNext]_statVars PROVE CountedInv'
  OBVIOUS
<1> USE DEF CountedInv
<1>0. AtMost(Zero) /\ AtMost(NoCopy.counts)
  BY ZeroAtMost
<1>1. ASSUME NEW q \in StatRequests, NEW a \in StatAccounts, UpdateStats(q, a)
      PROVE  CountedInv'
  <2>1. \A b \in StatAccounts :
          /\ recorded[b] \in Nat /\ poolCount[b] \in Nat /\ cfgCount[b] \in Nat
          /\ updates.counts[b] \in Nat
          /\ \A r \in StatReloaders : fetched[r].counts[b] \in Nat
    BY DEF StatsTypeOK, CopyType, Counts
  <2>2. \A b \in StatAccounts :
          /\ recorded'[b] = recorded[b] + (IF b = a THEN 1 ELSE 0)
          /\ poolCount'[b] = poolCount[b] + (IF b = a THEN 1 ELSE 0)
    BY <1>1, <2>1 DEF UpdateStats, StatsTypeOK, Counts
  <2>3. UNCHANGED <<cfgCount, updates, fetched>>
    BY <1>1 DEF UpdateStats, flushState, reloadState
  <2> QED
    BY <2>1, <2>2, <2>3 DEF AtMost
<1>2. ASSUME NEW q \in StatRequests, scheduleAccountStatsSave(q) PROVE CountedInv'
  BY <1>2 DEF scheduleAccountStatsSave, poolState, reloadState, AtMost
<1>3. CASE StatsTimerFires
  BY <1>3 DEF StatsTimerFires, poolState, reloadState, AtMost
<1>4. ASSUME NEW f \in Flushers, FlushCopy(f) PROVE CountedInv'
  BY <1>4 DEF FlushCopy, reloadState, AtMost
<1>5. ASSUME NEW f \in Flushers, UpdateAccountStatsBatch(f) PROVE CountedInv'
  BY <1>5 DEF UpdateAccountStatsBatch, poolState, reloadState, AtMost
<1>6. ASSUME NEW f \in Flushers, FlushSaved(f) PROVE CountedInv'
  BY <1>0, <1>6 DEF FlushSaved, poolState, reloadState, AtMost
<1>7. ASSUME NEW f \in Flushers, FlushFailed(f) PROVE CountedInv'
  BY <1>0, <1>7 DEF FlushFailed, reloadState, AtMost
<1>8. ASSUME NEW r \in StatReloaders, Reload(r) PROVE CountedInv'
  BY <1>8 DEF Reload, poolState, AtMost
<1>9. ASSUME NEW r \in StatReloaders, GetEnabledAccounts(r) PROVE CountedInv'
  BY <1>9 DEF GetEnabledAccounts, poolState, flushState, AtMost, StatsTypeOK
<1>10. ASSUME NEW r \in StatReloaders, ReloadSwap(r) PROVE CountedInv'
  <2>1. \A b \in StatAccounts : poolCount'[b] \in {fetched[r].counts[b], 0}
    BY <1>10 DEF ReloadSwap
  <2>2. AtMost(poolCount)'
    BY <1>0, <1>10, <2>1 DEF AtMost, Zero, ReloadSwap
  <2>3. \A k \in StatReloaders : fetched'[k] = fetched[k] \/ fetched'[k] = NoCopy
    BY <1>10 DEF ReloadSwap, StatsTypeOK
  <2> QED
    BY <1>0, <1>10, <2>2, <2>3 DEF ReloadSwap, flushState, AtMost
<1>11. ASSUME NEW a \in StatAccounts, SetEnabled(a) PROVE CountedInv'
  BY <1>11 DEF SetEnabled, poolState, flushState, reloadState, AtMost
<1>12. CASE ResetStats
  BY <1>0, <1>12 DEF ResetStats, reloadState, AtMost
<1>13. CASE ResetStatistics
  BY <1>0, <1>13 DEF ResetStatistics, poolState, flushState, reloadState, AtMost
<1>14. CASE UNCHANGED statVars
  BY <1>14 DEF statVars, AtMost
<1> QED
  BY <1>1, <1>2, <1>3, <1>4, <1>5, <1>6, <1>7, <1>8, <1>9, <1>10, <1>11, <1>12, <1>13,
     <1>14 DEF StatsNext

-----------------------------------------------------------------------------
(* The chain of writes.  A flush past its mutex holds statsSaveMu; while it *)
(* is held no request can arm the timer, so a counter that became dirty     *)
(* meanwhile still has its request; a spent timer has a flush.              *)
InFlush == {"copied", "saved", "failed"}

ChainInv ==
  /\ StatsFlushComes
  /\ \A f \in Flushers : statFlushPc[f] \in InFlush => saveHolder = f
  /\ saveHolder # Nobody /\ dirtyStats # {} => \E q \in StatRequests : requestPc[q] = "counted"
  /\ statsTimer = "fired" => \E f \in Flushers : statFlushPc[f] # "idle"
  /\ \A r \in StatReloaders : reloadPc[r] # "flushing" => statFlushPc[r] = "idle"

LEMMA ChainInit == StatsInit => ChainInv
BY FlushersFacts DEF StatsInit, ChainInv, StatsFlushComes, InFlush

LEMMA ChainNext == StatsTypeOK /\ ChainInv /\ [StatsNext]_statVars => ChainInv'
<1> SUFFICES ASSUME StatsTypeOK, ChainInv, [StatsNext]_statVars PROVE ChainInv'
  OBVIOUS
<1>f. /\ Timer \in Flushers /\ StatReloaders \subseteq Flushers /\ Nobody \notin Flushers
      /\ \A r \in StatReloaders : r # Timer
  BY FlushersFacts
<1>t. /\ statFlushPc \in [Flushers -> FlushPCs]
      /\ requestPc \in [StatRequests -> {"idle", "counted"}]
      /\ reloadPc \in [StatReloaders -> {"idle", "flushing", "fetched"}]
      /\ statsTimer \in {"nil", "armed", "fired"}
  BY DEF StatsTypeOK
<1> USE <1>f, <1>t DEF ChainInv, StatsFlushComes, InFlush
<1>1. ASSUME NEW q \in StatRequests, NEW a \in StatAccounts, UpdateStats(q, a)
      PROVE  ChainInv'
  BY <1>1 DEF UpdateStats, flushState, reloadState
<1>2. ASSUME NEW q \in StatRequests, scheduleAccountStatsSave(q) PROVE ChainInv'
  <2>1. /\ saveHolder' = Nobody /\ saveHolder = Nobody
        /\ UNCHANGED <<dirtyStats, statFlushPc, reloadPc>>
        /\ statsTimer' = IF statsTimer = "nil" THEN "armed" ELSE statsTimer
    BY <1>2 DEF scheduleAccountStatsSave, poolState, reloadState
  <2> QED
    BY <2>1
<1>3. CASE StatsTimerFires
  <2>1. /\ statFlushPc' = [statFlushPc EXCEPT ![Timer] = "waiting"]
        /\ statsTimer' = "fired" /\ UNCHANGED <<saveHolder, requestPc, dirtyStats, reloadPc>>
    BY <1>3 DEF StatsTimerFires, poolState, reloadState
  <2>2. statFlushPc'[Timer] # "idle"
    BY <2>1
  <2> QED
    BY <2>1, <2>2
<1>4. ASSUME NEW f \in Flushers, FlushCopy(f) PROVE ChainInv'
  <2>1. /\ statFlushPc' = [statFlushPc EXCEPT ![f] = "copied"] /\ statFlushPc[f] = "waiting"
        /\ saveHolder = Nobody /\ saveHolder' = f /\ dirtyStats' = {}
        /\ UNCHANGED <<requestPc, reloadPc>>
    BY <1>4 DEF FlushCopy, reloadState
  <2>2. statFlushPc'[f] # "idle"
    BY <2>1
  <2> QED
    BY <2>1, <2>2
<1>5. ASSUME NEW f \in Flushers, UpdateAccountStatsBatch(f) PROVE ChainInv'
  <2>1. PICK to \in {"saved", "failed"} : statFlushPc' = [statFlushPc EXCEPT ![f] = to]
    BY <1>5 DEF UpdateAccountStatsBatch
  <2>2. /\ statFlushPc[f] = "copied"
        /\ UNCHANGED <<statsTimer, saveHolder, dirtyStats, requestPc, reloadPc>>
    BY <1>5 DEF UpdateAccountStatsBatch, poolState, reloadState
  <2>3. statFlushPc'[f] # "idle"
    BY <2>1
  <2> QED
    BY <2>1, <2>2, <2>3
<1>6. ASSUME NEW f \in Flushers, FlushSaved(f) PROVE ChainInv'
  <2>1. /\ statFlushPc[f] = "saved" /\ statFlushPc' = [statFlushPc EXCEPT ![f] = "idle"]
        /\ statsTimer' = "nil" /\ saveHolder' = Nobody
        /\ UNCHANGED <<dirtyStats, requestPc, reloadPc>>
    BY <1>6 DEF FlushSaved, poolState, reloadState
  <2>2. saveHolder = f /\ saveHolder # Nobody
    BY <2>1
  <2>3. \A g \in Flushers : statFlushPc'[g] \notin InFlush
    BY <2>1, <2>2
  <2> QED
    BY <2>1, <2>2, <2>3
<1>7. ASSUME NEW f \in Flushers, FlushFailed(f) PROVE ChainInv'
  <2>1. /\ statFlushPc[f] = "failed" /\ statFlushPc' = [statFlushPc EXCEPT ![f] = "idle"]
        /\ statsTimer' = "armed" /\ saveHolder' = Nobody
        /\ UNCHANGED <<requestPc, reloadPc>>
    BY <1>7 DEF FlushFailed, reloadState
  <2>2. saveHolder = f
    BY <2>1
  <2>3. \A g \in Flushers : statFlushPc'[g] \notin InFlush
    BY <2>1, <2>2
  <2> QED
    BY <2>1, <2>3
<1>8. ASSUME NEW r \in StatReloaders, Reload(r) PROVE ChainInv'
  <2>1. /\ statFlushPc' = [statFlushPc EXCEPT ![r] = "waiting"]
        /\ reloadPc' = [reloadPc EXCEPT ![r] = "flushing"]
        /\ UNCHANGED <<statsTimer, saveHolder, dirtyStats, requestPc>>
    BY <1>8 DEF Reload, poolState
  <2>2. statFlushPc'[r] # "idle"
    BY <2>1
  <2> QED
    BY <2>1, <2>2
<1>9. ASSUME NEW r \in StatReloaders, GetEnabledAccounts(r) PROVE ChainInv'
  BY <1>9 DEF GetEnabledAccounts, poolState, flushState
<1>10. ASSUME NEW r \in StatReloaders, ReloadSwap(r) PROVE ChainInv'
  BY <1>10 DEF ReloadSwap, flushState
<1>11. ASSUME NEW a \in StatAccounts, SetEnabled(a) PROVE ChainInv'
  BY <1>11 DEF SetEnabled, poolState, flushState, reloadState
<1>12. CASE ResetStats
  BY <1>12 DEF ResetStats, reloadState
<1>13. CASE ResetStatistics
  BY <1>13 DEF ResetStatistics, poolState, flushState, reloadState
<1>14. CASE UNCHANGED statVars
  BY <1>14 DEF statVars
<1> QED
  BY <1>1, <1>2, <1>3, <1>4, <1>5, <1>6, <1>7, <1>8, <1>9, <1>10, <1>11, <1>12, <1>13,
     <1>14 DEF StatsNext

-----------------------------------------------------------------------------
(* Where the outcomes of an account without a lost count are: the pool has  *)
(* them all; the configuration does, unless the account is dirty or in the  *)
(* copy being written; and from the copy of a Reload's flush to its swap    *)
(* nothing that the configuration or the Reload takes is older.             *)
Copied == \E f \in Flushers : statFlushPc[f] = "copied"

Exact(a) ==
  /\ a \in poolIds => poolCount[a] = recorded[a]
  /\ a \notin dirtyStats => cfgCount[a] = recorded[a] \/ (Copied /\ a \in updates.ids)
  /\ Copied /\ a \in updates.ids /\ a \notin dirtyStats => updates.counts[a] = recorded[a]

ExactInWindow(r, a) ==
  /\ reloadPc[r] = "fetched" => fetched[r].counts[a] = recorded[a]
  /\ ReloadInWindow(r) =>
       /\ statFlushPc[r] # "copied" => cfgCount[a] = recorded[a]
       /\ Copied /\ a \in updates.ids => updates.counts[a] = recorded[a]
       /\ statFlushPc[r] = "copied" => a \in updates.ids \/ cfgCount[a] = recorded[a]

Located(a) == Exact(a) /\ \A r \in StatReloaders : ExactInWindow(r, a)

NoneLostInv == \A a \in StatAccounts : a \notin atRisk => Located(a)

(* From the first step of a reset on, every account has lost what it had. *)
ResetAtRisk == resetting = "pool" => StatAccounts \subseteq atRisk

LEMMA ResetAtRiskNext == ResetAtRisk /\ [StatsNext]_statVars => ResetAtRisk'
BY DEF ResetAtRisk, StatsNext, statVars, UpdateStats, scheduleAccountStatsSave, StatsTimerFires,
       FlushCopy, UpdateAccountStatsBatch, FlushSaved, FlushFailed, Reload, GetEnabledAccounts,
       ReloadSwap, SetEnabled, ResetStats, ResetStatistics

LEMMA NoneLostInit == StatsInit => NoneLostInv
BY DEF StatsInit, NoneLostInv, Located, Exact, ExactInWindow, Copied, ReloadInWindow, Zero

(* A step that leaves counters, copies and programs alone moves nothing. *)
LEMMA LocatedUnchanged ==
  ASSUME NoneLostInv,
         UNCHANGED <<poolIds, poolCount, dirtyStats, cfgCount, recorded, updates, statFlushPc,
                     reloadPc, fetched, atRisk>>
  PROVE  NoneLostInv'
BY DEF NoneLostInv, Located, Exact, ExactInWindow, Copied, ReloadInWindow

(* One flush at a time is past the mutex. *)
LEMMA OneCopy ==
  ASSUME ChainInv
  PROVE  /\ \A f, g \in Flushers :
              statFlushPc[f] \in InFlush /\ statFlushPc[g] \in InFlush => f = g
         /\ saveHolder = Nobody => ~ Copied /\ \A f \in Flushers : statFlushPc[f] \notin InFlush
BY FlushersFacts DEF ChainInv, InFlush, Copied

LEMMA NoneLostNext ==
  StatsTypeOK /\ ChainInv /\ ResetAtRisk /\ NoneLostInv /\ [StatsNext]_statVars => NoneLostInv'
<1> SUFFICES ASSUME StatsTypeOK, ChainInv, ResetAtRisk, NoneLostInv, [StatsNext]_statVars
             PROVE  NoneLostInv'
  OBVIOUS
<1>f. /\ Timer \in Flushers /\ StatReloaders \subseteq Flushers
      /\ \A r \in StatReloaders : r # Timer
  BY FlushersFacts
<1>t. /\ statFlushPc \in [Flushers -> FlushPCs]
      /\ reloadPc \in [StatReloaders -> {"idle", "flushing", "fetched"}]
  BY DEF StatsTypeOK
<1>1. ASSUME NEW q \in StatRequests, NEW a \in StatAccounts, UpdateStats(q, a)
      PROVE  NoneLostInv'
  <2> SUFFICES ASSUME NEW b \in StatAccounts, b \notin atRisk' PROVE Located(b)'
    BY DEF NoneLostInv
  <2>1. /\ UNCHANGED <<cfgCount, poolIds, updates, statFlushPc, reloadPc, fetched>>
        /\ dirtyStats' = dirtyStats \cup {a} /\ a \in poolIds
        /\ atRisk' = IF \E r \in StatReloaders : ReloadInWindow(r)
                       THEN atRisk \cup {a} ELSE atRisk
    BY <1>1 DEF UpdateStats, flushState, reloadState
  <2>2. /\ recorded'[b] = recorded[b] + (IF b = a THEN 1 ELSE 0)
        /\ poolCount'[b] = poolCount[b] + (IF b = a THEN 1 ELSE 0)
    BY <1>1 DEF UpdateStats, StatsTypeOK, Counts
  <2>3. b \notin atRisk /\ Located(b)
    BY <2>1 DEF NoneLostInv
  <2>4. Exact(b)
    BY <2>3 DEF Located
  <2>5. CASE b # a
    <3>1. recorded'[b] = recorded[b] /\ poolCount'[b] = poolCount[b]
      BY <2>2, <2>5 DEF StatsTypeOK, Counts
    <3>2. Exact(b)'
      BY <2>1, <2>4, <2>5, <3>1 DEF Exact, Copied
    <3> QED
      BY <2>1, <2>3, <3>1, <3>2 DEF Located, ExactInWindow, Copied, ReloadInWindow
  <2>6. CASE b = a
    <3>0. Exact(b)'
      <4>1. poolCount'[b] = recorded'[b] /\ b \in dirtyStats'
        BY <2>1, <2>2, <2>4, <2>6 DEF Exact
      <4> QED
        BY <4>1 DEF Exact
    <3>1. \A r \in StatReloaders : ~ ReloadInWindow(r)
      BY <2>1, <2>6
    <3>2. \A r \in StatReloaders : ~ ReloadInWindow(r)' /\ reloadPc'[r] # "fetched"
      BY <2>1, <3>1 DEF ReloadInWindow
    <3> QED
      BY <3>0, <3>2 DEF Located, ExactInWindow
  <2> QED
    BY <2>5, <2>6
<1>2. ASSUME NEW q \in StatRequests, scheduleAccountStatsSave(q) PROVE NoneLostInv'
  BY <1>2, LocatedUnchanged DEF scheduleAccountStatsSave, poolState, reloadState
<1>3. CASE StatsTimerFires
  <2>1. /\ statFlushPc' = [statFlushPc EXCEPT ![Timer] = "waiting"]
        /\ UNCHANGED <<poolIds, poolCount, dirtyStats, cfgCount, recorded, updates, reloadPc,
                       fetched, atRisk>>
        /\ statFlushPc[Timer] = "idle"
    BY <1>3 DEF StatsTimerFires, poolState, reloadState
  <2>2. Copied' = Copied /\ \A r \in StatReloaders : statFlushPc'[r] = statFlushPc[r]
    BY <1>f, <1>t, <2>1 DEF Copied
  <2> QED
    BY <2>1, <2>2 DEF NoneLostInv, Located, Exact, ExactInWindow, ReloadInWindow
<1>4. ASSUME NEW f \in Flushers, FlushCopy(f) PROVE NoneLostInv'
  <2> SUFFICES ASSUME NEW b \in StatAccounts, b \notin atRisk' PROVE Located(b)'
    BY DEF NoneLostInv
  <2>1. /\ UNCHANGED <<cfgCount, poolIds, poolCount, recorded, reloadPc, fetched>>
        /\ updates' = [ids |-> dirtyStats, counts |-> poolCount] /\ dirtyStats' = {}
        /\ statFlushPc' = [statFlushPc EXCEPT ![f] = "copied"] /\ statFlushPc[f] = "waiting"
        /\ saveHolder = Nobody
        /\ atRisk' = atRisk \cup (dirtyStats \ poolIds)
    BY <1>4 DEF FlushCopy, reloadState
  <2>2. b \notin atRisk /\ Located(b) /\ (b \in dirtyStats => b \in poolIds)
    BY <2>1 DEF NoneLostInv
  <2>3. ~ Copied /\ Copied' /\ \A g \in Flushers : g # f => statFlushPc'[g] = statFlushPc[g]
    BY <1>t, <2>1, OneCopy DEF Copied
  <2>4. /\ b \in poolIds => poolCount[b] = recorded[b]
        /\ b \notin dirtyStats => cfgCount[b] = recorded[b]
    BY <2>2, <2>3 DEF Located, Exact
  <2>5. updates'.ids = dirtyStats /\ updates'.counts = poolCount
    BY <2>1
  <2>6. b \in updates'.ids => updates'.counts[b] = recorded[b]
    BY <2>2, <2>4, <2>5
  <2>7. Exact(b)'
    BY <2>1, <2>3, <2>4, <2>5, <2>6 DEF Exact
  <2>8. ASSUME NEW r \in StatReloaders PROVE ExactInWindow(r, b)'
    <3>1. ExactInWindow(r, b)
      BY <2>2 DEF Located
    <3>2. statFlushPc'[r] = IF r = f THEN "copied" ELSE statFlushPc[r]
      BY <1>f, <1>t, <2>1
    <3>3. CASE r = f
      <4>1. reloadPc'[r] # "fetched"
        BY <2>1, <3>3 DEF ChainInv
      <4> QED
        BY <2>1, <2>3, <2>4, <2>5, <2>6, <3>2, <3>3, <4>1 DEF ExactInWindow
    <3>4. CASE r # f
      <4>1. statFlushPc[r] # "copied"
        BY <1>f, <2>3 DEF Copied
      <4> QED
        BY <2>1, <2>6, <3>1, <3>2, <3>4, <4>1 DEF ExactInWindow, ReloadInWindow
    <3> QED
      BY <3>3, <3>4
  <2> QED
    BY <2>7, <2>8 DEF Located
<1>5. ASSUME NEW f \in Flushers, UpdateAccountStatsBatch(f) PROVE NoneLostInv'
  <2> SUFFICES ASSUME NEW b \in StatAccounts, b \notin atRisk' PROVE Located(b)'
    BY DEF NoneLostInv
  <2>1. PICK to \in {"saved", "failed"} : statFlushPc' = [statFlushPc EXCEPT ![f] = to]
    BY <1>5 DEF UpdateAccountStatsBatch
  <2>2. /\ statFlushPc[f] = "copied"
        /\ UNCHANGED <<poolIds, poolCount, dirtyStats, recorded, updates, reloadPc, fetched, atRisk>>
        /\ cfgCount'[b] = IF b \in updates.ids THEN updates.counts[b] ELSE cfgCount[b]
    BY <1>5 DEF UpdateAccountStatsBatch, poolState, reloadState
  <2>3. Located(b)
    BY <2>2 DEF NoneLostInv
  <2>4. Copied
    BY <2>2 DEF Copied
  <2>5. ~ Copied'
    BY <1>t, <2>1, <2>2, OneCopy DEF Copied, InFlush
  <2>6. Exact(b)'
    BY <2>2, <2>3, <2>4, <2>5 DEF Located, Exact
  <2>7. ASSUME NEW r \in StatReloaders PROVE ExactInWindow(r, b)'
    <3>1. ExactInWindow(r, b)
      BY <2>3 DEF Located
    <3>2. statFlushPc'[r] = IF r = f THEN to ELSE statFlushPc[r]
      BY <1>f, <1>t, <2>1
    <3>3. ReloadInWindow(r)' <=> ReloadInWindow(r)
      BY <2>2, <3>2 DEF ReloadInWindow
    <3>4. ReloadInWindow(r) => cfgCount'[b] = recorded[b]
      BY <2>2, <2>4, <3>1 DEF ExactInWindow
    <3>5. statFlushPc'[r] # "copied"
      BY <1>f, <2>5 DEF Copied
    <3> QED
      BY <2>2, <2>5, <3>1, <3>3, <3>4, <3>5 DEF ExactInWindow
  <2> QED
    BY <2>6, <2>7 DEF Located
<1>6. ASSUME NEW f \in Flushers, FlushSaved(f) \/ FlushFailed(f) PROVE NoneLostInv'
  <2> SUFFICES ASSUME NEW b \in StatAccounts, b \notin atRisk' PROVE Located(b)'
    BY DEF NoneLostInv
  <2>1. /\ statFlushPc[f] \in {"saved", "failed"}
        /\ statFlushPc' = [statFlushPc EXCEPT ![f] = "idle"]
        /\ UNCHANGED <<poolIds, poolCount, cfgCount, recorded, reloadPc, fetched, atRisk>>
        /\ dirtyStats \subseteq dirtyStats'
    BY <1>6 DEF FlushSaved, FlushFailed, poolState, reloadState
  <2>2. Located(b)
    BY <2>1 DEF NoneLostInv
  <2>3. ~ Copied /\ ~ Copied'
    BY <1>t, <2>1, OneCopy DEF Copied, InFlush
  <2>4. Exact(b)'
    BY <2>1, <2>2, <2>3 DEF Located, Exact
  <2>5. ASSUME NEW r \in StatReloaders PROVE ExactInWindow(r, b)'
    <3>1. ExactInWindow(r, b)
      BY <2>2 DEF Located
    <3>2. statFlushPc'[r] = IF r = f THEN "idle" ELSE statFlushPc[r]
      BY <1>f, <1>t, <2>1
    <3>3. ReloadInWindow(r)' => ReloadInWindow(r) /\ statFlushPc[r] # "copied"
      BY <1>f, <2>1, <2>3, <3>2 DEF ReloadInWindow, Copied
    <3> QED
      BY <1>f, <2>1, <2>3, <3>1, <3>3, <3>2 DEF ExactInWindow
  <2> QED
    BY <2>4, <2>5 DEF Located
<1>8. ASSUME NEW r \in StatReloaders, Reload(r) PROVE NoneLostInv'
  <2>1. /\ statFlushPc' = [statFlushPc EXCEPT ![r] = "waiting"]
        /\ reloadPc' = [reloadPc EXCEPT ![r] = "flushing"] /\ reloadPc[r] = "idle"
        /\ UNCHANGED <<poolIds, poolCount, dirtyStats, cfgCount, recorded, updates, fetched, atRisk>>
    BY <1>8 DEF Reload, poolState
  <2>2. statFlushPc[r] = "idle"
    BY <2>1 DEF ChainInv
  <2>3. Copied' = Copied
    BY <1>f, <1>t, <2>1, <2>2 DEF Copied
  <2>4. ~ ReloadInWindow(r)' /\ reloadPc'[r] # "fetched"
    BY <1>f, <1>t, <2>1 DEF ReloadInWindow
  <2>5. \A k \in StatReloaders :
          k # r => statFlushPc'[k] = statFlushPc[k] /\ reloadPc'[k] = reloadPc[k]
    BY <1>f, <1>t, <2>1
  <2> SUFFICES ASSUME NEW b \in StatAccounts, b \notin atRisk' PROVE Located(b)'
    BY DEF NoneLostInv
  <2>6. Located(b)
    BY <2>1 DEF NoneLostInv
  <2>7. Exact(b)'
    BY <2>1, <2>3, <2>6 DEF Located, Exact
  <2>8. ASSUME NEW k \in StatReloaders PROVE ExactInWindow(k, b)'
    <3>1. CASE k = r
      BY <2>4, <3>1 DEF ExactInWindow
    <3>2. CASE k # r
      BY <2>1, <2>3, <2>5, <2>6, <3>2 DEF Located, ExactInWindow, ReloadInWindow
    <3> QED
      BY <3>1, <3>2
  <2> QED
    BY <2>7, <2>8 DEF Located
<1>9. ASSUME NEW r \in StatReloaders, GetEnabledAccounts(r) PROVE NoneLostInv'
  <2>1. /\ reloadPc[r] = "flushing" /\ statFlushPc[r] = "idle"
        /\ fetched'[r] = [ids |-> enabledIds, counts |-> cfgCount]
        /\ reloadPc' = [reloadPc EXCEPT ![r] = "fetched"]
        /\ UNCHANGED <<poolIds, poolCount, dirtyStats, cfgCount, recorded, updates, statFlushPc, atRisk>>
        /\ \A k \in StatReloaders : k # r => fetched'[k] = fetched[k]
    BY <1>9 DEF GetEnabledAccounts, poolState, flushState, StatsTypeOK
  <2> SUFFICES ASSUME NEW b \in StatAccounts, b \notin atRisk' PROVE Located(b)'
    BY DEF NoneLostInv
  <2>2. Located(b)
    BY <2>1 DEF NoneLostInv
  <2>3. Exact(b)'
    BY <2>1, <2>2 DEF Located, Exact, Copied
  <2>4. ASSUME NEW k \in StatReloaders PROVE ExactInWindow(k, b)'
    <3>0. ExactInWindow(k, b)
      BY <2>2 DEF Located
    <3>1. CASE k = r
      <4>1. ReloadInWindow(r)
        BY <2>1 DEF ReloadInWindow
      <4>2. cfgCount[b] = recorded[b] /\ (Copied /\ b \in updates.ids => updates.counts[b] = recorded[b])
        BY <2>1, <3>0, <3>1, <4>1 DEF ExactInWindow
      <4>3. fetched'[r].counts[b] = recorded[b]
        BY <2>1, <4>2
      <4> QED
        BY <2>1, <3>1, <4>2, <4>3 DEF ExactInWindow, Copied
    <3>2. CASE k # r
      <4>1. reloadPc'[k] = reloadPc[k] /\ fetched'[k] = fetched[k]
        BY <1>t, <2>1, <3>2
      <4> QED
        BY <2>1, <3>0, <4>1 DEF ExactInWindow, ReloadInWindow, Copied
    <3> QED
      BY <3>1, <3>2
  <2> QED
    BY <2>3, <2>4 DEF Located
<1>10. ASSUME NEW r \in StatReloaders, ReloadSwap(r) PROVE NoneLostInv'
  <2>1. /\ reloadPc[r] = "fetched" /\ reloadPc' = [reloadPc EXCEPT ![r] = "idle"]
        /\ poolIds' = fetched[r].ids
        /\ \A b \in StatAccounts :
             poolCount'[b] = IF b \in fetched[r].ids THEN fetched[r].counts[b] ELSE 0
        /\ UNCHANGED <<dirtyStats, cfgCount, recorded, updates, statFlushPc, atRisk>>
        /\ \A k \in StatReloaders : k # r => fetched'[k] = fetched[k]
    BY <1>10 DEF ReloadSwap, flushState, StatsTypeOK
  <2> SUFFICES ASSUME NEW b \in StatAccounts, b \notin atRisk' PROVE Located(b)'
    BY DEF NoneLostInv
  <2>2. Located(b)
    BY <2>1 DEF NoneLostInv
  <2>3. fetched[r].counts[b] = recorded[b]
    BY <2>1, <2>2 DEF Located, ExactInWindow
  <2>4. Exact(b)'
    BY <2>1, <2>2, <2>3 DEF Located, Exact, Copied
  <2>5. ASSUME NEW k \in StatReloaders PROVE ExactInWindow(k, b)'
    <3>0. ExactInWindow(k, b)
      BY <2>2 DEF Located
    <3>1. CASE k = r
      <4>1. reloadPc'[r] = "idle"
        BY <1>t, <2>1
      <4> QED
        BY <3>1, <4>1 DEF ExactInWindow, ReloadInWindow
    <3>2. CASE k # r
      <4>1. reloadPc'[k] = reloadPc[k] /\ fetched'[k] = fetched[k]
        BY <1>t, <2>1, <3>2
      <4> QED
        BY <2>1, <3>0, <4>1 DEF ExactInWindow, ReloadInWindow, Copied
    <3> QED
      BY <3>1, <3>2
  <2> QED
    BY <2>4, <2>5 DEF Located
<1>11. ASSUME NEW a \in StatAccounts, SetEnabled(a) PROVE NoneLostInv'
  BY <1>11, LocatedUnchanged DEF SetEnabled, poolState, flushState, reloadState
<1>12. CASE ResetStats
  BY <1>12 DEF ResetStats, NoneLostInv
<1>13. CASE ResetStatistics
  BY <1>13 DEF ResetStatistics, ResetAtRisk, NoneLostInv
<1>14. CASE UNCHANGED statVars
  BY <1>14, LocatedUnchanged DEF statVars
<1> QED
  BY <1>1, <1>2, <1>3, <1>4, <1>5, <1>6, <1>8, <1>9, <1>10, <1>11, <1>12, <1>13,
     <1>14 DEF StatsNext

(* No outcome is counted twice, whatever copies of the counters Reload, the *)
(* flushes and the resets carry between the pool and the configuration; a   *)
(* dirty counter has a write coming; and an account that met none of the    *)
(* races of NoneLost has all its outcomes in the pool, and in the           *)
(* configuration, its dirty mark or the copy being written.                 *)
THEOREM CountersKept == StatsSpec => []CountersSafe
<1>1. CountedInv /\ ChainInv /\ NoneLostInv => CountersSafe
  <2>1. NoneLostInv => NoneLost
    BY DEF NoneLostInv, NoneLost, Located, Exact, Copied
  <2> QED
    BY <2>1 DEF CountedInv, AtMost, ChainInv, CountersSafe, CountedOnce
<1>2. StatsInit => ResetAtRisk
  BY DEF StatsInit, ResetAtRisk
<1> QED
  BY <1>1, <1>2, StatsTypeInit, StatsTypeNext, CountedInit, CountedNext, ChainInit, ChainNext,
     ResetAtRiskNext, NoneLostInit, NoneLostNext, PTL
  DEF StatsSpec

-----------------------------------------------------------------------------
(* AccountCooldowns. *)
(* Every entry with a running cooldown has a kind, in the file and in the
   copy being written; TypeOK alone does not survive a restart.            *)
EntryInv ==
  /\ \A a \in Accounts : file[a].cooldown > 0 => file[a].kind # "none"
  /\ image # NoImage => \A a \in Accounts : image[a].cooldown > 0 => image[a].kind # "none"

(* stateSaveTimer refers to a timer that will still run, and the bound on
   savers counts the timers that are going to become savers.               *)
TimerInv ==
  /\ timers + savers <= MaxSavers
  /\ saveTimer => timers > 0

(* A process that does not run writes nothing. *)
DownInv == ~ alive => image = NoImage

(* While the process is down the file keeps what is owed. *)
OwedInFile ==
  ~ alive => \A a \in Accounts :
    promised[a] > Transient => file[a].cooldown = promised[a] /\ file[a].kind = "quota"

(* The copy being written is as consistent as the maps and the file. *)
ImageExplained ==
  image # NoImage =>
    \A a \in Accounts : image[a].kind = "transient" => image[a].errors = ErrorLimit

TypeInv == TypeOK /\ EntryInv /\ TimerInv /\ DownInv

QuotaInv == QuotaHeld /\ OwedInFile

TransientInv == TransientExplained /\ ImageExplained

-----------------------------------------------------------------------------
(* Running keeps entries entries, and a running cooldown its kind. *)
LEMMA RunningEntry ==
  ASSUME NEW e \in Entry, e.cooldown > 0 => e.kind # "none"
  PROVE  /\ Running(e) \in Entry
         /\ Running(e).cooldown = NoTime <=> Running(e).kind = "none"
         /\ Running(e).cooldown > 0 => Running(e).kind # "none"
  BY DEF Running, Entry, NoTime, Kinds

LEMMA SoonerDeadline ==
  ASSUME NEW d \in Int
  PROVE  /\ Sooner(d) \in Int
         /\ Sooner(d) = NoTime <=> d = NoTime
         /\ Sooner(d) > 0 => d > 0 /\ Sooner(d) = d - 1
         /\ d \in Nat => Sooner(d) \in Nat
  BY DEF Sooner, NoTime

LEMMA SoonerOfEntry ==
  ASSUME NEW e \in Entry
  PROVE  /\ SoonerEntry(e) \in Entry
         /\ SoonerEntry(e).kind = e.kind
         /\ SoonerEntry(e).errors = e.errors
         /\ SoonerEntry(e).cooldown = Sooner(e.cooldown)
         /\ SoonerEntry(e).cooldown > 0 => e.cooldown > 0
  <1>1. e.cooldown \in Int /\ e.refresh \in Int
    BY DEF Entry
  <1>2. Sooner(e.cooldown) \in Int /\ Sooner(e.refresh) \in Int
        /\ (Sooner(e.cooldown) > 0 => e.cooldown > 0)
    BY <1>1, SoonerDeadline
  <1> QED BY <1>2 DEF SoonerEntry, Entry

(* What saveRuntimeStateTo copies is an entry whose running cooldown has a kind. *)
LEMMA SnapshotEntry ==
  ASSUME TypeOK, NEW a \in Accounts
  PROVE  /\ Snapshot(a) \in Entry
         /\ Snapshot(a).cooldown > 0 => Snapshot(a).kind # "none"
  <1>1. InMemory(a) \in Entry /\ (InMemory(a).cooldown > 0 => InMemory(a).kind # "none")
    BY DEF TypeOK, InMemory, Entry, NoTime
  <1>2. CASE errorCounts[a] # Absent
    BY <1>1, <1>2, RunningEntry DEF Snapshot
  <1>3. CASE errorCounts[a] = Absent
    BY <1>3 DEF Snapshot, NoEntry, Entry, TypeOK, NoTime, Absent, ErrorLimit, Kinds
  <1> QED BY <1>2, <1>3

-----------------------------------------------------------------------------
(* The two helpers keep the keys of cooldowns and cooldownKinds in step. *)
LEMMA SetKeepsTypes ==
  ASSUME TypeOK, NEW a \in Accounts, NEW until \in Nat, NEW kind \in Kinds \ {"none"},
         setCooldownLocked(a, until, kind)
  PROVE  /\ cooldowns' \in [Accounts -> Int]
         /\ cooldownKinds' \in [Accounts -> Kinds]
         /\ \A b \in Accounts : cooldowns'[b] = NoTime <=> cooldownKinds'[b] = "none"
  <1>1. CASE Sets(a, until)
    BY <1>1 DEF setCooldownLocked, TypeOK, NoTime
  <1>2. CASE ~ Sets(a, until)
    BY <1>2 DEF setCooldownLocked, TypeOK
  <1> QED BY <1>1, <1>2

LEMMA ClearKeepsTypes ==
  ASSUME TypeOK, NEW a \in Accounts, clearTransientCooldownLocked(a)
  PROVE  /\ cooldowns' \in [Accounts -> Int]
         /\ cooldownKinds' \in [Accounts -> Kinds]
         /\ \A b \in Accounts : cooldowns'[b] = NoTime <=> cooldownKinds'[b] = "none"
  <1>1. CASE ClearedBySuccess(a)
    BY <1>1 DEF clearTransientCooldownLocked, TypeOK, NoTime, Kinds
  <1>2. CASE ~ ClearedBySuccess(a)
    BY <1>2 DEF clearTransientCooldownLocked, TypeOK
  <1> QED BY <1>1, <1>2

LEMMA CountType ==
  ASSUME NEW n \in Absent .. ErrorLimit
  PROVE  OneMore(n) \in Absent .. ErrorLimit
  BY DEF OneMore, Absent, ErrorLimit

LEMMA TypeNext == TypeInv /\ [Next]_vars => TypeInv'
  <1> SUFFICES ASSUME TypeInv, [Next]_vars PROVE TypeInv'
    OBVIOUS
  <1> USE DEF TypeInv
  <1>a. Transient \in Nat /\ Quota \in Nat /\ RefreshFor \in Nat /\ MaxSavers \in Nat
    BY CooldownAssumption
  <1>k. {"quota", "transient"} \subseteq Kinds \ {"none"}
    BY DEF Kinds
  <1>c. ASSUME NEW w \in Workers, Changes(w)
        PROVE  /\ EntryInv'
               /\ TimerInv'
               /\ alive' \in BOOLEAN /\ saveTimer' \in BOOLEAN /\ saveFailed' \in BOOLEAN
               /\ file' \in [Accounts -> Entry]
               /\ image' = NoImage \/ image' \in [Accounts -> Entry]
               /\ timers' \in 0 .. MaxSavers /\ savers' \in 0 .. MaxSavers
               /\ pc' \in [Workers -> {"idle", "changed"}]
    BY <1>c DEF Changes, EntryInv, TimerInv, TypeOK, saving
  <1>e. ASSUME NEW a \in Accounts
        PROVE  [errorCounts EXCEPT ![a] = OneMore(@)] \in [Accounts -> Absent .. ErrorLimit]
    BY CountType DEF TypeOK
  <1>d. DownInv'
    BY DEF Next, DownInv, vars, saving, RecordSuccess, RecordQuotaError, RecordError,
           SetRefreshFailureCooldown, ClearRefreshFailureCooldown, ClearAccountCooldowns,
           Changes, scheduleRuntimeStateSave, TimerFires, FlushRuntimeState, BeginSave,
           SaveWritten, SaveFails, MutexFree, Crash, Restart, Tick
  <1> SUFFICES (TypeOK /\ EntryInv /\ TimerInv)'
    BY <1>d
  <1>1. ASSUME NEW w \in Workers, NEW a \in Accounts, RecordSuccess(w, a) PROVE (TypeOK /\ EntryInv /\ TimerInv)'
    <2>1. errorCounts' \in [Accounts -> Absent .. ErrorLimit]
      BY <1>1 DEF RecordSuccess, TypeOK, Absent, ErrorLimit
    <2>2. refreshFailures' \in [Accounts -> Int] /\ promised' \in [Accounts -> Nat]
      BY <1>1 DEF RecordSuccess, TypeOK
    <2> QED
      BY <1>1, <1>c, <2>1, <2>2, ClearKeepsTypes DEF RecordSuccess, TypeOK
  <1>2. ASSUME NEW w \in Workers, NEW a \in Accounts, RecordQuotaError(w, a) PROVE (TypeOK /\ EntryInv /\ TimerInv)'
    <2>1. errorCounts' \in [Accounts -> Absent .. ErrorLimit]
      BY <1>2, <1>e DEF RecordQuotaError
    <2>2. refreshFailures' \in [Accounts -> Int] /\ promised' \in [Accounts -> Nat]
      BY <1>2, <1>a DEF RecordQuotaError, TypeOK
    <2> QED
      BY <1>2, <1>a, <1>k, <1>c, <2>1, <2>2, SetKeepsTypes DEF RecordQuotaError, TypeOK
  <1>3. ASSUME NEW w \in Workers, NEW a \in Accounts, RecordError(w, a) PROVE (TypeOK /\ EntryInv /\ TimerInv)'
    <2>1. errorCounts' \in [Accounts -> Absent .. ErrorLimit]
      BY <1>3, <1>e DEF RecordError
    <2>2. refreshFailures' \in [Accounts -> Int] /\ promised' \in [Accounts -> Nat]
      BY <1>3 DEF RecordError, TypeOK
    <2>3. CASE setCooldownLocked(a, Transient, "transient")
      BY <1>3, <1>a, <1>k, <1>c, <2>1, <2>2, <2>3, SetKeepsTypes DEF RecordError, TypeOK
    <2>4. CASE UNCHANGED <<cooldowns, cooldownKinds>>
      BY <1>3, <1>c, <2>1, <2>2, <2>4 DEF RecordError, TypeOK
    <2> QED BY <1>3, <2>3, <2>4 DEF RecordError
  <1>4. ASSUME NEW w \in Workers, NEW a \in Accounts, SetRefreshFailureCooldown(w, a)
        PROVE (TypeOK /\ EntryInv /\ TimerInv)'
    BY <1>4, <1>a, <1>c DEF SetRefreshFailureCooldown, TypeOK
  <1>5. ASSUME NEW w \in Workers, NEW a \in Accounts, ClearRefreshFailureCooldown(w, a)
        PROVE (TypeOK /\ EntryInv /\ TimerInv)'
    BY <1>5, <1>c DEF ClearRefreshFailureCooldown, TypeOK, NoTime
  <1>6. ASSUME NEW w \in Workers, NEW ids \in SUBSET Accounts, ClearAccountCooldowns(w, ids)
        PROVE (TypeOK /\ EntryInv /\ TimerInv)'
    BY <1>6, <1>c DEF ClearAccountCooldowns, TypeOK, NoTime, Absent, ErrorLimit, Kinds
  <1>7. ASSUME NEW w \in Workers, scheduleRuntimeStateSave(w) PROVE (TypeOK /\ EntryInv /\ TimerInv)'
    <2>1. \/ timers' = timers /\ timers > 0
          \/ timers' = timers + 1 /\ timers + savers < MaxSavers
      BY <1>7, Zenon DEF scheduleRuntimeStateSave, TimerInv
    <2>2. savers' = savers
      BY <1>7 DEF scheduleRuntimeStateSave
    <2>3. timers' \in 0 .. MaxSavers /\ TimerInv'
      BY <1>a, <2>1, <2>2 DEF TypeOK, TimerInv
    <2>4. saveTimer' \in BOOLEAN
      BY <1>7, Zenon DEF scheduleRuntimeStateSave, TypeOK
    <2> QED
      BY <1>7, <2>3, <2>4 DEF scheduleRuntimeStateSave, TypeOK, EntryInv, maps
  <1>8. ASSUME TimerFires \/ FlushRuntimeState PROVE (TypeOK /\ EntryInv /\ TimerInv)'
    <2>1. /\ \/ timers' = timers - 1 /\ timers > 0
             \/ timers' = timers /\ timers + savers < MaxSavers
          /\ savers' = savers + 1
          /\ saveTimer' = FALSE
          /\ UNCHANGED <<alive, maps, file, image, pc, saveFailed, promised>>
      <3>1. CASE TimerFires
        BY <3>1 DEF TimerFires
      <3>2. CASE FlushRuntimeState
        <4>1. CASE saveTimer
          BY <3>2, <4>1 DEF FlushRuntimeState, TimerInv
        <4>2. CASE ~ saveTimer
          BY <3>2, <4>2 DEF FlushRuntimeState
        <4> QED BY <4>1, <4>2
      <3> QED BY <1>8, <3>1, <3>2
    <2>2. timers' \in 0 .. MaxSavers /\ savers' \in 0 .. MaxSavers /\ TimerInv'
      BY <1>a, <2>1 DEF TypeOK, TimerInv
    <2> QED
      BY <2>1, <2>2 DEF TypeOK, EntryInv, maps
  <1>9. ASSUME BeginSave PROVE (TypeOK /\ EntryInv /\ TimerInv)'
    <2>1. \A a \in Accounts : Snapshot(a) \in Entry
            /\ (Snapshot(a).cooldown > 0 => Snapshot(a).kind # "none")
      BY SnapshotEntry
    <2>2. image' \in [Accounts -> Entry]
          /\ \A a \in Accounts : image'[a].cooldown > 0 => image'[a].kind # "none"
      BY <1>9, <2>1 DEF BeginSave
    <2>3. savers' \in 0 .. MaxSavers /\ TimerInv'
      BY <1>9, <1>a DEF BeginSave, TypeOK, TimerInv
    <2> QED
      BY <1>9, <2>2, <2>3 DEF BeginSave, TypeOK, EntryInv, maps
  <1>10. ASSUME SaveWritten \/ SaveFails PROVE (TypeOK /\ EntryInv /\ TimerInv)'
    <2>1. CASE SaveWritten
      BY <2>1 DEF SaveWritten, TypeOK, EntryInv, TimerInv, maps
    <2>2. CASE SaveFails
      BY <2>2 DEF SaveFails, TypeOK, EntryInv, TimerInv, maps
    <2> QED BY <1>10, <2>1, <2>2
  <1>11. ASSUME Crash PROVE (TypeOK /\ EntryInv /\ TimerInv)'
    <2>1. promised' \in [Accounts -> Nat]
      BY <1>11 DEF Crash, TypeOK
    <2>2. EntryInv' /\ file' \in [Accounts -> Entry]
      BY <1>11 DEF Crash, EntryInv, TypeOK
    <2>3. TimerInv' /\ timers' \in 0 .. MaxSavers /\ savers' \in 0 .. MaxSavers
      BY <1>11, <1>a DEF Crash, TimerInv
    <2>4. /\ cooldowns' \in [Accounts -> Int] /\ refreshFailures' \in [Accounts -> Int]
          /\ errorCounts' \in [Accounts -> Absent .. ErrorLimit]
          /\ cooldownKinds' \in [Accounts -> Kinds]
          /\ \A a \in Accounts : cooldowns'[a] = NoTime <=> cooldownKinds'[a] = "none"
      BY <1>11 DEF Crash, NoTime, Absent, ErrorLimit, Kinds
    <2> QED
      BY <1>11, <2>1, <2>2, <2>3, <2>4 DEF Crash, TypeOK
  <1>12. ASSUME Restart PROVE (TypeOK /\ EntryInv /\ TimerInv)'
    <2>1. \A a \in Accounts : Running(file[a]) \in Entry
            /\ (Running(file[a]).cooldown = NoTime <=> Running(file[a]).kind = "none")
      BY RunningEntry DEF TypeOK, EntryInv
    <2>2. /\ cooldowns' \in [Accounts -> Int] /\ cooldownKinds' \in [Accounts -> Kinds]
          /\ refreshFailures' \in [Accounts -> Int]
          /\ \A a \in Accounts : cooldowns'[a] = NoTime <=> cooldownKinds'[a] = "none"
      BY <1>12, <2>1 DEF Restart, loadRuntimeState, Entry
    <2>3. errorCounts' \in [Accounts -> Absent .. ErrorLimit]
      BY <1>12 DEF Restart, loadRuntimeState, Entry, TypeOK
    <2> QED
      BY <1>12, <2>2, <2>3 DEF Restart, TypeOK, EntryInv, TimerInv, saving
  <1>13. ASSUME Tick PROVE (TypeOK /\ EntryInv /\ TimerInv)'
    <2>1. /\ cooldowns' \in [Accounts -> Int] /\ refreshFailures' \in [Accounts -> Int]
          /\ promised' \in [Accounts -> Nat]
          /\ \A a \in Accounts : cooldowns'[a] = NoTime <=> cooldownKinds'[a] = "none"
      BY <1>13, SoonerDeadline DEF Tick, TypeOK
    <2>2. /\ file' \in [Accounts -> Entry]
          /\ \A a \in Accounts : file'[a].cooldown > 0 => file'[a].kind # "none"
      BY <1>13, SoonerOfEntry DEF Tick, TypeOK, EntryInv
    <2>3. CASE image = NoImage
      BY <1>13, <2>1, <2>2, <2>3 DEF Tick, TypeOK, EntryInv, TimerInv
    <2>4. CASE image # NoImage
      <3>1. /\ image' \in [Accounts -> Entry]
            /\ \A a \in Accounts : image'[a].cooldown > 0 => image'[a].kind # "none"
        BY <1>13, <2>4, SoonerOfEntry DEF Tick, TypeOK, EntryInv
      <3> QED
        BY <1>13, <2>1, <2>2, <3>1 DEF Tick, TypeOK, EntryInv, TimerInv
    <2> QED BY <2>3, <2>4
  <1>14. ASSUME UNCHANGED vars PROVE (TypeOK /\ EntryInv /\ TimerInv)'
    BY <1>14 DEF vars, maps, saving, TypeOK, EntryInv, TimerInv
  <1> QED
    BY <1>1, <1>2, <1>3, <1>4, <1>5, <1>6, <1>7, <1>8, <1>9, <1>10, <1>11, <1>12,
       <1>13, <1>14 DEF Next

LEMMA TypeInit == Init => TypeInv
  <1> SUFFICES ASSUME Init PROVE TypeInv
    OBVIOUS
  <1>1. \A e \in {NoEntry} \union {LegacyEntry(t) : t \in Legacy} :
          e \in Entry /\ (e.cooldown > 0 => e.kind # "none")
    BY CooldownAssumption
    DEF NoEntry, LegacyEntry, Entry, NoTime, Absent, ErrorLimit, Kinds
  <1>2. file \in [Accounts -> Entry] /\ EntryInv
    BY <1>1 DEF Init, EntryInv
  <1>3. TimerInv /\ timers \in 0 .. MaxSavers /\ savers \in 0 .. MaxSavers
    BY CooldownAssumption DEF Init, TimerInv
  <1>4. /\ cooldowns \in [Accounts -> Int] /\ refreshFailures \in [Accounts -> Int]
        /\ errorCounts \in [Accounts -> Absent .. ErrorLimit]
        /\ cooldownKinds \in [Accounts -> Kinds]
        /\ \A a \in Accounts : cooldowns[a] = NoTime <=> cooldownKinds[a] = "none"
    BY DEF Init, NoTime, Absent, ErrorLimit, Kinds
  <1> QED BY <1>2, <1>3, <1>4 DEF Init, TypeInv, TypeOK, DownInv

(* The keys and values of the cooldown maps, of the copy and of the file keep
   their types for any accounts and workers, through saves, crashes and
   restarts (TypeOK).                                                       *)
THEOREM CooldownTypes == Spec => []TypeOK
  <1> QED BY TypeInit, TypeNext, PTL DEF Spec, TypeInv

-----------------------------------------------------------------------------
(* A step leaves the backoff of an account and what is owed of it alone. *)
Untouched(a) ==
  /\ cooldowns'[a] = cooldowns[a]
  /\ cooldownKinds'[a] = cooldownKinds[a]
  /\ promised'[a] = promised[a]

(* A step of the running process keeps QuotaInv if every account is left
   alone, gets a new quota backoff, or is owed nothing any more.           *)
LEMMA QuotaStep ==
  ASSUME QuotaInv, alive, alive' = alive,
         \A b \in Accounts :
           \/ Untouched(b)
           \/ cooldowns'[b] = promised'[b] /\ cooldownKinds'[b] = "quota"
           \/ ~ promised'[b] > Transient
  PROVE  QuotaInv'
  BY DEF QuotaInv, QuotaHeld, OwedInFile, Untouched

LEMMA QuotaNext == TypeInv /\ QuotaInv /\ [Next]_vars => QuotaInv'
  <1> SUFFICES ASSUME TypeInv, QuotaInv, [Next]_vars PROVE QuotaInv'
    OBVIOUS
  <1>a. Transient \in Nat \ {0} /\ Quota \in Nat /\ Transient < Quota
    BY CooldownAssumption
  <1>t. /\ cooldowns \in [Accounts -> Int] /\ cooldownKinds \in [Accounts -> Kinds]
        /\ promised \in [Accounts -> Nat] /\ file \in [Accounts -> Entry]
    BY DEF TypeInv, TypeOK
  <1>1. ASSUME NEW w \in Workers, NEW a \in Accounts, RecordSuccess(w, a) PROVE QuotaInv'
    <2>1. alive /\ alive' = alive
      BY <1>1 DEF RecordSuccess, Changes
    <2>2. promised[a] > Transient => ~ ClearedBySuccess(a)
      BY <1>a, <1>t, <2>1 DEF QuotaInv, QuotaHeld, ClearedBySuccess
    <2>3. promised[a] > Transient => Untouched(a)
      BY <1>1, <2>2 DEF RecordSuccess, clearTransientCooldownLocked, Untouched
    <2>4. \A b \in Accounts \ {a} : Untouched(b)
      BY <1>1, <1>t DEF RecordSuccess, clearTransientCooldownLocked, Untouched
    <2>5. promised' = promised
      BY <1>1 DEF RecordSuccess
    <2> QED BY <2>1, <2>3, <2>4, <2>5, QuotaStep
  <1>2. ASSUME NEW w \in Workers, NEW a \in Accounts, RecordQuotaError(w, a) PROVE QuotaInv'
    <2>1. alive /\ alive' = alive
      BY <1>2 DEF RecordQuotaError, Changes
    <2>2. CASE Sets(a, Quota)
      <3>1. cooldowns'[a] = promised'[a] /\ cooldownKinds'[a] = "quota"
        BY <1>2, <1>t, <2>2 DEF RecordQuotaError, setCooldownLocked
      <3>2. \A b \in Accounts \ {a} : Untouched(b)
        BY <1>2, <1>t, <2>2 DEF RecordQuotaError, setCooldownLocked, Untouched
      <3> QED BY <2>1, <3>1, <3>2, QuotaStep
    <2>3. CASE ~ Sets(a, Quota)
      <3>1. \A b \in Accounts : Untouched(b)
        BY <1>2, <2>3 DEF RecordQuotaError, setCooldownLocked, Untouched
      <3> QED BY <2>1, <3>1, QuotaStep
    <2> QED BY <2>2, <2>3
  <1>3. ASSUME NEW w \in Workers, NEW a \in Accounts, RecordError(w, a) PROVE QuotaInv'
    <2>1. alive /\ alive' = alive /\ promised' = promised
      BY <1>3 DEF RecordError, Changes
    <2>2. CASE UNCHANGED <<cooldowns, cooldownKinds>>
      BY <2>1, <2>2, QuotaStep DEF Untouched
    <2>3. CASE setCooldownLocked(a, Transient, "transient")
      <3>1. promised[a] > Transient => ~ Sets(a, Transient)
        BY <1>a, <1>t, <2>1 DEF QuotaInv, QuotaHeld, Sets
      <3>2. promised[a] > Transient => Untouched(a)
        BY <2>1, <2>3, <3>1 DEF setCooldownLocked, Untouched
      <3>3. \A b \in Accounts \ {a} : Untouched(b)
        BY <1>t, <2>1, <2>3 DEF setCooldownLocked, Untouched
      <3> QED BY <2>1, <3>2, <3>3, QuotaStep
    <2> QED BY <1>3, <2>2, <2>3 DEF RecordError
  <1>4. ASSUME NEW w \in Workers, NEW a \in Accounts,
               SetRefreshFailureCooldown(w, a) \/ ClearRefreshFailureCooldown(w, a)
        PROVE QuotaInv'
    BY <1>4, QuotaStep
    DEF SetRefreshFailureCooldown, ClearRefreshFailureCooldown, Changes, Untouched
  <1>5. ASSUME NEW w \in Workers, NEW ids \in SUBSET Accounts, ClearAccountCooldowns(w, ids)
        PROVE QuotaInv'
    <2>1. alive /\ alive' = alive
      BY <1>5 DEF ClearAccountCooldowns, Changes
    <2>2. \A b \in Accounts : Untouched(b) \/ ~ promised'[b] > Transient
      BY <1>5, <1>a DEF ClearAccountCooldowns, Untouched
    <2> QED BY <2>1, <2>2, QuotaStep
  <1>6. ASSUME NEW w \in Workers, scheduleRuntimeStateSave(w) PROVE QuotaInv'
    BY <1>6, QuotaStep DEF scheduleRuntimeStateSave, MutexFree, maps, Untouched
  <1>7. ASSUME TimerFires \/ FlushRuntimeState \/ BeginSave \/ SaveWritten \/ SaveFails
        PROVE QuotaInv'
    <2>1. alive /\ alive' = alive /\ UNCHANGED <<maps, promised>>
      BY <1>7 DEF TimerFires, FlushRuntimeState, BeginSave, SaveWritten, SaveFails, MutexFree
    <2> QED BY <2>1, QuotaStep DEF maps, Untouched
  <1>8. ASSUME Crash PROVE QuotaInv'
    BY <1>8, <1>a DEF Crash, QuotaInv, QuotaHeld, OwedInFile
  <1>9. ASSUME Restart PROVE QuotaInv'
    <2>1. \A a \in Accounts : promised[a] > Transient =>
            cooldowns'[a] = promised[a] /\ cooldownKinds'[a] = "quota"
      BY <1>9, <1>a, <1>t
      DEF Restart, loadRuntimeState, Running, QuotaInv, OwedInFile, Entry
    <2> QED BY <1>9, <2>1 DEF Restart, QuotaInv, QuotaHeld, OwedInFile
  <1>10. ASSUME Tick PROVE QuotaInv'
    <2>1. \A a \in Accounts : promised'[a] > Transient => promised[a] > Transient
      BY <1>10, <1>a, <1>t DEF Tick, Sooner
    <2>2. \A a \in Accounts : cooldowns[a] = promised[a] => cooldowns'[a] = promised'[a]
      BY <1>10 DEF Tick
    <2>3. \A a \in Accounts : /\ file[a].cooldown = promised[a] => file'[a].cooldown = promised'[a]
                              /\ file'[a].kind = file[a].kind
      BY <1>10, <1>t DEF Tick, SoonerEntry, Entry
    <2> QED BY <1>10, <2>1, <2>2, <2>3 DEF Tick, QuotaInv, QuotaHeld, OwedInFile
  <1>11. ASSUME UNCHANGED vars PROVE QuotaInv'
    BY <1>11 DEF vars, maps, QuotaInv, QuotaHeld, OwedInFile
  <1> QED
    BY <1>1, <1>2, <1>3, <1>4, <1>5, <1>6, <1>7, <1>8, <1>9, <1>10, <1>11 DEF Next

(* A quota backoff, once stored, runs to its last minute whatever errors,
   successes, crashes and restarts follow; only an operator ends it earlier
   (setCooldownLocked, clearTransientCooldownLocked, loadRuntimeState).      *)
THEOREM QuotaKept == Spec => []QuotaHeld
  <1>1. Init => TypeInv
    BY TypeInit
  <1>2. Init => QuotaInv
    BY CooldownAssumption DEF Init, QuotaInv, QuotaHeld, OwedInFile
  <1>3. TypeInv /\ QuotaInv /\ [Next]_vars => (TypeInv /\ QuotaInv)'
    BY TypeNext, QuotaNext
  <1> QED BY <1>1, <1>2, <1>3, PTL DEF Spec, QuotaInv

-----------------------------------------------------------------------------
LEMMA TransientNext == TypeInv /\ TransientInv /\ [Next]_vars => TransientInv'
  <1> SUFFICES ASSUME TypeInv, TransientInv, [Next]_vars PROVE TransientInv'
    OBVIOUS
  <1> USE DEF TransientInv
  <1>t. /\ cooldowns \in [Accounts -> Int] /\ cooldownKinds \in [Accounts -> Kinds]
        /\ errorCounts \in [Accounts -> Absent .. ErrorLimit]
        /\ file \in [Accounts -> Entry]
        /\ image = NoImage \/ image \in [Accounts -> Entry]
    BY DEF TypeInv, TypeOK
  <1>c. ASSUME NEW w \in Workers, Changes(w),
               \A a \in Accounts : cooldownKinds'[a] = "transient" => errorCounts'[a] = ErrorLimit
        PROVE TransientInv'
    BY <1>c DEF Changes, saving, TransientExplained, ImageExplained
  <1>m. \A n \in Absent .. ErrorLimit : /\ n = ErrorLimit => OneMore(n) = ErrorLimit
                                        /\ OneMore(n) >= ErrorLimit => OneMore(n) = ErrorLimit
    BY DEF OneMore, Absent, ErrorLimit
  <1>1. ASSUME NEW w \in Workers, NEW a \in Accounts, RecordSuccess(w, a) PROVE TransientInv'
    <2>1. cooldownKinds'[a] # "transient"
      BY <1>1, <1>t DEF RecordSuccess, clearTransientCooldownLocked, ClearedBySuccess
    <2>2. \A b \in Accounts \ {a} :
            cooldownKinds'[b] = cooldownKinds[b] /\ errorCounts'[b] = errorCounts[b]
      BY <1>1, <1>t DEF RecordSuccess, clearTransientCooldownLocked
    <2> QED BY <1>1, <1>c, <2>1, <2>2 DEF RecordSuccess, TransientExplained
  <1>2. ASSUME NEW w \in Workers, NEW a \in Accounts, RecordQuotaError(w, a)
        PROVE TransientInv'
    <2>1. \A b \in Accounts : cooldownKinds'[b] = cooldownKinds[b] \/ cooldownKinds'[b] = "quota"
      BY <1>2, <1>t DEF RecordQuotaError, setCooldownLocked
    <2>2. \A b \in Accounts : errorCounts[b] = ErrorLimit => errorCounts'[b] = ErrorLimit
      BY <1>2, <1>t, <1>m DEF RecordQuotaError
    <2> QED BY <1>2, <1>c, <2>1, <2>2 DEF RecordQuotaError, TransientExplained
  <1>3. ASSUME NEW w \in Workers, NEW a \in Accounts, RecordError(w, a) PROVE TransientInv'
    <2>1. \A b \in Accounts : errorCounts[b] = ErrorLimit => errorCounts'[b] = ErrorLimit
      BY <1>3, <1>t, <1>m DEF RecordError
    <2>2. CASE errorCounts'[a] >= ErrorLimit
      <3>1. errorCounts'[a] = ErrorLimit
        BY <1>3, <1>t, <1>m, <2>2 DEF RecordError
      <3>2. \A b \in Accounts \ {a} : cooldownKinds'[b] = cooldownKinds[b]
        BY <1>3, <1>t, <2>2 DEF RecordError, setCooldownLocked
      <3> QED BY <1>3, <1>c, <2>1, <3>1, <3>2 DEF RecordError, TransientExplained
    <2>3. CASE ~ errorCounts'[a] >= ErrorLimit
      <3>1. cooldownKinds' = cooldownKinds
        BY <1>3, <2>3 DEF RecordError
      <3> QED BY <1>3, <1>c, <2>1, <3>1 DEF RecordError, TransientExplained
    <2> QED BY <2>2, <2>3
  <1>4. ASSUME NEW w \in Workers, NEW a \in Accounts,
               SetRefreshFailureCooldown(w, a) \/ ClearRefreshFailureCooldown(w, a)
        PROVE TransientInv'
    BY <1>4, <1>c
    DEF SetRefreshFailureCooldown, ClearRefreshFailureCooldown, TransientExplained
  <1>5. ASSUME NEW w \in Workers, NEW ids \in SUBSET Accounts, ClearAccountCooldowns(w, ids)
        PROVE TransientInv'
    BY <1>5, <1>c DEF ClearAccountCooldowns, TransientExplained
  <1>6. ASSUME \/ \E w \in Workers : scheduleRuntimeStateSave(w)
               \/ TimerFires \/ FlushRuntimeState \/ SaveFails
        PROVE TransientInv'
    <2>1. UNCHANGED <<maps, file>> /\ (image' = image \/ image' = NoImage)
      BY <1>6 DEF scheduleRuntimeStateSave, TimerFires, FlushRuntimeState, SaveFails
    <2> QED BY <2>1 DEF maps, TransientExplained, ImageExplained
  <1>7. ASSUME BeginSave PROVE TransientInv'
    <2>1. \A a \in Accounts : Snapshot(a).kind = "transient" => Snapshot(a).errors = ErrorLimit
      BY DEF Snapshot, Running, InMemory, NoEntry, TransientExplained
    <2> QED BY <1>7, <2>1 DEF BeginSave, maps, TransientExplained, ImageExplained
  <1>8. ASSUME SaveWritten PROVE TransientInv'
    BY <1>8 DEF SaveWritten, maps, TransientExplained, ImageExplained
  <1>9. ASSUME Crash PROVE TransientInv'
    BY <1>9 DEF Crash, TransientExplained, ImageExplained
  <1>10. ASSUME Restart PROVE TransientInv'
    BY <1>10 DEF Restart, loadRuntimeState, Running, saving, TransientExplained, ImageExplained
  <1>11. ASSUME Tick PROVE TransientInv'
    <2>1. \A a \in Accounts : file'[a].kind = file[a].kind /\ file'[a].errors = file[a].errors
      BY <1>11, <1>t, SoonerOfEntry DEF Tick
    <2>2. image' # NoImage => /\ image # NoImage
                             /\ \A a \in Accounts : image'[a].kind = image[a].kind
                                                   /\ image'[a].errors = image[a].errors
      BY <1>11, <1>t, SoonerOfEntry DEF Tick
    <2> QED BY <1>11, <2>1, <2>2 DEF Tick, TransientExplained, ImageExplained
  <1>12. ASSUME UNCHANGED vars PROVE TransientInv'
    BY <1>12 DEF vars, maps, saving, TransientExplained, ImageExplained
  <1> QED
    BY <1>1, <1>2, <1>3, <1>4, <1>5, <1>6, <1>7, <1>8, <1>9, <1>10, <1>11, <1>12 DEF Next

(* Whatever reports, saves and restarts happen, an account in a transient
   cooldown has failed ErrorLimit times in a row, so the success that resets
   its count is the one that ends it (RecordError, RecordSuccess).          *)
THEOREM TransientHasErrors == Spec => []TransientExplained
  <1>1. Init => TransientInv
    BY DEF Init, TransientInv, TransientExplained, ImageExplained, NoEntry, LegacyEntry
  <1>2. TypeInv /\ TransientInv /\ [Next]_vars => (TypeInv /\ TransientInv)'
    BY TypeNext, TransientNext
  <1> QED BY <1>1, <1>2, TypeInit, PTL DEF Spec, TransientInv

-----------------------------------------------------------------------------
(* An account that is cooling has an error count: saveRuntimeStateTo walks
   errorCounts, and would leave it out otherwise.                          *)
ErrorsInv ==
  /\ \A a \in Accounts : cooldowns[a] # NoTime => errorCounts[a] # Absent
  /\ \A a \in Accounts : file[a].cooldown > 0 => file[a].errors # Absent
  /\ image # NoImage =>
       \A a \in Accounts : image[a].cooldown > 0 => image[a].errors # Absent

(* Nobody is about to copy the maps. *)
NoCopyToCome == timers = 0 /\ savers = 0 /\ \A w \in Workers : pc[w] # "changed"

(* When no copy is to come, the last one is up to date: the one being written
   if there is one, the file otherwise, unless the write failed.             *)
CopiedInv ==
  alive /\ NoCopyToCome =>
    /\ image # NoImage => \A a \in Accounts : Seen(image[a]) = Seen(InMemory(a))
    /\ image = NoImage /\ ~ saveFailed =>
         \A a \in Accounts : Seen(file[a]) = Seen(InMemory(a))

LEMMA ErrorsNext == TypeInv /\ ErrorsInv /\ [Next]_vars => ErrorsInv'
  <1> SUFFICES ASSUME TypeInv, ErrorsInv, [Next]_vars PROVE ErrorsInv'
    OBVIOUS
  <1>t. /\ cooldowns \in [Accounts -> Int]
        /\ errorCounts \in [Accounts -> Absent .. ErrorLimit]
        /\ file \in [Accounts -> Entry]
        /\ image = NoImage \/ image \in [Accounts -> Entry]
    BY DEF TypeInv, TypeOK
  <1>c. ASSUME NEW w \in Workers, Changes(w),
               \A a \in Accounts : cooldowns'[a] # NoTime => errorCounts'[a] # Absent
        PROVE ErrorsInv'
    BY <1>c DEF Changes, saving, ErrorsInv
  <1>m. \A n \in Absent .. ErrorLimit : OneMore(n) # Absent
    BY DEF OneMore, Absent, ErrorLimit
  <1>1. ASSUME NEW w \in Workers, NEW a \in Accounts, RecordSuccess(w, a) PROVE ErrorsInv'
    <2>1. errorCounts'[a] # Absent
      BY <1>1, <1>t DEF RecordSuccess, Absent
    <2>2. \A b \in Accounts \ {a} :
            cooldowns'[b] = cooldowns[b] /\ errorCounts'[b] = errorCounts[b]
      BY <1>1, <1>t DEF RecordSuccess, clearTransientCooldownLocked
    <2> QED BY <1>1, <1>c, <2>1, <2>2 DEF RecordSuccess, ErrorsInv
  <1>2. ASSUME NEW w \in Workers, NEW a \in Accounts,
               RecordQuotaError(w, a) \/ RecordError(w, a)
        PROVE ErrorsInv'
    <2>1. Changes(w) /\ errorCounts' = [errorCounts EXCEPT ![a] = OneMore(@)]
      BY <1>2 DEF RecordQuotaError, RecordError
    <2>2. errorCounts'[a] # Absent
      BY <1>t, <1>m, <2>1
    <2>3. \A b \in Accounts \ {a} : errorCounts'[b] = errorCounts[b]
      BY <1>t, <2>1
    <2>4. \A b \in Accounts \ {a} : cooldowns'[b] = cooldowns[b]
      <3>1. CASE RecordQuotaError(w, a)
        BY <3>1, <1>t DEF RecordQuotaError, setCooldownLocked
      <3>2. CASE RecordError(w, a)
        BY <3>2, <1>t DEF RecordError, setCooldownLocked
      <3> QED BY <1>2, <3>1, <3>2
    <2> QED BY <1>c, <2>1, <2>2, <2>3, <2>4 DEF ErrorsInv
  <1>3. ASSUME NEW w \in Workers, NEW a \in Accounts,
               SetRefreshFailureCooldown(w, a) \/ ClearRefreshFailureCooldown(w, a)
        PROVE ErrorsInv'
    BY <1>3, <1>c DEF SetRefreshFailureCooldown, ClearRefreshFailureCooldown, ErrorsInv
  <1>4. ASSUME NEW w \in Workers, NEW ids \in SUBSET Accounts, ClearAccountCooldowns(w, ids)
        PROVE ErrorsInv'
    BY <1>4, <1>c DEF ClearAccountCooldowns, ErrorsInv
  <1>5. ASSUME \/ \E w \in Workers : scheduleRuntimeStateSave(w)
               \/ TimerFires \/ FlushRuntimeState \/ SaveFails
        PROVE ErrorsInv'
    <2>1. UNCHANGED <<maps, file>> /\ (image' = image \/ image' = NoImage)
      BY <1>5 DEF scheduleRuntimeStateSave, TimerFires, FlushRuntimeState, SaveFails
    <2> QED BY <2>1 DEF maps, ErrorsInv
  <1>6. ASSUME BeginSave PROVE ErrorsInv'
    <2>1. \A a \in Accounts : Snapshot(a).cooldown > 0 => Snapshot(a).errors # Absent
      BY DEF Snapshot, Running, InMemory, NoEntry, NoTime, Absent
    <2> QED BY <1>6, <2>1 DEF BeginSave, maps, ErrorsInv
  <1>7. ASSUME SaveWritten PROVE ErrorsInv'
    BY <1>7 DEF SaveWritten, maps, ErrorsInv
  <1>8. ASSUME Crash PROVE ErrorsInv'
    BY <1>8 DEF Crash, ErrorsInv
  <1>9. ASSUME Restart PROVE ErrorsInv'
    BY <1>9 DEF Restart, loadRuntimeState, Running, saving, ErrorsInv
  <1>10. ASSUME Tick PROVE ErrorsInv'
    <2>1. \A a \in Accounts : cooldowns'[a] # NoTime => cooldowns[a] # NoTime
      BY <1>10, <1>t, SoonerDeadline DEF Tick
    <2>2. \A a \in Accounts : /\ file'[a].cooldown > 0 => file[a].cooldown > 0
                              /\ file'[a].errors = file[a].errors
      BY <1>10, <1>t, SoonerOfEntry DEF Tick
    <2>3. image' # NoImage =>
            /\ image # NoImage
            /\ \A a \in Accounts : /\ image'[a].cooldown > 0 => image[a].cooldown > 0
                                   /\ image'[a].errors = image[a].errors
      BY <1>10, <1>t, SoonerOfEntry DEF Tick
    <2> QED BY <1>10, <2>1, <2>2, <2>3 DEF Tick, ErrorsInv
  <1>11. ASSUME UNCHANGED vars PROVE ErrorsInv'
    BY <1>11 DEF vars, maps, saving, ErrorsInv
  <1> QED
    BY <1>1, <1>2, <1>3, <1>4, <1>5, <1>6, <1>7, <1>8, <1>9, <1>10, <1>11 DEF Next

(* Entries that look the same now look the same after a tick. *)
LEMMA SoonerSeen ==
  ASSUME NEW e \in Entry, NEW f \in Entry, Seen(e) = Seen(f)
  PROVE  Seen(SoonerEntry(e)) = Seen(SoonerEntry(f))
  <1>1. \A x \in Entry :
          Seen(x) = [errors   |-> IF x.errors = Absent THEN 0 ELSE x.errors,
                     cooldown |-> IF x.cooldown > 0 THEN x.cooldown ELSE NoTime,
                     kind     |-> IF x.cooldown > 0 THEN x.kind ELSE "none",
                     refresh  |-> IF x.refresh > 0 THEN x.refresh ELSE NoTime]
    BY DEF Seen, Running, Entry
  <1>2. /\ e.cooldown \in Int /\ e.refresh \in Int /\ f.cooldown \in Int /\ f.refresh \in Int
        /\ SoonerEntry(e) \in Entry /\ SoonerEntry(f) \in Entry
    BY SoonerOfEntry DEF Entry
  <1>3. /\ e.cooldown = f.cooldown \/ (~ e.cooldown > 0 /\ ~ f.cooldown > 0)
        /\ e.cooldown > 0 => e.kind = f.kind
        /\ e.refresh = f.refresh \/ (~ e.refresh > 0 /\ ~ f.refresh > 0)
        /\ (IF e.errors = Absent THEN 0 ELSE e.errors)
             = (IF f.errors = Absent THEN 0 ELSE f.errors)
    BY <1>1, <1>2 DEF NoTime
  <1> QED BY <1>1, <1>2, <1>3 DEF SoonerEntry, Sooner, NoTime

LEMMA CopiedNext == TypeInv /\ ErrorsInv /\ CopiedInv /\ [Next]_vars => CopiedInv'
  <1> SUFFICES ASSUME TypeInv, ErrorsInv, CopiedInv, [Next]_vars PROVE CopiedInv'
    OBVIOUS
  <1>t. /\ cooldowns \in [Accounts -> Int] /\ refreshFailures \in [Accounts -> Int]
        /\ cooldownKinds \in [Accounts -> Kinds]
        /\ errorCounts \in [Accounts -> Absent .. ErrorLimit]
        /\ file \in [Accounts -> Entry]
        /\ image = NoImage \/ image \in [Accounts -> Entry]
        /\ timers \in Nat /\ savers \in Nat
        /\ pc \in [Workers -> {"idle", "changed"}]
    BY DEF TypeInv, TypeOK
  <1>e. \A a \in Accounts : InMemory(a) \in Entry
    BY <1>t DEF InMemory, Entry
  <1>c. ASSUME NEW w \in Workers, Changes(w) PROVE CopiedInv'
    <2>1. pc'[w] = "changed"
      BY <1>c, <1>t DEF Changes
    <2> QED BY <2>1 DEF CopiedInv, NoCopyToCome
  <1>1. ASSUME NEW w \in Workers, scheduleRuntimeStateSave(w) PROVE CopiedInv'
    <2>1. (timers' = timers /\ timers > 0) \/ timers' = timers + 1
      BY <1>1, Zenon DEF scheduleRuntimeStateSave, TypeInv, TimerInv
    <2>2. timers' # 0
      BY <1>t, <2>1
    <2> QED BY <2>2 DEF CopiedInv, NoCopyToCome
  <1>2. ASSUME TimerFires \/ FlushRuntimeState PROVE CopiedInv'
    <2>1. savers' = savers + 1
      BY <1>2 DEF TimerFires, FlushRuntimeState
    <2>2. savers' # 0
      BY <1>t, <2>1
    <2> QED BY <2>2 DEF CopiedInv, NoCopyToCome
  <1>3. ASSUME BeginSave PROVE CopiedInv'
    <2>1. ASSUME NEW a \in Accounts PROVE Seen(Snapshot(a)) = Seen(InMemory(a))
      <3>1. CASE errorCounts[a] # Absent
        BY <1>t, <3>1 DEF Snapshot, Seen, Running, InMemory, NoTime
      <3>2. CASE errorCounts[a] = Absent
        <4>1. cooldowns[a] = NoTime
          BY <3>2 DEF ErrorsInv
        <4> QED
          BY <1>t, <3>2, <4>1 DEF Snapshot, NoEntry, Seen, Running, InMemory, NoTime, Absent
      <3> QED BY <3>1, <3>2
    <2>2. image' \in [Accounts -> Entry]
      BY <1>3, SnapshotEntry DEF BeginSave, TypeInv
    <2>3. image' # NoImage
      BY <2>2, NoImageAssumption
    <2>4. \A a \in Accounts : image'[a] = Snapshot(a) /\ InMemory(a)' = InMemory(a)
      BY <1>3 DEF BeginSave, InMemory, maps
    <2> QED BY <2>1, <2>3, <2>4 DEF CopiedInv
  <1>4. ASSUME SaveWritten PROVE CopiedInv'
    <2>1. \A a \in Accounts : InMemory(a)' = InMemory(a)
      BY <1>4 DEF SaveWritten, InMemory, maps
    <2> QED BY <1>4, <2>1 DEF SaveWritten, CopiedInv, NoCopyToCome
  <1>5. ASSUME SaveFails PROVE CopiedInv'
    BY <1>5 DEF SaveFails, CopiedInv
  <1>6. ASSUME Crash PROVE CopiedInv'
    BY <1>6 DEF Crash, CopiedInv
  <1>7. ASSUME Restart PROVE CopiedInv'
    <2>1. image' = image /\ file' = file
      BY <1>7 DEF Restart, saving
    <2>2. \A a \in Accounts : InMemory(a)' = Running(file[a])
      BY <1>7, <1>t DEF Restart, loadRuntimeState, InMemory, Running
    <2>3. \A a \in Accounts : Seen(Running(file[a])) = Seen(file[a])
      BY <1>t DEF Seen, Running, Entry, NoTime
    <2>4. image = NoImage
      BY <1>7 DEF Restart, TypeInv, DownInv
    <2> QED BY <2>1, <2>2, <2>3, <2>4 DEF CopiedInv
  <1>8. ASSUME Tick PROVE CopiedInv'
    <2>1. \A a \in Accounts : InMemory(a)' = SoonerEntry(InMemory(a))
      BY <1>8, <1>t DEF Tick, InMemory, SoonerEntry
    <2>2. \A a \in Accounts : file'[a] = SoonerEntry(file[a])
      BY <1>8 DEF Tick
    <2>3. NoCopyToCome' => NoCopyToCome
      BY <1>8 DEF Tick, NoCopyToCome
    <2>4. CASE image = NoImage
      <3>1. image' = NoImage
        BY <1>8, <2>4 DEF Tick
      <3> QED BY <1>8, <1>t, <1>e, <2>1, <2>2, <2>3, <2>4, <3>1, SoonerSeen DEF Tick, CopiedInv
    <2>5. CASE image # NoImage
      <3>1. /\ image' = [a \in Accounts |-> SoonerEntry(image[a])]
            /\ image \in [Accounts -> Entry]
        BY <1>8, <1>t, <2>5 DEF Tick
      <3>2. image' \in [Accounts -> Entry]
        BY <3>1, SoonerOfEntry
      <3>3. image' # NoImage
        BY <3>2, NoImageAssumption
      <3> QED BY <1>8, <1>e, <2>1, <2>3, <2>5, <3>1, <3>3, SoonerSeen DEF Tick, CopiedInv
    <2> QED BY <2>4, <2>5
  <1>9. ASSUME UNCHANGED vars PROVE CopiedInv'
    BY <1>9 DEF vars, maps, saving, CopiedInv, NoCopyToCome, InMemory
  <1> QED
    BY <1>c, <1>1, <1>2, <1>3, <1>4, <1>5, <1>6, <1>7, <1>8, <1>9
    DEF Next, RecordSuccess, RecordQuotaError, RecordError, SetRefreshFailureCooldown,
        ClearRefreshFailureCooldown, ClearAccountCooldowns

(* The debounced save loses no change of the maps, for any number of accounts,
   reporters, timers and flushes, whenever the process crashes
   (scheduleRuntimeStateSave, FlushRuntimeState, saveRuntimeStateTo).          *)
THEOREM ChangesSaved == Spec => []NoUnsavedChange
  <1>1. Init => ErrorsInv /\ CopiedInv
    BY DEF Init, ErrorsInv, CopiedInv, NoEntry, LegacyEntry, NoTime, Absent
  <1>2. TypeInv /\ ErrorsInv /\ CopiedInv /\ [Next]_vars
          => (TypeInv /\ ErrorsInv /\ CopiedInv)'
    BY TypeNext, ErrorsNext, CopiedNext
  <1>3. TypeInv /\ CopiedInv => NoUnsavedChange
    BY DEF TypeInv, TypeOK, CopiedInv, NoCopyToCome, NoUnsavedChange, SavePending
  <1> QED BY <1>1, <1>2, <1>3, TypeInit, PTL DEF Spec
(* The three together, as the run checks them: backoffs survive late results,
   overlapping saves, crashes and restarts (pool/account.go:589-669).          *)
THEOREM CooldownsKept == Spec => []CooldownsSafe
  <1> QED BY QuotaKept, TransientHasErrors, ChangesSaved, PTL DEF CooldownsSafe

-----------------------------------------------------------------------------
(* LogArchive. *)
ArcFile == [lines : Seq(Records), aged : BOOLEAN]
CallRecord == [does : {"none", "flush", "clear"}, phase : {"idle", "sending", "waiting"}, before : SUBSET Records]

(* x came into the queue before y. *)
Came(acc) == {p \in Records \X Records : \E i, j \in 1 .. Len(acc) : i < j /\ acc[i] = p[1] /\ acc[j] = p[2]}

(* The files and the queue are one list, cut into pieces: order R holds in *)
(* each piece and from a piece to the later ones, the queue being the last. *)
Lines(fs) == UNION {ToSet(fs[a].lines) : a \in 1 .. Len(fs)}
FilesInOrder(R, fs) ==
  /\ \A a \in 1 .. Len(fs) : OrderedBy(R, fs[a].lines)
  /\ \A a, b \in 1 .. Len(fs) : a < b => \A x \in ToSet(fs[a].lines), y \in ToSet(fs[b].lines) : <<x, y>> \in R
QueueInOrder(R, fs, q) ==
  /\ OrderedBy(R, q)
  /\ \A x \in Lines(fs), y \in ToSet(q) : <<x, y>> \in R
Stored(R, fs, q) ==
  /\ fs \in Seq(ArcFile) /\ q \in Seq(Records)
  /\ FilesInOrder(R, fs) /\ QueueInOrder(R, fs, q)

ArcInv ==
  /\ accepted \in Seq(Records) /\ producer \in [Records -> {"new", "checked", "done"}]
  /\ \A r \in ToSet(accepted) : producer[r] = "done"
  /\ Stored(Came(accepted), arcFiles, arcQueue)
  /\ Lines(arcFiles) \cup ToSet(arcQueue) \subseteq ToSet(accepted)
  /\ fileOpen \in BOOLEAN /\ (fileOpen => arcFiles # <<>>)
  /\ caller \in CallRecord
  /\ erased \cup flushed \cup owed \cup caller.before \subseteq ToSet(accepted)
  /\ erased \cap (ToSet(arcQueue) \cup Lines(arcFiles)) = {}
  /\ flushed \cap ToSet(arcQueue) = {}
  /\ (closing = "no" => worker.at \notin {"stop", "done"})
  /\ (closing = "closed" => worker.at = "done")
  /\ (worker.at = "done" => owed \cap ToSet(arcQueue) = {})
(* fs loses some of its files, and others grow old. *)
Shrinks(fs, gs) ==
  \E h \in [1 .. Len(gs) -> 1 .. Len(fs)] :
    /\ \A j \in 1 .. Len(gs) : gs[j].lines = fs[h[j]].lines
    /\ \A i, j \in 1 .. Len(gs) : i < j => h[i] < h[j]

LEMMA ShrinksStored ==
  ASSUME NEW R, NEW fs, NEW gs, NEW q, Stored(R, fs, q), gs \in Seq(ArcFile), Shrinks(fs, gs)
  PROVE  Stored(R, gs, q) /\ Lines(gs) \subseteq Lines(fs)
<1>1. PICK h \in [1 .. Len(gs) -> 1 .. Len(fs)] :
        /\ \A j \in 1 .. Len(gs) : gs[j].lines = fs[h[j]].lines
        /\ \A i, j \in 1 .. Len(gs) : i < j => h[i] < h[j]
  BY DEF Shrinks
<1>2. \A j \in 1 .. Len(gs) : h[j] \in 1 .. Len(fs)
  BY <1>1
<1>3. \A a \in 1 .. Len(gs) : OrderedBy(R, gs[a].lines)
  BY <1>1, <1>2 DEF Stored, FilesInOrder
<1>4. ASSUME NEW a \in 1 .. Len(gs), NEW b \in 1 .. Len(gs), a < b,
             NEW x \in ToSet(gs[a].lines), NEW y \in ToSet(gs[b].lines)
      PROVE  <<x, y>> \in R
  <2>1. h[a] \in 1 .. Len(fs) /\ h[b] \in 1 .. Len(fs) /\ h[a] < h[b]
    BY <1>1, <1>2, <1>4
  <2>2. x \in ToSet(fs[h[a]].lines) /\ y \in ToSet(fs[h[b]].lines)
    BY <1>1, <1>4
  <2> QED
    BY <2>1, <2>2 DEF Stored, FilesInOrder
<1>5. Lines(gs) \subseteq Lines(fs)
  BY <1>1, <1>2 DEF Lines
<1>6. QueueInOrder(R, gs, q)
  BY <1>5 DEF Stored, QueueInOrder
<1> QED
  BY <1>3, <1>4, <1>5, <1>6 DEF Stored, FilesInOrder

LEMMA Same == ASSUME NEW fs \in Seq(ArcFile) PROVE Shrinks(fs, fs)
<1> DEFINE h == [j \in 1 .. Len(fs) |-> j]
<1>1. h \in [1 .. Len(fs) -> 1 .. Len(fs)] /\ \A j \in 1 .. Len(fs) : h[j] = j
  OBVIOUS
<1> HIDE DEF h
<1>2. \A i, j \in 1 .. Len(fs) : i < j => h[i] < h[j]
  BY <1>1
<1>3. \A j \in 1 .. Len(fs) : fs[j].lines = fs[h[j]].lines
  BY <1>1
<1> QED
  BY <1>1, <1>2, <1>3 DEF Shrinks

LEMMA NoFiles == ASSUME NEW fs \in Seq(ArcFile) PROVE <<>> \in Seq(ArcFile) /\ Shrinks(fs, <<>>)
<1>1. [j \in {} |-> 0] \in [1 .. 0 -> 1 .. Len(fs)] /\ Len(<<>>) = 0 /\ <<>> \in Seq(ArcFile)
  BY EmptySeq
<1> QED
  BY <1>1 DEF Shrinks

LEMMA Suffix ==
  ASSUME NEW fs \in Seq(ArcFile), NEW n \in 0 .. Len(fs)
  PROVE  SubSeq(fs, n + 1, Len(fs)) \in Seq(ArcFile) /\ Shrinks(fs, SubSeq(fs, n + 1, Len(fs)))
<1> DEFINE l == Len(fs)
           gs == SubSeq(fs, n + 1, l)
           h == [j \in 1 .. l - n |-> n + j]
<1>1. l \in Nat /\ n \in Nat /\ n <= l
  BY LenProperties
<1>2. /\ gs \in Seq(ArcFile) /\ Len(gs) = l - n
      /\ \A j \in 1 .. l - n : gs[j] = fs[n + j]
  <2>1. \A i \in n + 1 .. l : fs[i] \in ArcFile
    BY <1>1, ElementOfSeq
  <2>2. /\ SubSeq(fs, n + 1, l) \in Seq(ArcFile)
        /\ Len(SubSeq(fs, n + 1, l)) = IF n + 1 <= l THEN l - (n + 1) + 1 ELSE 0
        /\ \A i \in 1 .. l - (n + 1) + 1 : SubSeq(fs, n + 1, l)[i] = fs[(n + 1) + i - 1]
    <3> HIDE DEF l
    <3> QED
      BY <1>1, <2>1, SubSeqProperties
  <2> HIDE DEF l
  <2>3. l - (n + 1) + 1 = l - n /\ (n + 1 > l => l - n = 0)
    BY <1>1
  <2>4. \A i \in 1 .. l - n : (n + 1) + i - 1 = n + i
    BY <1>1
  <2> QED
    BY <1>1, <2>2, <2>3, <2>4
<1>3. /\ h \in [1 .. l - n -> 1 .. l]
      /\ \A j \in 1 .. l - n : h[j] = n + j
  <2> HIDE DEF l
  <2>1. \A j \in 1 .. l - n : n + j \in 1 .. l
    BY <1>1
  <2> QED
    BY <2>1
<1> HIDE DEF h, gs
<1>4. \A i, j \in 1 .. l - n : i < j => h[i] < h[j]
  BY <1>1, <1>3
<1>5. \A j \in 1 .. l - n : gs[j].lines = fs[h[j]].lines
  BY <1>2, <1>3
<1>6. Shrinks(fs, gs)
  <2>1. h \in [1 .. Len(gs) -> 1 .. Len(fs)]
    BY <1>2, <1>3
  <2> QED
    BY <1>2, <1>4, <1>5, <2>1 DEF Shrinks
<1> QED
  BY <1>2, <1>6 DEF gs

LEMMA ShrinksTwice ==
  ASSUME NEW fs \in Seq(ArcFile), NEW gs \in Seq(ArcFile), NEW hs \in Seq(ArcFile), Shrinks(fs, gs), Shrinks(gs, hs)
  PROVE  Shrinks(fs, hs)
<1>1. PICK h \in [1 .. Len(gs) -> 1 .. Len(fs)] :
        /\ \A j \in 1 .. Len(gs) : gs[j].lines = fs[h[j]].lines
        /\ \A i, j \in 1 .. Len(gs) : i < j => h[i] < h[j]
  BY DEF Shrinks
<1>2. PICK g \in [1 .. Len(hs) -> 1 .. Len(gs)] :
        /\ \A j \in 1 .. Len(hs) : hs[j].lines = gs[g[j]].lines
        /\ \A i, j \in 1 .. Len(hs) : i < j => g[i] < g[j]
  BY DEF Shrinks
<1> DEFINE e == [j \in 1 .. Len(hs) |-> h[g[j]]]
<1>3. \A j \in 1 .. Len(hs) : g[j] \in 1 .. Len(gs) /\ h[g[j]] \in 1 .. Len(fs)
  BY <1>1, <1>2
<1>4. e \in [1 .. Len(hs) -> 1 .. Len(fs)] /\ \A j \in 1 .. Len(hs) : e[j] = h[g[j]]
  BY <1>3
<1> HIDE DEF e
<1>5. \A j \in 1 .. Len(hs) : hs[j].lines = fs[e[j]].lines
  BY <1>1, <1>2, <1>3, <1>4
<1>6. \A i, j \in 1 .. Len(hs) : i < j => e[i] < e[j]
  BY <1>1, <1>2, <1>3, <1>4
<1> QED
  BY <1>4, <1>5, <1>6 DEF Shrinks

(* The retention and the capacity take files away. *)
LEMMA KeptShrinks ==
  ASSUME NEW fs \in Seq(ArcFile), NEW expired \in BOOLEAN
  PROVE  Kept(fs, expired) \in Seq(ArcFile) /\ Shrinks(fs, Kept(fs, expired))
<1> DEFINE S == {f \in Range(fs) : ~f.aged}
           young == IF expired THEN Sublist(fs, S) ELSE fs
           within == {n \in 0 .. Len(young) :
                        n = Len(young) \/ TotalBytes(SubSeq(young, n + 1, Len(young))) <= CapacityBytes}
<1>1. young \in Seq(ArcFile) /\ Shrinks(fs, young)
  <2>1. CASE ~expired
    BY <2>1, Same
  <2>2. CASE expired
    <3> HIDE DEF S
    <3>1. young = Sublist(fs, S)
      BY <2>2
    <3>2. Sublist(fs, S) \in Seq(ArcFile) /\ Embeds(fs, Sublist(fs, S), Len(fs))
      BY SublistEmbeds
    <3>3. Shrinks(fs, Sublist(fs, S))
      BY <3>2 DEF Embeds, Shrinks
    <3> HIDE DEF young
    <3> QED
      BY <3>1, <3>2, <3>3
  <2> QED
    BY <2>1, <2>2
<1>2. Kept(fs, expired) = SubSeq(young, Min(within) + 1, Len(young))
  BY DEF Kept
<1> HIDE DEF young
<1>3. Min(within) \in 0 .. Len(young)
  <2>1. Len(young) \in Nat
    BY <1>1, LenProperties
  <2>2. within \in SUBSET Nat /\ Len(young) \in within /\ within \subseteq 0 .. Len(young)
    BY <2>1
  <2> HIDE DEF within
  <2>3. \E n \in within : \A m \in within : n <= m
    BY <2>2, LeastNat
  <2>4. Min(within) \in within
    BY <2>3 DEF Min
  <2> QED
    BY <2>2, <2>4
<1> HIDE DEF within
<1>4. Kept(fs, expired) \in Seq(ArcFile) /\ Shrinks(young, Kept(fs, expired))
  <2> DEFINE n == Min(within)
  <2>1. n \in 0 .. Len(young)
    BY <1>3
  <2> HIDE DEF n
  <2>2. SubSeq(young, n + 1, Len(young)) \in Seq(ArcFile) /\ Shrinks(young, SubSeq(young, n + 1, Len(young)))
    BY <1>1, <2>1, Suffix
  <2> QED
    BY <1>2, <2>2 DEF n
<1> QED
  BY <1>1, <1>4, ShrinksTwice

LEMMA OlderFile ==
  ASSUME NEW fs \in Seq(ArcFile), NEW i \in DOMAIN fs
  PROVE  /\ [fs EXCEPT ![i].aged = TRUE] \in Seq(ArcFile) /\ Shrinks(fs, [fs EXCEPT ![i].aged = TRUE])
         /\ Len([fs EXCEPT ![i].aged = TRUE]) = Len(fs)
<1> DEFINE f == [fs[i] EXCEPT !.aged = TRUE]
           gs == [fs EXCEPT ![i] = f]
<1>1. i \in 1 .. Len(fs) /\ DOMAIN fs = 1 .. Len(fs) /\ fs[i] \in ArcFile
  BY LenProperties, ElementOfSeq
<1>2. f \in ArcFile /\ f.lines = fs[i].lines
  BY <1>1 DEF ArcFile
<1>3. [fs EXCEPT ![i].aged = TRUE] = gs
  OBVIOUS
<1> HIDE DEF f
<1>4. /\ gs \in Seq(ArcFile) /\ Len(gs) = Len(fs)
      /\ \A j \in 1 .. Len(fs) : gs[j] = IF j = i THEN f ELSE fs[j]
  BY <1>1, <1>2, ExceptSeq
<1> HIDE DEF gs
<1>5. Shrinks(gs, gs)
  BY <1>4, Same
<1>6. \A j \in 1 .. Len(gs) : gs[j].lines = fs[j].lines
  BY <1>2, <1>4
<1>7. Shrinks(fs, gs)
  <2>1. PICK h \in [1 .. Len(gs) -> 1 .. Len(gs)] :
          /\ \A j \in 1 .. Len(gs) : gs[j].lines = gs[h[j]].lines
          /\ \A k, j \in 1 .. Len(gs) : k < j => h[k] < h[j]
    BY <1>5 DEF Shrinks
  <2>2. \A j \in 1 .. Len(gs) : gs[j].lines = fs[h[j]].lines
    BY <1>6, <2>1
  <2> QED
    BY <1>4, <2>1, <2>2 DEF Shrinks
<1> QED
  BY <1>3, <1>4, <1>7

-----------------------------------------------------------------------------
(* The queue. *)
LEMMA Rest ==
  ASSUME NEW q \in Seq(Records), q # <<>>
  PROVE  /\ Tail(q) \in Seq(Records) /\ Head(q) \in ToSet(q) /\ Head(q) \in Records /\ ToSet(Tail(q)) \subseteq ToSet(q)
         /\ Len(q) \in Nat /\ Len(q) >= 1 /\ Len(Tail(q)) = Len(q) - 1 /\ q[1] = Head(q)
         /\ \A i \in 1 .. Len(q) - 1 : Tail(q)[i] = q[i + 1]
<1>1. Len(q) \in Nat /\ Len(q) # 0 /\ DOMAIN q = 1 .. Len(q) /\ Head(q) = q[1]
  BY LenProperties, EmptySeq
<1>2. Tail(q) \in Seq(Records) /\ Len(Tail(q)) = Len(q) - 1 /\ Head(q) \in Records
  BY HeadTailProperties
<1>3. \A i \in 1 .. Len(q) - 1 : Tail(q)[i] = q[i + 1]
  BY <1>2, <1>1 
<1>4. DOMAIN Tail(q) = 1 .. Len(q) - 1
  BY <1>2, LenProperties
<1>5. \A i \in 1 .. Len(q) - 1 : i + 1 \in 1 .. Len(q)
  BY <1>1
<1>6. ToSet(Tail(q)) \subseteq ToSet(q)
  BY <1>1, <1>3, <1>4, <1>5 DEF ToSet
<1>7. Head(q) \in ToSet(q)
  BY <1>1 DEF ToSet
<1> QED
  BY <1>1, <1>2, <1>3, <1>6, <1>7

LEMMA RestInOrder ==
  ASSUME NEW R, NEW q \in Seq(Records), q # <<>>, OrderedBy(R, q)
  PROVE  OrderedBy(R, Tail(q)) /\ \A y \in ToSet(Tail(q)) : <<Head(q), y>> \in R
<1>1. /\ Len(q) \in Nat /\ Len(q) >= 1 /\ Len(Tail(q)) = Len(q) - 1 /\ q[1] = Head(q) /\ Tail(q) \in Seq(Records)
      /\ \A i \in 1 .. Len(q) - 1 : Tail(q)[i] = q[i + 1]
  BY Rest
<1>2. ASSUME NEW i \in 1 .. Len(Tail(q)), NEW j \in 1 .. Len(Tail(q)), i < j PROVE <<Tail(q)[i], Tail(q)[j]>> \in R
  <2>1. i + 1 \in 1 .. Len(q) /\ j + 1 \in 1 .. Len(q) /\ i + 1 < j + 1
    BY <1>1, <1>2
  <2>2. <<q[i + 1], q[j + 1]>> \in R
    BY <2>1 DEF OrderedBy
  <2> QED
    BY <1>1, <2>2
<1>3. ASSUME NEW y \in ToSet(Tail(q)) PROVE <<Head(q), y>> \in R
  <2>1. PICK i \in 1 .. Len(q) - 1 : y = q[i + 1]
    BY <1>1, LenProperties DEF ToSet
  <2>2. i + 1 \in 1 .. Len(q) /\ 1 \in 1 .. Len(q) /\ 1 < i + 1
    BY <1>1
  <2>3. <<q[1], q[i + 1]>> \in R
    BY <2>2 DEF OrderedBy
  <2> QED
    BY <1>1, <2>1, <2>3
<1> QED
  BY <1>2, <1>3 DEF OrderedBy

LEMMA OneRecord ==
  ASSUME NEW R, NEW s \in Seq(Records), NEW r \in Records, OrderedBy(R, s), \A x \in ToSet(s) : <<x, r>> \in R
  PROVE  OrderedBy(R, Append(s, r)) /\ Append(s, r) \in Seq(Records) /\ ToSet(Append(s, r)) = ToSet(s) \cup {r}
<1>1. <<r>> \in Seq(Records) /\ Len(<<r>>) = 1 /\ ToSet(<<r>>) = {r}
  BY DEF ToSet
<1>2. OrderedBy(R, <<r>>)
  BY <1>1 DEF OrderedBy
<1>3. Append(s, r) = s \o <<r>>
  BY AppendIsConcat
<1>4. OrderedBy(R, s \o <<r>>)
  BY <1>1, <1>2, ConcatOrdered
<1>5. s \o <<r>> \in Seq(Records) /\ ToSet(s \o <<r>>) = ToSet(s) \cup ToSet(<<r>>)
  BY <1>1, ConcatMembers
<1> QED
  BY <1>1, <1>3, <1>4, <1>5

(* The first record of the queue goes to a new file or to the last one. *)
LEMMA DroppedStored ==
  ASSUME NEW R, NEW fs, NEW q, Stored(R, fs, q), q # <<>>
  PROVE  Stored(R, fs, Tail(q))
BY Rest, RestInOrder DEF Stored, QueueInOrder

LEMMA NewFileStored ==
  ASSUME NEW R, NEW fs, NEW q, Stored(R, fs, q), q # <<>>,
         NEW f \in ArcFile, f.lines = <<Head(q)>>
  PROVE  /\ Stored(R, Append(fs, f), Tail(q)) /\ Lines(Append(fs, f)) = Lines(fs) \cup {Head(q)}
         /\ Append(fs, f) # <<>>
<1> DEFINE gs == Append(fs, f)
           n == Len(fs)
           r == Head(q)
<1>1. n \in Nat /\ r \in Records /\ r \in ToSet(q) /\ fs \in Seq(ArcFile) /\ q \in Seq(Records)
  BY Rest, LenProperties DEF Stored
<1>2. /\ gs \in Seq(ArcFile) /\ gs # <<>> /\ Len(gs) = n + 1 /\ gs[n + 1] = f
      /\ \A a \in 1 .. n : gs[a] = fs[a]
  BY <1>1, AppendProperties
<1>3. ToSet(<<r>>) = {r} /\ Len(<<r>>) = 1
  BY DEF ToSet
<1>4. OrderedBy(R, <<r>>)
  BY <1>3 DEF OrderedBy
<1>5. f.lines = <<r>>
  OBVIOUS
<1>6. \A x \in Lines(fs) : <<x, r>> \in R
  BY <1>1 DEF Stored, QueueInOrder
<1>7. \A y \in ToSet(Tail(q)) : <<r, y>> \in R
  BY <1>1, RestInOrder DEF Stored, QueueInOrder
<1>8. Tail(q) \in Seq(Records) /\ ToSet(Tail(q)) \subseteq ToSet(q) /\ OrderedBy(R, Tail(q))
  BY <1>1, Rest, RestInOrder DEF Stored, QueueInOrder
<1> HIDE DEF n, gs, r
<1>9. \A a \in 1 .. n + 1 : a = n + 1 \/ a \in 1 .. n
  BY <1>1
<1>10. \A a, b \in 1 .. n + 1 : a < b => a \in 1 .. n /\ a # n + 1
  BY <1>1
<1>11. Lines(gs) = Lines(fs) \cup {r}
  <2>1. \A a \in 1 .. n : a \in 1 .. n + 1
    BY <1>1
  <2>2. n + 1 \in 1 .. n + 1
    BY <1>1
  <2>3. \A x : x \in ToSet(gs[n + 1].lines) <=> x = r
    BY <1>2, <1>3, <1>5
  <2>4. ASSUME NEW x \in Lines(gs) PROVE x \in Lines(fs) \/ x = r
    <3>1. PICK a \in 1 .. n + 1 : x \in ToSet(gs[a].lines)
      BY <1>2, <2>4 DEF Lines
    <3>2. CASE a = n + 1
      BY <2>3, <3>1, <3>2
    <3>3. CASE a \in 1 .. n
      BY <1>2, <3>1, <3>3 DEF Lines, n
    <3> QED
      BY <1>9, <3>2, <3>3
  <2>5. ASSUME NEW x \in Lines(fs) PROVE x \in Lines(gs)
    <3>1. PICK a \in 1 .. n : x \in ToSet(fs[a].lines)
      BY <2>5 DEF Lines, n
    <3>2. a \in 1 .. Len(gs) /\ x \in ToSet(gs[a].lines)
      BY <1>2, <2>1, <3>1
    <3> QED
      BY <3>2 DEF Lines
  <2>6. r \in Lines(gs)
    <3>1. n + 1 \in 1 .. Len(gs) /\ r \in ToSet(gs[n + 1].lines)
      BY <1>2, <2>2, <2>3
    <3> QED
      BY <3>1 DEF Lines
  <2> QED
    BY <2>4, <2>5, <2>6
<1>12. \A a \in 1 .. n + 1 : OrderedBy(R, gs[a].lines)
  BY <1>2, <1>4, <1>5, <1>9 DEF Stored, FilesInOrder, n
<1>13. ASSUME NEW a \in 1 .. n + 1, NEW b \in 1 .. n + 1, a < b,
              NEW x \in ToSet(gs[a].lines), NEW y \in ToSet(gs[b].lines)
       PROVE  <<x, y>> \in R
  <2>1. a \in 1 .. n /\ x \in ToSet(fs[a].lines) /\ x \in Lines(fs)
    BY <1>2, <1>10, <1>13 DEF Lines, n
  <2>2. CASE b = n + 1
    <3>1. y = r
      BY <1>2, <1>3, <1>5, <2>2
    <3> QED
      BY <1>6, <2>1, <3>1
  <2>3. CASE b \in 1 .. n
    <3>1. y \in ToSet(fs[b].lines)
      BY <1>2, <2>3
    <3> QED
      BY <1>13, <2>1, <2>3, <3>1 DEF Stored, FilesInOrder, n
  <2> QED
    BY <1>9, <2>2, <2>3
<1>14. FilesInOrder(R, gs)
  BY <1>2, <1>12, <1>13 DEF FilesInOrder
<1>15. QueueInOrder(R, gs, Tail(q))
  BY <1>7, <1>8, <1>11 DEF Stored, QueueInOrder
<1>16. Stored(R, gs, Tail(q))
  BY <1>2, <1>8, <1>14, <1>15 DEF Stored
<1> QED
  BY <1>2, <1>11, <1>16 DEF gs, r

LastReplaced(fs, f) == [fs EXCEPT ![Len(fs)] = f]

LEMMA LastFileStored ==
  ASSUME NEW R, NEW fs, NEW q, Stored(R, fs, q), q # <<>>, fs # <<>>,
         NEW f \in ArcFile, f.lines = Append(fs[Len(fs)].lines, Head(q))
  PROVE  /\ Stored(R, LastReplaced(fs, f), Tail(q)) /\ LastReplaced(fs, f) # <<>>
         /\ Lines(LastReplaced(fs, f)) = Lines(fs) \cup {Head(q)}
<1> DEFINE n == Len(fs)
           gs == LastReplaced(fs, f)
           r == Head(q)
<1>1. n \in Nat /\ n # 0 /\ r \in Records /\ r \in ToSet(q) /\ fs \in Seq(ArcFile) /\ q \in Seq(Records)
  <2>1. fs \in Seq(ArcFile) /\ q \in Seq(Records)
    BY DEF Stored
  <2>2. Len(fs) \in Nat /\ Len(fs) # 0
    BY <2>1, LenProperties, EmptySeq
  <2> QED
    BY <2>1, <2>2, Rest
<1>2. /\ gs \in Seq(ArcFile) /\ Len(gs) = n
      /\ \A a \in 1 .. n : gs[a] = IF a = n THEN f ELSE fs[a]
  <2>1. n \in 1 .. Len(fs)
    BY <1>1
  <2> QED
    BY <1>1, <2>1, ExceptSeq DEF LastReplaced
<1>3. n \in 1 .. n /\ fs[n] \in ArcFile /\ fs[n].lines \in Seq(Records)
  <2>1. n \in 1 .. n
    BY <1>1
  <2>2. fs[n] \in ArcFile
    BY <1>1, <2>1, ElementOfSeq
  <2> QED
    BY <2>1, <2>2 DEF ArcFile
<1>4. f.lines = Append(fs[n].lines, r)
  OBVIOUS
<1>6. \A x \in Lines(fs) : <<x, r>> \in R
  BY <1>1 DEF Stored, QueueInOrder
<1>7. \A y \in ToSet(Tail(q)) : <<r, y>> \in R
  BY <1>1, RestInOrder DEF Stored, QueueInOrder
<1>8. Tail(q) \in Seq(Records) /\ ToSet(Tail(q)) \subseteq ToSet(q) /\ OrderedBy(R, Tail(q))
  BY <1>1, Rest, RestInOrder DEF Stored, QueueInOrder
<1> HIDE DEF n, gs, r
<1>9. ToSet(fs[n].lines) \subseteq Lines(fs)
  BY <1>3 DEF Lines, n
<1>10. ToSet(f.lines) = ToSet(fs[n].lines) \cup {r} /\ OrderedBy(R, f.lines)
  <2>1. OrderedBy(R, fs[n].lines)
    BY <1>3 DEF Stored, FilesInOrder, n
  <2> DEFINE l == fs[n].lines
  <2>2. \A x \in ToSet(l) : <<x, r>> \in R
    BY <1>6, <1>9
  <2>3. l \in Seq(Records) /\ OrderedBy(R, l)
    BY <1>3, <2>1
  <2> HIDE DEF l
  <2>4. OrderedBy(R, Append(l, r)) /\ ToSet(Append(l, r)) = ToSet(l) \cup {r}
    BY <1>1, <2>2, <2>3, OneRecord
  <2> QED
    BY <1>4, <2>4 DEF l
<1>11. \A a \in 1 .. n : ToSet(gs[a].lines) = ToSet(fs[a].lines) \cup (IF a = n THEN {r} ELSE {})
  BY <1>2, <1>10
<1>12. Lines(gs) = Lines(fs) \cup {r}
  <2>1. ASSUME NEW x \in Lines(gs) PROVE x \in Lines(fs) \/ x = r
    <3>1. PICK a \in 1 .. n : x \in ToSet(gs[a].lines)
      BY <1>2, <2>1 DEF Lines
    <3>2. x \in ToSet(fs[a].lines) \/ x = r
      BY <1>11, <3>1
    <3> QED
      BY <3>2 DEF Lines, n
  <2>2. ASSUME NEW x \in Lines(fs) PROVE x \in Lines(gs)
    <3>1. PICK a \in 1 .. n : x \in ToSet(fs[a].lines)
      BY <2>2 DEF Lines, n
    <3>2. a \in 1 .. Len(gs) /\ x \in ToSet(gs[a].lines)
      BY <1>2, <1>11, <3>1
    <3> QED
      BY <3>2 DEF Lines
  <2>3. r \in Lines(gs)
    <3>1. n \in 1 .. Len(gs) /\ r \in ToSet(gs[n].lines)
      BY <1>2, <1>3, <1>11
    <3> QED
      BY <3>1 DEF Lines
  <2> QED
    BY <2>1, <2>2, <2>3
<1>13. \A a \in 1 .. n : OrderedBy(R, gs[a].lines)
  BY <1>2, <1>10 DEF Stored, FilesInOrder, n
<1>14. ASSUME NEW a \in 1 .. n, NEW b \in 1 .. n, a < b,
              NEW x \in ToSet(gs[a].lines), NEW y \in ToSet(gs[b].lines)
       PROVE  <<x, y>> \in R
  <2>1. a # n
    BY <1>1, <1>14
  <2>2. x \in ToSet(fs[a].lines) /\ x \in Lines(fs)
    BY <1>11, <2>1 DEF Lines, n
  <2>3. CASE y = r
    BY <1>6, <2>2, <2>3
  <2>4. CASE y \in ToSet(fs[b].lines)
    BY <1>14, <2>2, <2>4 DEF Stored, FilesInOrder, n
  <2> QED
    BY <1>11, <2>3, <2>4
<1>15. FilesInOrder(R, gs)
  BY <1>2, <1>13, <1>14 DEF FilesInOrder
<1>16. QueueInOrder(R, gs, Tail(q))
  BY <1>7, <1>8, <1>12 DEF Stored, QueueInOrder
<1>17. gs # <<>>
  BY <1>1, <1>2, EmptySeq
<1>18. Stored(R, gs, Tail(q))
  BY <1>2, <1>8, <1>15, <1>16 DEF Stored
<1> QED
  BY <1>12, <1>17, <1>18 DEF gs, r, n

(* The queue takes one more. *)
LEMMA TakenStored ==
  ASSUME NEW acc \in Seq(Records), NEW fs, NEW q, NEW r \in Records, Stored(Came(acc), fs, q),
         Lines(fs) \cup ToSet(q) \subseteq ToSet(acc)
  PROVE  /\ Stored(Came(Append(acc, r)), fs, Append(q, r))
         /\ ToSet(Append(q, r)) = ToSet(q) \cup {r} /\ ToSet(Append(acc, r)) = ToSet(acc) \cup {r}
         /\ Append(acc, r) \in Seq(Records)
<1> DEFINE R == Came(acc)
           P == Came(Append(acc, r))
<1>1. /\ Append(acc, r) \in Seq(Records) /\ Len(Append(acc, r)) = Len(acc) + 1 /\ Len(acc) \in Nat
      /\ Append(acc, r)[Len(acc) + 1] = r
      /\ \A i \in 1 .. Len(acc) : Append(acc, r)[i] = acc[i]
  BY AppendProperties, LenProperties
<1>2. \A i \in 1 .. Len(acc) : i \in 1 .. Len(acc) + 1 /\ i < Len(acc) + 1
  BY <1>1
<1>3. Len(acc) + 1 \in 1 .. Len(acc) + 1
  BY <1>1
<1>4. R \subseteq P
  <2>1. ASSUME NEW p \in R PROVE p \in P
    <3>1. PICK i \in 1 .. Len(acc), j \in 1 .. Len(acc) : i < j /\ acc[i] = p[1] /\ acc[j] = p[2]
      BY DEF Came
    <3>2. /\ i \in 1 .. Len(Append(acc, r)) /\ j \in 1 .. Len(Append(acc, r)) /\ i < j
          /\ Append(acc, r)[i] = p[1] /\ Append(acc, r)[j] = p[2] /\ p \in Records \X Records
      BY <1>1, <1>2, <3>1 DEF Came
    <3> QED
      BY <3>2 DEF Came
  <2> HIDE DEF R, P
  <2> QED
    BY <2>1
<1>5. \A x \in ToSet(acc) : <<x, r>> \in P
  <2>1. ASSUME NEW x \in ToSet(acc) PROVE <<x, r>> \in P
    <3>1. PICK i \in 1 .. Len(acc) : acc[i] = x
      BY LenProperties DEF ToSet
    <3>2. x \in Records
      BY <3>1, ElementOfSeq
    <3>3. /\ i \in 1 .. Len(Append(acc, r)) /\ Len(acc) + 1 \in 1 .. Len(Append(acc, r)) /\ i < Len(acc) + 1
          /\ Append(acc, r)[i] = x /\ Append(acc, r)[Len(acc) + 1] = r
      BY <1>1, <1>2, <1>3, <3>1
    <3>4. <<x, r>> \in Records \X Records /\ <<x, r>>[1] = x /\ <<x, r>>[2] = r
      BY <3>2
    <3> QED
      BY <3>3, <3>4 DEF Came
  <2> QED
    BY <2>1
<1> HIDE DEF R, P
<1>6. FilesInOrder(P, fs)
  BY <1>4 DEF Stored, FilesInOrder, OrderedBy, R
<1>7. OrderedBy(P, q) /\ q \in Seq(Records)
  BY <1>4 DEF Stored, QueueInOrder, OrderedBy, R
<1>8. OrderedBy(P, Append(q, r)) /\ Append(q, r) \in Seq(Records) /\ ToSet(Append(q, r)) = ToSet(q) \cup {r}
  BY <1>5, <1>7, OneRecord
<1>9. ToSet(Append(acc, r)) = ToSet(acc) \cup {r}
  <2>1. OrderedBy(Records \X Records, acc) /\ \A x \in ToSet(acc) : <<x, r>> \in Records \X Records
    BY ElementOfSeq, LenProperties DEF OrderedBy, ToSet
  <2> QED
    BY <2>1, OneRecord
<1>10. \A x \in Lines(fs), y \in ToSet(q) : <<x, y>> \in P
  BY <1>4 DEF Stored, QueueInOrder, R
<1>11. QueueInOrder(P, fs, Append(q, r))
  BY <1>5, <1>8, <1>10 DEF QueueInOrder
<1>12. Stored(P, fs, Append(q, r))
  BY <1>6, <1>8, <1>11 DEF Stored
<1> QED
  BY <1>1, <1>8, <1>9, <1>12 DEF P

-----------------------------------------------------------------------------
(* A step moves records from the queue to the files or takes them away. *)
StoreStep ==
  /\ Stored(Came(accepted), arcFiles', arcQueue')
  /\ Lines(arcFiles') \cup ToSet(arcQueue') \subseteq Lines(arcFiles) \cup ToSet(arcQueue)
  /\ ToSet(arcQueue') \subseteq ToSet(arcQueue)
  /\ fileOpen' \in BOOLEAN /\ (fileOpen' => arcFiles' # <<>>)

LEMMA OpenOk ==
  ASSUME NEW open \in BOOLEAN, NEW fs, open => fs # <<>>, NEW now, now = FALSE \/ now = open
  PROVE  now \in BOOLEAN /\ (now => fs # <<>>)
<1>1. CASE now = FALSE
  BY <1>1
<1>2. CASE now = open
  BY <1>2
<1> QED
  BY <1>1, <1>2

LEMMA StoreSame ==
  ASSUME ArcInv, UNCHANGED <<arcFiles, arcQueue>>, fileOpen' = FALSE \/ fileOpen' = fileOpen
  PROVE  StoreStep
<1>1. fileOpen' \in BOOLEAN /\ (fileOpen' => arcFiles # <<>>)
  <2>1. fileOpen \in BOOLEAN /\ (fileOpen => arcFiles # <<>>)
    BY DEF ArcInv
  <2> QED
    BY <2>1, OpenOk
<1>2. /\ Stored(Came(accepted), arcFiles', arcQueue') /\ arcFiles' = arcFiles
      /\ Lines(arcFiles') = Lines(arcFiles) /\ ToSet(arcQueue') = ToSet(arcQueue)
  BY DEF ArcInv
<1> QED
  BY <1>1, <1>2 DEF StoreStep

LEMMA WrittenStored ==
  ASSUME NEW R, NEW q, Stored(R, arcFiles, q), q # <<>>, fileOpen => arcFiles # <<>>
  PROVE  LET gs == WrittenTo(Head(q))
         IN /\ Stored(R, gs, Tail(q)) /\ gs # <<>>
            /\ Lines(gs) \cup ToSet(Tail(q)) \subseteq Lines(arcFiles) \cup ToSet(q)
<1> DEFINE r == Head(q)
           f == [NewFile EXCEPT !.lines = <<r>>]
           n == Len(arcFiles)
           g == [arcFiles[n] EXCEPT !.lines = Append(@, r)]
<1>1. q \in Seq(Records) /\ arcFiles \in Seq(ArcFile)
  BY DEF Stored
<1>2. r \in Records /\ r \in ToSet(q) /\ ToSet(Tail(q)) \subseteq ToSet(q)
  BY <1>1, Rest
<1>3. CASE fileOpen /\ ~otherDay /\ Fits(Last(arcFiles), r)
  <2>1. arcFiles # <<>> /\ n \in Nat /\ n # 0
    BY <1>1, <1>3, LenProperties, EmptySeq
  <2>2. n \in 1 .. Len(arcFiles)
    BY <2>1
  <2>3. arcFiles[n] \in ArcFile /\ arcFiles[n].lines \in Seq(Records) /\ arcFiles[n].aged \in BOOLEAN
    <3>1. arcFiles[n] \in ArcFile
      BY <1>1, <2>2, ElementOfSeq
    <3> QED
      BY <3>1 DEF ArcFile
  <2>4. Append(arcFiles[n].lines, r) \in Seq(Records)
    BY <1>2, <2>3, AppendProperties
  <2>5. g \in ArcFile /\ g.lines = Append(arcFiles[n].lines, r)
    BY <2>3, <2>4 DEF ArcFile
  <2> DEFINE gs == WrittenTo(r)
  <2>6. gs = LastReplaced(arcFiles, g)
    BY <1>3 DEF WrittenTo, LastReplaced
  <2> HIDE DEF g, gs
  <2>7. Stored(R, gs, Tail(q)) /\ gs # <<>> /\ Lines(gs) = Lines(arcFiles) \cup {r}
    BY <2>1, <2>5, <2>6, LastFileStored
  <2> QED
    BY <1>2, <2>7 DEF gs
<1>4. CASE ~(fileOpen /\ ~otherDay /\ Fits(Last(arcFiles), r))
  <2>1. f \in ArcFile /\ f.lines = <<r>>
    <3>1. NewFile \in ArcFile
      BY EmptySeq DEF NewFile, ArcFile
    <3>2. <<r>> \in Seq(Records)
      BY <1>2
    <3> QED
      BY <3>1, <3>2 DEF ArcFile
  <2>2. WrittenTo(r) = Append(arcFiles, f)
    BY <1>4 DEF WrittenTo
  <2> HIDE DEF f
  <2>3. /\ Stored(R, Append(arcFiles, f), Tail(q)) /\ Append(arcFiles, f) # <<>>
        /\ Lines(Append(arcFiles, f)) = Lines(arcFiles) \cup {r}
    BY <2>1, NewFileStored
  <2> QED
    BY <1>2, <2>2, <2>3
<1> QED
  BY <1>3, <1>4

LEMMA KeptStored ==
  ASSUME NEW R, NEW fs, NEW q, Stored(R, fs, q)
  PROVE  Stored(R, Kept(fs, TRUE), q) /\ Lines(Kept(fs, TRUE)) \subseteq Lines(fs)
<1>1. fs \in Seq(ArcFile)
  BY DEF Stored
<1>2. Kept(fs, TRUE) \in Seq(ArcFile) /\ Shrinks(fs, Kept(fs, TRUE))
  BY <1>1, KeptShrinks
<1> QED
  BY <1>2, ShrinksStored

LEMMA WriteStep ==
  ASSUME ArcInv, arcQueue # <<>>, writeItem(Head(arcQueue))
  PROVE  StoreStep
<1> DEFINE R == Came(accepted)
           gs == WrittenTo(Head(arcQueue))
<1>1. Stored(R, arcFiles, arcQueue) /\ arcQueue \in Seq(Records) /\ (fileOpen => arcFiles # <<>>) /\ fileOpen \in BOOLEAN
  BY DEF ArcInv, Stored
<1>2. arcQueue' = Tail(arcQueue)
  BY DEF writeItem
<1> HIDE DEF R
<1>3. CASE arcFiles' = arcFiles /\ (fileOpen' = FALSE \/ fileOpen' = fileOpen)
  <2>1. Stored(R, arcFiles, Tail(arcQueue)) /\ ToSet(Tail(arcQueue)) \subseteq ToSet(arcQueue)
    BY <1>1, DroppedStored, Rest
  <2>2. fileOpen' \in BOOLEAN /\ (fileOpen' => arcFiles' # <<>>)
    BY <1>1, <1>3, OpenOk
  <2>3. /\ Stored(R, arcFiles', arcQueue') /\ Lines(arcFiles') = Lines(arcFiles)
        /\ ToSet(arcQueue') \subseteq ToSet(arcQueue)
    BY <1>2, <1>3, <2>1
  <2> QED
    BY <2>2, <2>3 DEF StoreStep, R
<1>4. CASE \/ arcFiles' = gs /\ fileOpen' = TRUE
           \/ arcFiles' = Kept(gs, TRUE) /\ fileOpen' = FALSE
  <2>1. /\ Stored(R, gs, Tail(arcQueue)) /\ gs # <<>>
        /\ Lines(gs) \cup ToSet(Tail(arcQueue)) \subseteq Lines(arcFiles) \cup ToSet(arcQueue)
    BY <1>1, WrittenStored
  <2>2. ToSet(Tail(arcQueue)) \subseteq ToSet(arcQueue)
    BY <1>1, Rest
  <2> HIDE DEF gs
  <2>3. Stored(R, Kept(gs, TRUE), Tail(arcQueue)) /\ Lines(Kept(gs, TRUE)) \subseteq Lines(gs)
    BY <2>1, KeptStored
  <2> QED
    BY <1>2, <1>4, <2>1, <2>2, <2>3 DEF StoreStep, R
<1> QED
  BY <1>3, <1>4 DEF writeItem, Closed

LEMMA CleanupStep ==
  ASSUME ArcInv, cleanup, arcQueue' = arcQueue
  PROVE  StoreStep
<1> DEFINE R == Came(accepted)
           kept == Kept(arcFiles, TRUE)
<1>1. Stored(R, arcFiles, arcQueue) /\ (fileOpen => arcFiles # <<>>) /\ fileOpen \in BOOLEAN
  BY DEF ArcInv
<1>2. CASE arcFiles' = arcFiles /\ fileOpen' = fileOpen
  BY <1>2, StoreSame
<1>3. CASE arcFiles' = kept /\ (fileOpen' = FALSE \/ fileOpen' = fileOpen) /\ (fileOpen' => kept # <<>>)
  <2>1. Stored(R, kept, arcQueue) /\ Lines(kept) \subseteq Lines(arcFiles)
    BY <1>1, KeptStored
  <2> HIDE DEF kept
  <2> QED
    BY <1>1, <1>3, <2>1 DEF StoreStep
<1> QED
  BY <1>1, <1>2, <1>3 DEF cleanup, Closed, diskVars

(* What a step that takes no record into the queue has to keep. *)
CallerOk(c) == /\ c \in CallRecord
               /\ c.before \subseteq ToSet(accepted)
PhaseOk(close, at) == (close = "no" => at \notin {"stop", "done"}) /\ (close = "closed" => at = "done")

LEMMA NotTaken ==
  ASSUME ArcInv, StoreStep, accepted' = accepted,
         producer' \in [Records -> {"new", "checked", "done"}], \A r \in ToSet(accepted) : producer'[r] = "done",
         CallerOk(caller'), PhaseOk(closing', worker'.at),
         erased' \cup flushed' \cup owed' \subseteq ToSet(accepted),
         erased' \cap (Lines(arcFiles') \cup ToSet(arcQueue')) = {}, flushed' \cap ToSet(arcQueue') = {},
         worker'.at = "done" => owed' \cap ToSet(arcQueue') = {}
  PROVE  ArcInv'
BY DEF ArcInv, StoreStep, CallerOk, PhaseOk

LEMMA OnlyStore ==
  ASSUME ArcInv, StoreStep, UNCHANGED <<producer, historyVars>>, CallerOk(caller'), PhaseOk(closing', worker'.at),
         worker'.at = "done" => worker.at = "done" \/ arcQueue' = <<>>
  PROVE  ArcInv'
<1>1. ToSet(<<>>) = {}
  BY DEF ToSet
<1>2. erased' \cap (Lines(arcFiles') \cup ToSet(arcQueue')) = {}
  BY DEF ArcInv, StoreStep, historyVars
<1>3. flushed' \cap ToSet(arcQueue') = {}
  BY DEF ArcInv, StoreStep, historyVars
<1>4. worker'.at = "done" => owed' \cap ToSet(arcQueue') = {}
  BY <1>1 DEF ArcInv, StoreStep, historyVars
<1>5. /\ accepted' = accepted /\ producer' \in [Records -> {"new", "checked", "done"}]
      /\ \A r \in ToSet(accepted) : producer'[r] = "done"
      /\ erased' \cup flushed' \cup owed' \subseteq ToSet(accepted)
  BY DEF ArcInv, historyVars
<1> QED
  BY <1>2, <1>3, <1>4, <1>5, NotTaken

LEMMA CallerPhase == ASSUME ArcInv PROVE CallerOk(caller) /\ CallerOk(NoCall) /\ PhaseOk(closing, worker.at)
BY DEF ArcInv, CallerOk, PhaseOk, NoCall, CallRecord

(* The producers and the goroutine. *)
LEMMA Producing ==
  ASSUME ArcInv, NEW r \in Records, appendValue(r) \/ enqueue(r)
  PROVE  ArcInv'
<1>1. /\ r \notin ToSet(accepted) /\ accepted \in Seq(Records) /\ producer \in [Records -> {"new", "checked", "done"}]
      /\ Stored(Came(accepted), arcFiles, arcQueue) /\ Lines(arcFiles) \cup ToSet(arcQueue) \subseteq ToSet(accepted)
      /\ \A s \in ToSet(accepted) : producer[s] = "done"
  BY DEF ArcInv, appendValue, enqueue
<1>2. /\ producer' \in [Records -> {"new", "checked", "done"}]
      /\ \A s \in ToSet(accepted) : producer'[s] = "done"
  <2>1. PICK v \in {"checked", "done"} : producer' = [producer EXCEPT ![r] = v]
    BY DEF appendValue, enqueue
  <2> QED
    BY <1>1, <2>1
<1>3. UNCHANGED <<worker, diskVars, caller, closing, erased, flushed, owed>>
  BY DEF appendValue, enqueue, historyVars
<1>4. CASE accepted' = accepted /\ arcQueue' = arcQueue
  <2>1. StoreStep
    BY <1>3, <1>4, StoreSame DEF diskVars
  <2>2. CallerOk(caller') /\ PhaseOk(closing', worker'.at)
    BY <1>3, CallerPhase
  <2>3. /\ erased' \cup flushed' \cup owed' \subseteq ToSet(accepted)
        /\ erased' \cap (Lines(arcFiles') \cup ToSet(arcQueue')) = {} /\ flushed' \cap ToSet(arcQueue') = {}
        /\ (worker'.at = "done" => owed' \cap ToSet(arcQueue') = {})
    BY <1>3, <1>4 DEF ArcInv, diskVars
  <2> QED
    BY <1>2, <1>4, <2>1, <2>2, <2>3, NotTaken
<1>5. CASE /\ arcQueue' = Append(arcQueue, r) /\ accepted' = Append(accepted, r)
           /\ producer' = [producer EXCEPT ![r] = "done"]
  <2>1. /\ Stored(Came(accepted'), arcFiles, arcQueue') /\ accepted' \in Seq(Records)
        /\ ToSet(arcQueue') = ToSet(arcQueue) \cup {r} /\ ToSet(accepted') = ToSet(accepted) \cup {r}
    BY <1>1, <1>5, TakenStored
  <2>2. \A s \in ToSet(accepted') : producer'[s] = "done"
    BY <1>1, <1>2, <1>5, <2>1
  <2>3. erased \cup flushed \cup owed \cup caller.before \subseteq ToSet(accepted)
    BY DEF ArcInv
  <2>4. r \notin erased \cup flushed \cup owed
    BY <1>1, <2>3
  <2>5. Lines(arcFiles) \cup ToSet(arcQueue') \subseteq ToSet(accepted')
    BY <1>1, <2>1
  <2>6. /\ erased \cap (ToSet(arcQueue') \cup Lines(arcFiles)) = {} /\ flushed \cap ToSet(arcQueue') = {}
        /\ (worker.at = "done" => owed \cap ToSet(arcQueue') = {})
    BY <2>1, <2>4 DEF ArcInv
  <2>7. erased \cup flushed \cup owed \cup caller.before \subseteq ToSet(accepted')
    BY <2>1, <2>3
  <2>8. /\ arcFiles' = arcFiles /\ fileOpen' = fileOpen /\ caller' = caller /\ erased' = erased /\ flushed' = flushed
        /\ owed' = owed /\ worker' = worker /\ closing' = closing
    BY <1>3 DEF diskVars
  <2>9. /\ fileOpen \in BOOLEAN /\ (fileOpen => arcFiles # <<>>)
        /\ caller \in CallRecord
        /\ (closing = "no" => worker.at \notin {"stop", "done"})
        /\ (closing = "closed" => worker.at = "done")
    BY DEF ArcInv
  <2> QED
    BY <1>2, <2>1, <2>2, <2>5, <2>6, <2>7, <2>8, <2>9 DEF ArcInv
<1> QED
  BY <1>4, <1>5 DEF appendValue, enqueue, historyVars

LEMMA Serving ==
  ASSUME ArcInv, TakeRecord \/ TakeCommand \/ drainQueue \/ discardQueue
  PROVE  ArcInv'
<1>1. UNCHANGED <<producer, historyVars>>
  BY DEF TakeRecord, TakeCommand, drainQueue, discardQueue
<1>2. CallerOk(caller')
  <2>1. caller' = caller
    BY DEF TakeRecord, TakeCommand, drainQueue, discardQueue
  <2> QED
    BY <2>1, CallerPhase
<1>3. worker.at # "done" /\ worker'.at \notin {"stop", "done"} /\ closing # "closed" /\ closing' = closing
  BY DEF TakeRecord, TakeCommand, drainQueue, discardQueue, Idle, ArcInv
<1>4. PhaseOk(closing', worker'.at)
  BY <1>3 DEF PhaseOk
<1>5. CASE arcQueue # <<>> /\ writeItem(Head(arcQueue))
  BY <1>1, <1>2, <1>3, <1>4, <1>5, WriteStep, OnlyStore
<1>6. CASE UNCHANGED <<arcQueue, diskVars>>
  BY <1>1, <1>2, <1>3, <1>4, <1>6, StoreSame, OnlyStore DEF diskVars
<1>7. CASE arcQueue # <<>> /\ arcQueue' = Tail(arcQueue) /\ UNCHANGED diskVars
  <2>1. arcFiles' = arcFiles /\ fileOpen' = fileOpen
    BY <1>7 DEF diskVars
  <2>2. Stored(Came(accepted), arcFiles, Tail(arcQueue)) /\ ToSet(Tail(arcQueue)) \subseteq ToSet(arcQueue)
    <3>1. Stored(Came(accepted), arcFiles, arcQueue) /\ arcQueue \in Seq(Records)
      BY DEF ArcInv, Stored
    <3> QED
      BY <1>7, <3>1, DroppedStored, Rest
  <2>3. fileOpen \in BOOLEAN /\ (fileOpen => arcFiles # <<>>)
    BY DEF ArcInv
  <2>4. StoreStep
    BY <1>7, <2>1, <2>2, <2>3 DEF StoreStep
  <2> QED
    BY <1>1, <1>2, <1>3, <1>4, <2>4, OnlyStore
<1> QED
  BY <1>5, <1>6, <1>7 DEF TakeRecord, TakeCommand, drainQueue, discardQueue

LEMMA NothingStored ==
  ASSUME ArcInv
  PROVE  /\ Lines(<<>>) = {} /\ ToSet(<<>>) = {}
         /\ Stored(Came(accepted), <<>>, arcQueue) /\ Stored(Came(accepted), arcFiles, <<>>)
<1>1. arcFiles \in Seq(ArcFile) /\ Stored(Came(accepted), arcFiles, arcQueue)
  BY DEF ArcInv, Stored
<1>2. Stored(Came(accepted), <<>>, arcQueue)
  BY <1>1, NoFiles, ShrinksStored
<1>3. ToSet(<<>>) = {} /\ Lines(<<>>) = {} /\ <<>> \in Seq(Records) /\ Len(<<>>) = 0
  BY EmptySeq DEF ToSet, Lines
<1>4. OrderedBy(Came(accepted), <<>>)
  BY <1>3 DEF OrderedBy
<1>5. Stored(Came(accepted), arcFiles, <<>>)
  BY <1>1, <1>3, <1>4 DEF Stored, QueueInOrder
<1> QED
  BY <1>2, <1>3, <1>5

LEMMA Clearing ==
  ASSUME ArcInv, clearFiles, arcQueue = <<>>, arcQueue' = arcQueue
  PROVE  StoreStep /\ (arcFiles' = <<>> \/ erased' = erased)
<1>1. fileOpen' = FALSE
  BY DEF clearFiles, Closed
<1>2. CASE arcFiles' = <<>>
  BY <1>1, <1>2, NothingStored DEF StoreStep
<1>3. CASE arcFiles # <<>> /\ arcFiles' = Tail(arcFiles) /\ erased' = erased
  <2>1. arcFiles \in Seq(ArcFile) /\ Stored(Came(accepted), arcFiles, arcQueue)
    BY DEF ArcInv, Stored
  <2>2. Len(arcFiles) \in Nat /\ Len(arcFiles) # 0
    BY <1>3, <2>1, LenProperties, EmptySeq
  <2>3. Tail(arcFiles) = SubSeq(arcFiles, 1 + 1, Len(arcFiles)) /\ 1 \in 0 .. Len(arcFiles)
    BY <1>3, <2>1, <2>2, TailIsSubSeq
  <2>4. Tail(arcFiles) \in Seq(ArcFile) /\ Shrinks(arcFiles, Tail(arcFiles))
    BY <2>1, <2>3, Suffix
  <2>5. Stored(Came(accepted), Tail(arcFiles), arcQueue) /\ Lines(Tail(arcFiles)) \subseteq Lines(arcFiles)
    BY <2>1, <2>4, ShrinksStored
  <2> QED
    BY <1>1, <1>3, <2>5 DEF StoreStep
<1> QED
  BY <1>2, <1>3 DEF clearFiles

LEMMA Handling ==
  ASSUME ArcInv, handleCommand
  PROVE  ArcInv'
<1>1. /\ arcQueue = <<>> /\ arcQueue' = arcQueue /\ worker'.at = "select" /\ closing' = closing /\ accepted' = accepted
      /\ producer' = producer /\ owed' = owed /\ worker.at \in {"drain", "discard"}
  BY DEF handleCommand, QueueServed, Idle
<1>2. PhaseOk(closing', worker'.at)
  BY <1>1 DEF ArcInv, PhaseOk
<1>3. CallerOk(caller')
  BY CallerPhase DEF handleCommand, clearFiles, Answered
<1>4. ToSet(arcQueue') = {}
  BY <1>1, NothingStored
<1>5. StoreStep /\ (arcFiles' = <<>> \/ erased' = erased)
  <2>1. CASE worker.by = "reconfigure" /\ erased' = erased /\ cleanup
    BY <1>1, <2>1, CleanupStep
  <2>2. CASE erased' = erased /\ Closed /\ UNCHANGED arcFiles
    BY <1>1, <2>2, StoreSame DEF Closed
  <2>3. CASE erased' = erased /\ UNCHANGED diskVars
    BY <1>1, <2>3, StoreSame DEF diskVars
  <2>4. CASE clearFiles
    BY <1>1, <2>4, Clearing
  <2> QED
    BY <2>1, <2>2, <2>3, <2>4 DEF handleCommand
<1>6. erased' \subseteq ToSet(accepted) /\ flushed' \subseteq ToSet(accepted)
  BY DEF ArcInv, handleCommand, clearFiles
<1>7. erased' \cap (Lines(arcFiles') \cup ToSet(arcQueue')) = {}
  <2>1. CASE arcFiles' = <<>>
    BY <1>4, <2>1, NothingStored
  <2>2. CASE erased' = erased
    BY <1>5, <2>2 DEF ArcInv, StoreStep
  <2> QED
    BY <1>5, <2>1, <2>2
<1>8. /\ producer' \in [Records -> {"new", "checked", "done"}] /\ \A r \in ToSet(accepted) : producer'[r] = "done"
      /\ erased' \cup flushed' \cup owed' \subseteq ToSet(accepted)
  BY <1>1, <1>6 DEF ArcInv
<1> QED
  BY <1>1, <1>2, <1>3, <1>4, <1>5, <1>7, <1>8, NotTaken

LEMMA Stopping ==
  ASSUME ArcInv, CleanupTicks \/ StopStep
  PROVE  ArcInv'
<1>1. UNCHANGED <<producer, historyVars>> /\ caller' = caller /\ closing' = closing
  BY DEF CleanupTicks, StopStep
<1>2. CallerOk(caller')
  BY <1>1, CallerPhase
<1>3. CASE CleanupTicks
  <2>1. StoreStep
    BY <1>3, CleanupStep DEF CleanupTicks
  <2>2. PhaseOk(closing', worker'.at) /\ worker'.at # "done"
    BY <1>3, CallerPhase DEF CleanupTicks, Idle
  <2> QED
    BY <1>1, <1>2, <2>1, <2>2, OnlyStore
<1>4. CASE worker = Idle /\ closing = "stopping" /\ worker' = [Idle EXCEPT !.at = "stop"] /\ UNCHANGED <<arcQueue, diskVars>>
  <2>1. StoreStep
    BY <1>4, StoreSame DEF diskVars
  <2>2. worker'.at = "stop"
    BY <1>4 DEF Idle
  <2>3. PhaseOk(closing', worker'.at)
    BY <1>1, <1>4, <2>2 DEF PhaseOk
  <2> QED
    BY <1>1, <1>2, <2>1, <2>2, <2>3, OnlyStore
<1>5. CASE worker.at = "stop" /\ arcQueue # <<>> /\ writeItem(Head(arcQueue)) /\ UNCHANGED worker
  <2>1. PhaseOk(closing', worker'.at) /\ worker'.at = "stop"
    BY <1>1, <1>5, CallerPhase
  <2> QED
    BY <1>1, <1>2, <1>5, <2>1, WriteStep, OnlyStore
<1>6. CASE worker.at = "stop" /\ QueueServed /\ worker' = [Idle EXCEPT !.at = "done"] /\ Closed /\ UNCHANGED <<arcQueue, arcFiles>>
  <2>1. StoreStep
    BY <1>6, StoreSame DEF Closed
  <2>2. arcQueue' = <<>> /\ worker'.at = "done"
    BY <1>6 DEF QueueServed, Idle
  <2>3. PhaseOk(closing', worker'.at)
    BY <1>1, <1>6, <2>2, CallerPhase DEF PhaseOk
  <2> QED
    BY <1>1, <1>2, <2>1, <2>2, <2>3, OnlyStore
<1> QED
  BY <1>3, <1>4, <1>5, <1>6 DEF StopStep, drainAndClose

(* The administrator, the restarts and the days. *)
LEMMA Asking ==
  ASSUME ArcInv, \/ \E c \in arcScene.configs : Configure(c)
                 \/ \E what \in arcScene.events \cap {"flush", "clear"} : Call(what)
                 \/ SendCommand \/ SeesStop
  PROVE  ArcInv'
<1>1. /\ UNCHANGED <<producer, historyVars>> /\ worker' = worker /\ closing' = closing
      /\ UNCHANGED <<arcQueue, diskVars>>
  BY DEF Configure, Call, SendCommand, SeesStop
<1>2. StoreStep
  BY <1>1, StoreSame DEF diskVars
<1>3. PhaseOk(closing', worker'.at)
  BY <1>1, CallerPhase
<1>4. CallerOk(caller')
  <2>1. CASE caller' = caller \/ caller' = NoCall
    BY <2>1, CallerPhase
  <2>2. CASE \E what \in arcScene.events \cap {"flush", "clear"} : Call(what)
    <3>1. Range(accepted) = ToSet(accepted) /\ ToSet(accepted) \subseteq Records
      BY ElementOfSeq, LenProperties DEF Range, ToSet, ArcInv
    <3>2. PICK what \in {"flush", "clear"} : caller' = [does |-> what, phase |-> "sending", before |-> ToSet(accepted)]
      BY <2>2, <3>1 DEF Call
    <3> QED
      BY <3>1, <3>2 DEF CallerOk, CallRecord
  <2>3. CASE SendCommand
    <3>1. caller' = [caller EXCEPT !.phase = "waiting"]
      BY <2>3 DEF SendCommand
    <3> QED
      BY <3>1, CallerPhase DEF CallerOk, CallRecord
  <2> QED
    BY <2>1, <2>2, <2>3 DEF Configure, SeesStop
<1> QED
  BY <1>1, <1>2, <1>3, <1>4, OnlyStore

LEMMA Closing ==
  ASSUME ArcInv, Close
  PROVE  ArcInv'
<1>1. /\ UNCHANGED <<producer, worker, arcQueue, diskVars, caller>> /\ accepted' = accepted /\ erased' = erased
      /\ flushed' = flushed
  BY DEF Close
<1>2. StoreStep
  BY <1>1, StoreSame DEF diskVars
<1>3. CallerOk(caller') /\ PhaseOk(closing', worker'.at)
  BY <1>1, CallerPhase DEF Close, PhaseOk
<1>4. owed' \subseteq ToSet(accepted) /\ (worker'.at = "done" => owed' \cap ToSet(arcQueue') = {})
  <2>1. CASE closing = "no" /\ owed' = Range(accepted)
    BY <1>1, <2>1 DEF ArcInv, Range, ToSet
  <2>2. CASE UNCHANGED owed
    BY <1>1, <2>2 DEF ArcInv
  <2> QED
    BY <2>1, <2>2 DEF Close
<1>5. /\ producer' \in [Records -> {"new", "checked", "done"}] /\ \A r \in ToSet(accepted) : producer'[r] = "done"
      /\ erased' \cup flushed' \subseteq ToSet(accepted)
      /\ erased' \cap (Lines(arcFiles') \cup ToSet(arcQueue')) = {} /\ flushed' \cap ToSet(arcQueue') = {}
  BY <1>1 DEF ArcInv, diskVars
<1> QED
  BY <1>1, <1>2, <1>3, <1>4, <1>5, NotTaken

LEMMA Restarting ==
  ASSUME ArcInv, newLogArchive
  PROVE  ArcInv'
<1>1. /\ arcQueue' = <<>> /\ worker'.at = "select" /\ closing' = "no" /\ fileOpen' = FALSE /\ arcFiles' = arcFiles
      /\ caller' = caller /\ UNCHANGED historyVars
  BY DEF newLogArchive, Closed, Idle
<1>2. StoreStep
  BY <1>1, NothingStored DEF StoreStep
<1>3. CallerOk(caller') /\ PhaseOk(closing', worker'.at)
  BY <1>1, CallerPhase DEF PhaseOk
<1>4. /\ producer' \in [Records -> {"new", "checked", "done"}]
      /\ \A r \in ToSet(accepted) : producer'[r] = "done"
  <2>1. producer' = [r \in Records |-> IF producer[r] = "checked" THEN "done" ELSE producer[r]]
    BY DEF newLogArchive
  <2>2. producer \in [Records -> {"new", "checked", "done"}] /\ \A r \in ToSet(accepted) : producer[r] = "done"
    BY DEF ArcInv
  <2>3. ToSet(accepted) \subseteq Records
    BY ElementOfSeq, LenProperties DEF ToSet, ArcInv
  <2> QED
    BY <2>1, <2>2, <2>3
<1>5. /\ erased' \cup flushed' \cup owed' \subseteq ToSet(accepted)
      /\ erased' \cap (Lines(arcFiles') \cup ToSet(arcQueue')) = {} /\ flushed' \cap ToSet(arcQueue') = {}
      /\ (worker'.at = "done" => owed' \cap ToSet(arcQueue') = {})
  BY <1>1, NothingStored DEF ArcInv, historyVars
<1>6. accepted' = accepted
  BY <1>1 DEF historyVars
<1> QED
  BY <1>2, <1>3, <1>4, <1>5, <1>6, NotTaken

LEMMA Passing ==
  ASSUME ArcInv, DayPasses
  PROVE  ArcInv'
<1>1. /\ UNCHANGED <<producer, historyVars, arcQueue>> /\ worker' = worker /\ closing' = closing /\ caller' = caller
      /\ fileOpen' = fileOpen
  BY DEF DayPasses
<1>2. CallerOk(caller') /\ PhaseOk(closing', worker'.at)
  BY <1>1, CallerPhase
<1>3. CASE UNCHANGED arcFiles
  BY <1>1, <1>2, <1>3, StoreSame, OnlyStore
<1>4. CASE \E i \in DOMAIN arcFiles : arcFiles' = [arcFiles EXCEPT ![i].aged = TRUE]
  <2>1. arcFiles \in Seq(ArcFile) /\ Stored(Came(accepted), arcFiles, arcQueue)
    BY DEF ArcInv, Stored
  <2>2. arcFiles' \in Seq(ArcFile) /\ Shrinks(arcFiles, arcFiles') /\ Len(arcFiles') = Len(arcFiles)
    BY <1>4, <2>1, OlderFile
  <2>3. Stored(Came(accepted), arcFiles', arcQueue) /\ Lines(arcFiles') \subseteq Lines(arcFiles)
    BY <2>1, <2>2, ShrinksStored
  <2>4. arcFiles # <<>> => arcFiles' # <<>>
    BY <2>1, <2>2, EmptySeq
  <2>5. fileOpen \in BOOLEAN /\ (fileOpen => arcFiles # <<>>)
    BY DEF ArcInv
  <2>6. StoreStep
    BY <1>1, <2>3, <2>4, <2>5 DEF StoreStep
  <2> QED
    BY <1>1, <1>2, <2>6, OnlyStore
<1> QED
  BY <1>3, <1>4 DEF DayPasses

LEMMA ArchiveStarts == ArchiveInit => ArcInv
<1> SUFFICES ASSUME ArchiveInit PROVE ArcInv
  OBVIOUS
<1>1. ToSet(<<>>) = {} /\ Lines(<<>>) = {} /\ <<>> \in Seq(Records) /\ <<>> \in Seq(ArcFile) /\ Len(<<>>) = 0
  BY EmptySeq DEF ToSet, Lines
<1>2. Stored(Came(<<>>), <<>>, <<>>)
  BY <1>1 DEF Stored, FilesInOrder, QueueInOrder, OrderedBy
<1>3. /\ accepted = <<>> /\ arcQueue = <<>> /\ arcFiles = <<>> /\ fileOpen = FALSE /\ caller = NoCall /\ closing = "no"
      /\ erased = {} /\ flushed = {} /\ owed = {} /\ worker = Idle
      /\ producer \in [Records -> {"new", "checked", "done"}]
  BY DEF ArchiveInit
<1>4. /\ caller \in CallRecord
      /\ caller.before = {} /\ worker.at = "select"
  BY <1>3 DEF NoCall, Idle, CallRecord
<1> QED
  BY <1>1, <1>2, <1>3, <1>4 DEF ArcInv

LEMMA ArchiveStep == ArcInv /\ [ArchiveNext]_arcVars => ArcInv'
<1> SUFFICES ASSUME ArcInv, [ArchiveNext]_arcVars PROVE ArcInv'
  OBVIOUS
<1>1. CASE UNCHANGED arcVars
  BY <1>1, CallerPhase, StoreSame, OnlyStore DEF arcVars, diskVars, historyVars
<1>2. CASE ArchiveNext
  BY <1>2, Producing, Serving, Handling, Stopping, Asking, Closing, Restarting, Passing DEF ArchiveNext
<1> QED
  BY <1>1, <1>2

(* Flattened, the files keep the order of acceptance, and their members are *)
(* those of the files (proxy/log_archive.go).                               *)
LEMMA ArchiveHolds == ArcInv => ArchiveSafe
<1> SUFFICES ASSUME ArcInv PROVE ArchiveSafe
  OBVIOUS
<1> DEFINE R == Came(accepted)
           ls == [i \in 1 .. Len(arcFiles) |-> arcFiles[i].lines]
<1>1. arcFiles \in Seq(ArcFile) /\ FilesInOrder(R, arcFiles) /\ accepted \in Seq(Records)
  BY DEF ArcInv, Stored
<1>2. /\ Len(arcFiles) \in Nat /\ \A i \in 1 .. Len(arcFiles) : arcFiles[i].lines \in Seq(Records)
  <2>1. \A i \in 1 .. Len(arcFiles) : arcFiles[i] \in ArcFile
    BY <1>1, ElementOfSeq
  <2> QED
    BY <1>1, <2>1, LenProperties DEF ArcFile
<1>3. /\ ls \in Seq(Seq(Records)) /\ Len(ls) = Len(arcFiles)
      /\ \A i \in 1 .. Len(ls) : ls[i] = arcFiles[i].lines
  BY <1>2
<1>4. Archived(arcFiles) = FlattenSeq(ls)
  BY DEF Archived
<1> HIDE DEF R, ls
<1>5. OrderedBy(R, FlattenSeq(ls))
  <2>1. \A a \in 1 .. Len(ls) : OrderedBy(R, ls[a])
    BY <1>1, <1>3 DEF FilesInOrder
  <2>2. \A a, b \in 1 .. Len(ls) : a < b => \A x \in ToSet(ls[a]), y \in ToSet(ls[b]) : <<x, y>> \in R
    BY <1>1, <1>3 DEF FilesInOrder
  <2> QED
    BY <1>3, <2>1, <2>2, FlattenOrdered
<1>6. FlattenSeq(ls) \in Seq(Records) /\ ToSet(FlattenSeq(ls)) \subseteq Lines(arcFiles)
  <2>1. \A i \in 1 .. Len(ls) : ToSet(ls[i]) \subseteq Lines(arcFiles)
    BY <1>3 DEF Lines
  <2> QED
    BY <1>3, <2>1, FlattenMembers
<1>7. InOrder
  <2> DEFINE all == Archived(arcFiles)
  <2>1. all \in Seq(Records) /\ OrderedBy(R, all)
    BY <1>4, <1>5, <1>6
  <2> HIDE DEF all
  <2>2. ASSUME NEW i \in DOMAIN all, NEW j \in DOMAIN all, i < j PROVE Before(all[i], all[j])
    <3>1. <<all[i], all[j]>> \in R
      BY <2>1, <2>2, LenProperties DEF OrderedBy
    <3>2. PICK k \in 1 .. Len(accepted), l \in 1 .. Len(accepted) : k < l /\ accepted[k] = all[i] /\ accepted[l] = all[j]
      BY <3>1 DEF R, Came
    <3> QED
      BY <1>1, <3>2, LenProperties DEF Before
  <2> QED
    BY <2>2 DEF InOrder, all
<1>8. Range(arcQueue) = ToSet(arcQueue) /\ Range(Archived(arcFiles)) = ToSet(Archived(arcFiles))
  BY DEF Range, ToSet
<1>9. ClearedForGood
  BY <1>4, <1>6, <1>8 DEF ClearedForGood, ArcInv
<1>10. FlushCovers /\ CloseDrains
  BY <1>8 DEF FlushCovers, CloseDrains, ArcInv
<1> QED
  BY <1>7, <1>9, <1>10 DEF ArchiveSafe

(* For any records, capacities, rotation size and number of failing writes, *)
(* opens and deletions (proxy/log_archive.go), the files keep the order of  *)
(* acceptance, a finished clear is final, a finished flush has written what *)
(* it covers and Close has drained what it found.                           *)
THEOREM ArchiveKept == ArchiveSpec => []ArchiveSafe
<1>1. ArchiveSpec => []ArcInv
  BY ArchiveStarts, ArchiveStep, PTL DEF ArchiveSpec
<1> QED
  BY <1>1, ArchiveHolds, PTL
=================================================================================
