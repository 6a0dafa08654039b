---------------------------- MODULE PairingVault ----------------------------
(***************************************************************************)
(* Who may talk to this computer.  A pairing is recorded in up to three    *)
(* places: the vault (the keychain, where there is one), the pairing table *)
(* of the index database, which is the authority without a vault and a     *)
(* mirror with one, and the copy in memory that authorization reads.  This *)
(* module is about their agreement through failures, crashes, starts, a    *)
(* change of the computer's identity, and the takeover of a running daemon *)
(* by a newer one.                                                         *)
(*                                                                         *)
(* Translated from crates/storage (device_repo.rs, db.rs, the contract in  *)
(* pairing_vault.rs) and crates/daemon (identity.rs, the start in main.rs, *)
(* the single-instance claim in ipc.rs).                                   *)
(*                                                                         *)
(* Simplifications                                                         *)
(*  - A step is the code between two awaits.  A transaction, and a call of *)
(*    the vault, takes effect at once or not at all, as the trait demands. *)
(*  - A pairing is its id; ids are drawn in ascending order, which stands  *)
(*    for "random and never drawn twice".                                  *)
(*  - A takeover waits until the old daemon is gone; the code gives up     *)
(*    waiting after some seconds.                                          *)
(*  - What hangs on a row (grants, receipts) is FlowDelivery's.            *)
(***************************************************************************)
EXTENDS Naturals, FiniteSets

CONSTANTS
    Phones,       (* node ids of phones                                     *)
    Procs,        (* daemon processes on this computer                      *)
    Reqs,         (* pairing writes under way                               *)
    MaxPairings,  (* bound on pairings                                      *)
    MaxKeys,      (* bound on identities of this computer                   *)
    Vaults,       (* bound: the builds an instance explores, with a vault   *)
                  (* (TRUE) or without one (FALSE)                          *)
    Events,       (* bound: the events an instance explores, of EventNames  *)
    None

EventNames == {"unpair", "crash", "vaultfail", "dbfail", "rekey", "takeover"}

ASSUME PairingAssumption ==
    /\ MaxPairings \in Nat /\ MaxKeys \in Nat
    /\ Vaults \subseteq BOOLEAN /\ Vaults # {}
    /\ Events \subseteq EventNames
    /\ None \notin Phones \cup Procs

VARIABLES
    hasVault, (* Db::has_vault: given by the platform, never changes        *)
    vault,    (* the id the vault holds for each phone, 0 for none          *)
    mirror,   (* the pairing table                                          *)
    profile,  (* device_profile: absent, there, or who ended the pairing    *)
    key,      (* the identity in the key store, 0 for none                  *)
    lastId,   (* pairings minted so far                                     *)
    lastKey,  (* identities minted so far                                   *)
    born,     (* the phone and the identity each pairing was made for, and  *)
              (* whether its daemon was alone when it wrote it              *)
    proc,     (* daemon processes.  History: knew, what was withdrawn when  *)
              (* it read the authority, or by itself; alone, no other daemon *)
              (* has run beside it                                          *)
    req,      (* accept_pairing and remove_pairing calls                    *)
    revoked   (* history: ids some daemon has withdrawn                     *)

storeVars == <<vault, mirror, profile, key>>
mintVars  == <<hasVault, lastId, lastKey, born>>
vars      == <<storeVars, mintVars, proc, req, revoked>>

Ids == 0..MaxPairings
NoPairings == [p \in Phones |-> 0]
NoProc == [st |-> "down", index |-> NoPairings, key |-> 0,
           read |-> NoPairings, listed |-> NoPairings, away |-> {}, knew |-> {},
           alone |-> FALSE]
NoReq == [pc |-> "idle", kind |-> None, proc |-> None, phone |-> None,
          id |-> 0, by |-> None]

Authority == IF hasVault THEN vault ELSE mirror

Serving(x) == proc[x].st \in {"serve", "leaving"}

Init ==
    /\ hasVault \in Vaults
    /\ vault = NoPairings /\ mirror = NoPairings
    /\ profile = [p \in Phones |-> "absent"]
    /\ key = 0 /\ lastId = 0 /\ lastKey = 0
    /\ born = [i \in 1..MaxPairings |-> [phone |-> None, key |-> 0, alone |-> FALSE]]
    /\ proc = [x \in Procs |-> NoProc]
    /\ req = [r \in Reqs |-> NoReq]
    /\ revoked = {}

-----------------------------------------------------------------------------
(* A start: the authority is read, the mirror aligned with it, the         *)
(* identity settled, and only then the running daemon, if any, replaced.   *)

At(x, st) == proc[x].st = st
Goto(x, st) == proc' = [proc EXCEPT ![x].st = st]

ProcFrame == UNCHANGED <<mintVars, req, revoked>>

Start(x) ==
    /\ At(x, "down")
    /\ \A y \in Procs \ {x} :
         At(y, "down") \/ ("takeover" \in Events /\ At(y, "serve"))
    /\ proc' = [y \in Procs |->
         IF y = x THEN [NoProc EXCEPT !.st = IF hasVault THEN "load" ELSE "settle",
                                      !.index = IF hasVault THEN @ ELSE mirror,
                                      !.knew = revoked,
                                      !.alone = \A z \in Procs \ {x} : At(z, "down")]
                  ELSE [proc[y] EXCEPT !.alone = FALSE]]
    /\ UNCHANGED storeVars /\ ProcFrame

LoadVault(x) ==
    /\ At(x, "load")
    /\ proc' = [proc EXCEPT ![x].st = "list", ![x].read = vault,
                            ![x].knew = revoked]
    /\ UNCHANGED storeVars /\ ProcFrame

AlignList(x) ==
    /\ At(x, "list")
    /\ proc' = [proc EXCEPT ![x].st = "align", ![x].listed = mirror]
    /\ UNCHANGED storeVars /\ ProcFrame

(* mutant: the table is believed where it disagrees with the vault *)
AlignMirror_Believes(x) ==
    /\ At(x, "align")
    /\ proc' = [proc EXCEPT ![x].st = "settle", ![x].index = mirror]
    /\ UNCHANGED storeVars /\ ProcFrame

(* align_mirror: listed rows the vault does not hold are deleted by id,    *)
(* rows it does hold and the list lacks are inserted; one that is in the   *)
(* way fails the start.                                                    *)
AlignMirror(x) ==
    /\ At(x, "align")
    /\ LET p1 == proc[x].read
           p2 == proc[x].listed
           stale == {p \in Phones : p2[p] # 0 /\ p1[p] # p2[p]}
           kept == [p \in Phones |-> IF p \in stale /\ mirror[p] = p2[p]
                                       THEN 0 ELSE mirror[p]]
           missing == {p \in Phones : p1[p] # 0 /\ p1[p] # p2[p]}
       IN  /\ \A p \in missing : kept[p] = 0
           /\ mirror' = [p \in Phones |-> IF p \in missing THEN p1[p] ELSE kept[p]]
           /\ profile' = [p \in Phones |-> IF p \in missing /\ profile[p] = "absent"
                                             THEN "here" ELSE profile[p]]
           /\ proc' = [proc EXCEPT ![x].st = "settle", ![x].index = p1,
                                   ![x].away = stale]
    /\ UNCHANGED <<vault, key>> /\ ProcFrame

(* mutant: pairings survive the identity they were made with *)
Settle_Keeps(x) ==
    /\ At(x, "settle")
    /\ proc' = [proc EXCEPT ![x].st = IF key = 0 THEN "write" ELSE "claim",
                            ![x].key = key]
    /\ UNCHANGED storeVars /\ ProcFrame

Settle(x) ==
    /\ At(x, "settle")
    /\ proc' = [proc EXCEPT ![x].st = IF key = 0 THEN "clear" ELSE "claim",
                            ![x].key = key]
    /\ UNCHANGED storeVars /\ ProcFrame

(* remove_all_pairings for a new identity: the vault, then the table.      *)
ClearVault(x) ==
    /\ At(x, "clear") /\ hasVault
    /\ vault' = NoPairings
    /\ proc' = [proc EXCEPT ![x].st = "rows", ![x].index = NoPairings]
    /\ UNCHANGED <<mirror, profile, key>> /\ ProcFrame

ClearRows(x) ==
    /\ IF hasVault THEN At(x, "rows") ELSE At(x, "clear")
    /\ mirror' = NoPairings
    /\ profile' = [p \in Phones |-> IF mirror[p] # 0 THEN "identity" ELSE profile[p]]
    /\ proc' = [proc EXCEPT ![x].st = "mark", ![x].index = NoPairings]
    /\ UNCHANGED <<vault, key>> /\ ProcFrame

(* mark_departed, for the rows this start's alignment has deleted.         *)
MarkAway(x) ==
    /\ At(x, "mark")
    /\ profile' = [p \in Phones |-> IF p \in proc[x].away /\ mirror[p] = 0
                                      THEN "identity" ELSE profile[p]]
    /\ Goto(x, "write")
    /\ UNCHANGED <<vault, mirror, key>> /\ ProcFrame

WriteKey(x) ==
    /\ At(x, "write")
    /\ lastKey < MaxKeys
    /\ lastKey' = lastKey + 1
    /\ key' = lastKey + 1
    /\ proc' = [proc EXCEPT ![x].st = "readback", ![x].key = lastKey + 1]
    /\ UNCHANGED <<hasVault, vault, mirror, profile, lastId, born, req, revoked>>

(* Anything else read back is an error, and the start is refused.          *)
ReadBack(x) ==
    /\ At(x, "readback")
    /\ key = proc[x].key
    /\ Goto(x, "claim")
    /\ UNCHANGED storeVars /\ ProcFrame

Claim(x) ==
    /\ At(x, "claim")
    /\ \A y \in Procs \ {x} : ~Serving(y)
    /\ proc' = [proc EXCEPT ![x].st = "serve", ![x].read = NoPairings,
                            ![x].listed = NoPairings, ![x].away = {}]
    /\ UNCHANGED storeVars /\ ProcFrame

(* notify_step_down, by a newer version.                                   *)
StepDown(x, y) ==
    /\ At(x, "claim") /\ At(y, "serve")
    /\ Goto(y, "leaving")
    /\ UNCHANGED storeVars /\ ProcFrame

(* A crash, a refused start, a newcomer standing down, the old one's exit. *)
Leave(x) ==
    /\ ~At(x, "down")
    /\ \/ "crash" \in Events
       \/ At(x, "leaving")
       \/ At(x, "claim") /\ \E y \in Procs \ {x} : Serving(y)
       \/ At(x, "readback") /\ key # proc[x].key
       \/ At(x, "align")
    /\ proc' = [proc EXCEPT ![x] = NoProc]
    /\ req' = [r \in Reqs |-> IF req[r].proc = x THEN NoReq ELSE req[r]]
    /\ UNCHANGED <<storeVars, mintVars, revoked>>

(* The key store is found empty: a restored disk, a reset keychain.        *)
LoseKey ==
    /\ "rekey" \in Events
    /\ key # 0 /\ lastKey < MaxKeys
    /\ key' = 0
    /\ UNCHANGED <<vault, mirror, profile, mintVars, proc, req, revoked>>

-----------------------------------------------------------------------------
(* accept_pairing and remove_pairing, one at a time in a process.          *)

(* mutant: nobody waits for pairing_write_guard *)
Busy_Never(x) == FALSE

Busy(x) == \E r \in Reqs : req[r].proc = x /\ req[r].pc \notin {"idle", "wait"}

ReqAt(r, kind, pc) == req[r].kind = kind /\ req[r].pc = pc

(* The call has the guard.                                                 *)
Enters(r, kind) == ReqAt(r, kind, "wait") /\ ~Busy(req[r].proc)

ReqGoto(r, pc) == req' = [req EXCEPT ![r].pc = pc]
ReqEnd(r) == req' = [req EXCEPT ![r] = NoReq]
ReqFrame == UNCHANGED <<key, mintVars>>

(* The frame of a write to a store.                                        *)
Written(r) ==
    /\ born' = [born EXCEPT ![req[r].id].alone = proc[req[r].proc].alone]
    /\ UNCHANGED <<key, hasVault, lastId, lastKey>>

SetIndex(r, id) == proc' = [proc EXCEPT ![req[r].proc].index[req[r].phone] = id]

(* The owner has let the phone in: a pairing with a new id.                *)
AcceptArrives(r, x, p) ==
    /\ req[r] = NoReq /\ Serving(x)
    /\ lastId < MaxPairings
    /\ lastId' = lastId + 1
    /\ born' = [born EXCEPT ![lastId + 1] = [phone |-> p, key |-> proc[x].key, alone |-> FALSE]]
    /\ req' = [req EXCEPT ![r] = [NoReq EXCEPT !.pc = "wait", !.kind = "accept",
                                    !.proc = x, !.phone = p, !.id = lastId + 1]]
    /\ UNCHANGED <<hasVault, storeVars, lastKey, proc, revoked>>

(* The owner removes a phone, or the phone ends its pairing and may name   *)
(* the one it means (#565).  0 names none.                                 *)
RemoveArrives(r, x, p, id, by) ==
    /\ "unpair" \in Events
    /\ req[r] = NoReq /\ Serving(x)
    /\ IF by = "owner" THEN id = 0
                       ELSE /\ proc[x].index[p] # 0
                            /\ id # 0 => born[id].phone = p
    /\ req' = [req EXCEPT ![r] = [NoReq EXCEPT !.pc = "wait", !.kind = "remove",
                                    !.proc = x, !.phone = p, !.id = id, !.by = by]]
    /\ UNCHANGED <<storeVars, mintVars, proc, revoked>>

(* The transaction: profile, and the row in place of an older one.         *)
AcceptRow(r) ==
    /\ Enters(r, "accept")
    /\ mirror' = [mirror EXCEPT ![req[r].phone] = req[r].id]
    /\ profile' = [profile EXCEPT ![req[r].phone] = "here"]
    /\ ReqGoto(r, IF hasVault THEN "vault" ELSE "index")
    /\ UNCHANGED <<vault, proc, revoked>> /\ Written(r)

AcceptVault(r) ==
    /\ ReqAt(r, "accept", "vault")
    /\ vault' = [vault EXCEPT ![req[r].phone] = req[r].id]
    /\ ReqGoto(r, "index")
    /\ UNCHANGED <<mirror, profile, proc, revoked>> /\ Written(r)

(* mutant: an error of the vault is only logged *)
AcceptVaultFails_Logged(r) ==
    /\ "vaultfail" \in Events
    /\ ReqAt(r, "accept", "vault")
    /\ ReqGoto(r, "index")
    /\ UNCHANGED <<vault, mirror, profile, proc, revoked>> /\ ReqFrame

AcceptVaultFails(r) ==
    /\ "vaultfail" \in Events
    /\ ReqAt(r, "accept", "vault")
    /\ ReqGoto(r, "undo")
    /\ UNCHANGED <<vault, mirror, profile, proc, revoked>> /\ ReqFrame

(* The row just written is deleted, as far as that goes.                   *)
AcceptUndo(r) ==
    /\ ReqAt(r, "accept", "undo")
    /\ \/ mirror' = [mirror EXCEPT ![req[r].phone] = IF @ = req[r].id THEN 0 ELSE @]
       \/ "dbfail" \in Events /\ UNCHANGED mirror
    /\ ReqEnd(r)
    /\ UNCHANGED <<vault, profile, proc, revoked>> /\ ReqFrame

AcceptIndex(r) ==
    /\ ReqAt(r, "accept", "index")
    /\ SetIndex(r, req[r].id)
    /\ ReqEnd(r)
    /\ UNCHANGED <<vault, mirror, profile, revoked>> /\ ReqFrame

Meant(r, id) == id # 0 /\ req[r].id \in {0, id}

RemoveCheck(r) ==
    /\ Enters(r, "remove") /\ hasVault
    /\ IF Meant(r, proc[req[r].proc].index[req[r].phone])
         THEN ReqGoto(r, "vault") ELSE ReqEnd(r)
    /\ UNCHANGED <<vault, mirror, profile, proc, revoked>> /\ ReqFrame

RemoveVault(r) ==
    /\ ReqAt(r, "remove", "vault")
    /\ vault' = [vault EXCEPT ![req[r].phone] = 0]
    /\ ReqGoto(r, "index")
    /\ UNCHANGED <<mirror, profile, proc, revoked>> /\ ReqFrame

RemoveVaultFails(r) ==
    /\ "vaultfail" \in Events
    /\ ReqAt(r, "remove", "vault")
    /\ ReqEnd(r)
    /\ UNCHANGED <<vault, mirror, profile, proc, revoked>> /\ ReqFrame

(* mutant: the device is recorded as the reason, instead of who decided *)
Departs_Phone(p, by) == profile' = [profile EXCEPT ![p] = IF @ = "absent" THEN @ ELSE p]

Departs(p, by) == profile' = [profile EXCEPT ![p] = IF @ = "absent" THEN @ ELSE by]

(* Without a vault the transaction comes first.                            *)
RemoveTable(r) ==
    /\ Enters(r, "remove") /\ ~hasVault
    /\ IF Meant(r, mirror[req[r].phone])
         THEN /\ mirror' = [mirror EXCEPT ![req[r].phone] = 0]
              /\ Departs(req[r].phone, req[r].by)
              /\ ReqGoto(r, "index")
         ELSE ReqEnd(r) /\ UNCHANGED <<mirror, profile>>
    /\ UNCHANGED <<vault, proc, revoked>> /\ ReqFrame

RemoveIndex(r) ==
    /\ ReqAt(r, "remove", "index")
    /\ LET x == req[r].proc
           gone == {proc[x].index[req[r].phone]} \ {0}
       IN  /\ revoked' = revoked \cup gone
           /\ proc' = [proc EXCEPT ![x].index[req[r].phone] = 0, ![x].knew = @ \cup gone]
    /\ IF hasVault THEN ReqGoto(r, "rows") ELSE ReqEnd(r)
    /\ UNCHANGED <<vault, mirror, profile>> /\ ReqFrame

RemoveRows(r) ==
    /\ ReqAt(r, "remove", "rows")
    /\ mirror' = [mirror EXCEPT ![req[r].phone] = 0]
    /\ Departs(req[r].phone, req[r].by)
    /\ ReqEnd(r)
    /\ UNCHANGED <<vault, proc, revoked>> /\ ReqFrame

(* A transaction fails: the caller gets the error, what is done stays.     *)
RowsFail(r) ==
    /\ "dbfail" \in Events
    /\ \/ ReqAt(r, "remove", "rows")
       \/ Enters(r, "accept")
       \/ ~hasVault /\ Enters(r, "remove")
    /\ ReqEnd(r)
    /\ UNCHANGED <<vault, mirror, profile, proc, revoked>> /\ ReqFrame

ReqStep(r) ==
    \/ AcceptRow(r) \/ AcceptVault(r) \/ AcceptVaultFails(r) \/ AcceptUndo(r)
    \/ AcceptIndex(r)
    \/ RemoveCheck(r) \/ RemoveVault(r) \/ RemoveVaultFails(r) \/ RemoveTable(r)
    \/ RemoveIndex(r) \/ RemoveRows(r) \/ RowsFail(r)

StartStep(x) ==
    \/ Start(x) \/ LoadVault(x) \/ AlignList(x) \/ AlignMirror(x) \/ Settle(x)
    \/ ClearVault(x) \/ ClearRows(x) \/ MarkAway(x) \/ WriteKey(x) \/ ReadBack(x)
    \/ Claim(x)

Next ==
    \/ \E x \in Procs : StartStep(x) \/ Leave(x)
    \/ \E x, y \in Procs : StepDown(x, y)
    \/ LoseKey
    \/ \E r \in Reqs, x \in Procs, p \in Phones : AcceptArrives(r, x, p)
    \/ \E r \in Reqs, x \in Procs, p \in Phones, id \in Ids,
          by \in {"owner", "device"} : RemoveArrives(r, x, p, id, by)
    \/ \E r \in Reqs : ReqStep(r)

Spec == Init /\ [][Next]_vars

-----------------------------------------------------------------------------
(* Properties.                                                             *)

(* Every variable has the shape of the code's state.                       *)
TypeOK ==
    /\ hasVault \in BOOLEAN
    /\ vault \in [Phones -> Ids] /\ mirror \in [Phones -> Ids]
    /\ profile \in [Phones -> {"absent", "here", "owner", "device", "identity"}]
    /\ key \in 0..MaxKeys /\ lastId \in Ids /\ lastKey \in 0..MaxKeys
    /\ born \in [1..MaxPairings ->
         [phone: Phones \cup {None}, key: 0..MaxKeys, alone: BOOLEAN]]
    /\ proc \in [Procs ->
         [st: {"down", "load", "list", "align", "settle", "clear", "rows", "mark",
               "write", "readback", "claim", "serve", "leaving"},
          index: [Phones -> Ids], key: 0..MaxKeys, read: [Phones -> Ids],
          listed: [Phones -> Ids], away: SUBSET Phones, knew: SUBSET Ids,
          alone: BOOLEAN]]
    /\ req \in [Reqs ->
         [pc: {"idle", "wait", "vault", "undo", "index", "rows"},
          kind: {"accept", "remove", None}, proc: Procs \cup {None},
          phone: Phones \cup {None}, id: Ids, by: {"owner", "device", None}]]
    /\ revoked \subseteq Ids

(* A daemon's write to the authority it has not yet copied to memory.      *)
Between(x, p) ==
    \E r \in Reqs : req[r].proc = x /\ req[r].phone = p /\ req[r].pc = "index"

(* pairing_vault.rs: what authorization reads comes from the authority and *)
(* changes with it alone, through every failure, crash and restart, unless *)
(* another daemon has been started beside this one.                        *)
IndexIsAuthority ==
    \A x \in Procs, p \in Phones :
      Serving(x) /\ proc[x].alone =>
        proc[x].index[p] = Authority[p] \/ Between(x, p)

(* unpair.rs: once withdrawn, a pairing is never again authorized, not by  *)
(* the daemon that withdrew it and not by a later start.  Only one that    *)
(* read the authority during a takeover, just before the withdrawal, may   *)
(* still authorize it.                                                     *)
RevokedStaysOut ==
    \A x \in Procs, p \in Phones :
      Serving(x) => proc[x].index[p] \notin proc[x].knew

(* #1109: a daemon with a new identity authorizes no pairing made with the *)
(* old one, wherever the change was interrupted, except one that a daemon  *)
(* on its way out has made after the change.                               *)
OldIdentityGone ==
    \A x \in Procs, p \in Phones :
      LET id == proc[x].index[p]
      IN  Serving(x) /\ id # 0 /\ born[id].alone => born[id].key = proc[x].key

(* #565: a pairing ends only by a call that meant it, or with the identity *)
(* it was made with: a late "I am leaving" of an earlier pairing does not  *)
(* end the new one, where the daemon knows of it.                          *)
EndsAsMeant ==
    [][\A p \in Phones :
         LET id == Authority[p]
         IN  id # 0 /\ Authority'[p] = 0 =>
               \/ \E r \in Reqs : /\ req[r].kind = "remove" /\ req[r].phone = p
                                  /\ \/ req[r].id \in {0, id}
                                     \/ ~proc[req[r].proc].alone
               \/ \E x \in Procs : At(x, "clear")]_vars

=============================================================================
