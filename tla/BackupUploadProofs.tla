------------------------- MODULE BackupUploadProofs -------------------------
(***************************************************************************)
(* An upload survives its crashes, for any number of bundles, mishaps and  *)
(* reservations.  The two properties hold because of where the command may *)
(* stop: UploadOK says what is pending at each of its saves, HoldsOK what  *)
(* the service may have been given under the reservation that is kept.     *)
(***************************************************************************)
EXTENDS BackupUpload, TLAPS

Bundle == Backups \cup {0}
Upload == [bundle : Bundle, id : Nat]
Place == {"idle", "cipher", "declare", "finish", "reserve", "keep", "complete", "put", "clear", "unlink"}
State == {"open", "late", "sent", "done", "gone"}
Reservation == [state : State, holds : Bundle]

Counts ==
    /\ made \in Bundle /\ file \in Bundle /\ reported \subseteq Backups
    /\ mishaps \in Nat /\ mishaps <= MaxMishaps

Records ==
    /\ v \in [login : {"in", "needed", "removed"}, upload : Upload]
    /\ run \in [at : Place, want : Bundle, id : Nat, again : BOOLEAN]

Service == reserved \in Seq(Reservation)

\* What is pending where the command may be: nothing before it is declared and
\* after it is cleared, a bundle in between.
UploadOK ==
    /\ run.at \in {"cipher", "declare", "unlink"} => v.upload = NoUpload
    /\ run.at \in {"finish", "reserve", "keep", "complete", "put", "clear"} => v.upload.bundle # 0
    /\ v.upload.bundle = 0 => v.upload.id = 0
    /\ run.at \notin {"idle", "unlink"} => run.want # 0
    /\ run.at = "unlink" /\ run.again => run.want # 0
    /\ run.at = "declare" => file = run.want
    /\ run.at \in {"reserve", "keep"} => v.upload.id = 0
    /\ run.at \in {"complete", "put", "clear"} => v.upload.id # 0

\* The reservation that is kept holds nothing but the pending bundle, the one
\* about to be kept nothing at all, and nothing is put where something is.
HoldsOK ==
    /\ v.upload.id \in Ids \cup {0}
    /\ v.upload.id # 0 /\ reserved[v.upload.id].state \in {"sent", "done"} =>
           reserved[v.upload.id].holds = v.upload.bundle
    /\ run.at = "keep" => run.id \in Ids /\ reserved[run.id].state \in {"open", "late", "gone"}
    /\ run.at = "put" => reserved[v.upload.id].state \in {"open", "late", "gone"}
    /\ run.at = "clear" => reserved[v.upload.id].state = "done"

Inv == Counts /\ Records /\ Service /\ UploadOK /\ HoldsOK /\ PendingIsReadable /\ ReportedIsStored

\* Bundles are numbered from 1, so that 0 is none; the bound is a number.
Numbered == Backups \subseteq Nat \ {0} /\ MaxMishaps \in Nat

-----------------------------------------------------------------------------
(* What becomes of a reservation.                                          *)

Rewrites(id, state, holds) ==
    /\ id \in Ids /\ DOMAIN reserved' = Ids
    /\ reserved'[id] = [state |-> state, holds |-> holds]
    /\ \A k \in Ids \ {id} : reserved'[k] = reserved[k]

\* Every entry is one of a reservation's records.
LEMMA Entry ==
    ASSUME Service, NEW id \in Ids
    PROVE  /\ reserved[id] \in Reservation
           /\ reserved[id] = [state |-> reserved[id].state, holds |-> reserved[id].holds]
  <1>1. reserved[id] \in Reservation BY DEF Service, Ids
  <1> QED BY <1>1 DEF Reservation

\* An entry of the service's list is replaced: the others stay.
LEMMA Replaced ==
    ASSUME Service, NEW id \in Ids, NEW state \in State, NEW holds \in Bundle,
           reserved' = [reserved EXCEPT ![id] = [state |-> state, holds |-> holds]]
    PROVE  Service' /\ Rewrites(id, state, holds)
  <1>1. [state |-> state, holds |-> holds] \in Reservation BY DEF Reservation
  <1>2. reserved' \in Seq(Reservation) BY <1>1 DEF Service, Ids
  <1> QED BY <1>2 DEF Service, Rewrites, Ids

\* Or it changes state only.
LEMMA Advanced ==
    ASSUME Service, NEW id \in Ids, NEW state \in State,
           reserved' = [reserved EXCEPT ![id].state = state]
    PROVE  Service' /\ Rewrites(id, state, reserved[id].holds)
  <1>1. reserved[id] \in Reservation BY DEF Service, Ids
  <1>2. [reserved[id] EXCEPT !.state = state] = [state |-> state, holds |-> reserved[id].holds]
    BY <1>1 DEF Reservation
  <1>3. reserved' = [reserved EXCEPT ![id] = [state |-> state, holds |-> reserved[id].holds]] BY <1>2
  <1>4. reserved[id].holds \in Bundle BY <1>1 DEF Reservation
  <1> QED BY <1>3, <1>4, Replaced

\* What was stored stays so when the entry that changes was not done, or is
\* done again.
LEMMA StoredStays ==
    ASSUME ReportedIsStored, reported' = reported, NEW id, NEW state, NEW holds,
           Rewrites(id, state, holds),
           reserved[id].state = "done" => state = "done" /\ holds = reserved[id].holds,
           Service
    PROVE  ReportedIsStored'
  <1> SUFFICES ASSUME NEW n \in reported
               PROVE  \E k \in Ids' : reserved'[k] = [state |-> "done", holds |-> n]
    BY DEF ReportedIsStored
  <1>1. PICK k \in Ids : reserved[k] = [state |-> "done", holds |-> n] BY DEF ReportedIsStored
  <1>2. reserved'[k] = [state |-> "done", holds |-> n]
    <2>1. CASE k = id BY <1>1, <2>1 DEF Rewrites
    <2>2. CASE k # id BY <1>1, <2>2 DEF Rewrites
    <2> QED BY <2>1, <2>2
  <1> QED BY <1>2 DEF Rewrites, Ids

-----------------------------------------------------------------------------
\* A run begins.
LEMMA BeginInv == ASSUME Numbered, Inv, Begin PROVE Inv'
  <1> USE DEF Inv, Counts, Records, Service, UploadOK, HoldsOK, PendingIsReadable, Numbered,
              Bundle, Upload, Place, State, Reservation, NoUpload, Idle, Ids, Go, Fail, Mishap, Begin
  <1>1. Counts' OBVIOUS
  <1>2. Records' OBVIOUS
  <1>3. Service' OBVIOUS
  <1>4. UploadOK' OBVIOUS
  <1>5. HoldsOK' OBVIOUS
  <1>6. PendingIsReadable' OBVIOUS
  <1>7. ReportedIsStored' BY DEF ReportedIsStored
  <1> QED BY <1>1, <1>2, <1>3, <1>4, <1>5, <1>6, <1>7 DEF Inv

\* The ciphertext is saved.
LEMMA SaveCiphertextInv == ASSUME Numbered, Inv, SaveCiphertext PROVE Inv'
  <1> USE DEF Inv, Counts, Records, Service, UploadOK, HoldsOK, PendingIsReadable, Numbered,
              Bundle, Upload, Place, State, Reservation, NoUpload, Idle, Ids, Go, Fail, Mishap, SaveCiphertext
  <1>1. Counts' OBVIOUS
  <1>2. Records' OBVIOUS
  <1>3. Service' OBVIOUS
  <1>4. UploadOK' OBVIOUS
  <1>5. HoldsOK' OBVIOUS
  <1>6. PendingIsReadable' OBVIOUS
  <1>7. ReportedIsStored' BY DEF ReportedIsStored
  <1> QED BY <1>1, <1>2, <1>3, <1>4, <1>5, <1>6, <1>7 DEF Inv

\* The upload is declared.
LEMMA DeclareInv == ASSUME Numbered, Inv, Declare PROVE Inv'
  <1> USE DEF Inv, Counts, Records, Service, UploadOK, HoldsOK, PendingIsReadable, Numbered,
              Bundle, Upload, Place, State, Reservation, NoUpload, Idle, Ids, Go, Fail, Mishap, Declare
  <1>1. Counts' OBVIOUS
  <1>2. Records' OBVIOUS
  <1>3. Service' OBVIOUS
  <1>4. UploadOK' OBVIOUS
  <1>5. HoldsOK' OBVIOUS
  <1>6. PendingIsReadable' OBVIOUS
  <1>7. ReportedIsStored' BY DEF ReportedIsStored
  <1> QED BY <1>1, <1>2, <1>3, <1>4, <1>5, <1>6, <1>7 DEF Inv

\* What is pending is taken up.
LEMMA FinishInv == ASSUME Numbered, Inv, Finish PROVE Inv'
  <1> USE DEF Inv, Counts, Records, Service, UploadOK, HoldsOK, PendingIsReadable, Numbered,
              Bundle, Upload, Place, State, Reservation, NoUpload, Idle, Ids, Go, Fail, Mishap, Finish
  <1>1. Counts' OBVIOUS
  <1>2. Records' OBVIOUS
  <1>3. Service' OBVIOUS
  <1>4. UploadOK' OBVIOUS
  <1>5. HoldsOK' OBVIOUS
  <1>6. PendingIsReadable' OBVIOUS
  <1>7. ReportedIsStored' BY DEF ReportedIsStored
  <1> QED BY <1>1, <1>2, <1>3, <1>4, <1>5, <1>6, <1>7 DEF Inv

\* A place is reserved.
LEMMA ReserveInv == ASSUME Numbered, Inv, Reserve PROVE Inv'
  <1> USE DEF Inv, Counts, Records, Service, UploadOK, HoldsOK, PendingIsReadable, Numbered,
              Bundle, Upload, Place, State, Reservation, NoUpload, Idle, Ids, Go, Fail, Mishap, Reserve
  <1>a. reserved' \in Seq(Reservation) /\ Ids' = 1 .. Len(reserved) + 1
    <2>1. [state |-> "open", holds |-> 0] \in Reservation OBVIOUS
    <2>2. \A n \in 1 .. Len(reserved) : reserved[n] \in Reservation BY Entry
    <2>3. reserved' \in [1 .. Len(reserved) + 1 -> Reservation] BY <2>1, <2>2
    <2> QED BY <2>3
  <1>b. \A n \in Ids : n \in Ids' /\ reserved'[n] = reserved[n] BY <1>a
  <1>c. run'.id \in Ids' /\ reserved'[run'.id] = [state |-> "open", holds |-> 0] /\ run'.id \in Nat BY <1>a
  <1>1. Counts' OBVIOUS
  <1>2. Records' BY <1>c
  <1>3. Service' BY <1>a
  <1>4. UploadOK' OBVIOUS
  <1>5. HoldsOK' BY <1>b, <1>c
  <1>6. PendingIsReadable' OBVIOUS
  <1>7. ReportedIsStored' 
    <2> SUFFICES ASSUME NEW n \in reported
                 PROVE  \E k \in Ids' : reserved'[k] = [state |-> "done", holds |-> n]
      BY DEF ReportedIsStored
    <2>1. PICK k \in Ids : reserved[k] = [state |-> "done", holds |-> n] BY DEF ReportedIsStored
    <2> QED BY <2>1, <1>b
  <1> QED BY <1>1, <1>2, <1>3, <1>4, <1>5, <1>6, <1>7 DEF Inv

\* The reservation is kept.
LEMMA KeepInv == ASSUME Numbered, Inv, Keep PROVE Inv'
  <1> USE DEF Inv, Counts, Records, Service, UploadOK, HoldsOK, PendingIsReadable, Numbered,
              Bundle, Upload, Place, State, Reservation, NoUpload, Idle, Ids, Go, Fail, Mishap, Keep
  <1>1. Counts' OBVIOUS
  <1>2. Records' OBVIOUS
  <1>3. Service' OBVIOUS
  <1>4. UploadOK' OBVIOUS
  <1>5. HoldsOK' OBVIOUS
  <1>6. PendingIsReadable' OBVIOUS
  <1>7. ReportedIsStored' BY DEF ReportedIsStored
  <1> QED BY <1>1, <1>2, <1>3, <1>4, <1>5, <1>6, <1>7 DEF Inv

\* Completion is asked for.
LEMMA CompleteInv == ASSUME Numbered, Inv, Complete PROVE Inv'
  <1> USE DEF Inv, Counts, Records, Service, UploadOK, HoldsOK, PendingIsReadable, Numbered,
              Bundle, Upload, Place, State, Reservation, NoUpload, Idle, Ids, Go, Fail, Mishap, Complete
  <1> DEFINE id == v.upload.id
  <1>i. id \in Ids /\ run.at = "complete" OBVIOUS
  <1>a. CASE /\ reserved[id].state \in {"sent", "done"}
             /\ reserved' = [reserved EXCEPT ![id].state = "done"] /\ Go("clear") /\ UNCHANGED v
    <2>r. Service' /\ Rewrites(id, "done", reserved[id].holds) BY <1>a, <1>i, Advanced
    <2>u. UNCHANGED <<file, made, box, reported, mishaps>> OBVIOUS
    <2> HIDE DEF Complete
    <2> USE <1>a, <1>i, <2>u
    <2>1. Counts' OBVIOUS
    <2>2. Records' OBVIOUS
    <2>3. Service' BY <2>r
    <2>4. UploadOK' OBVIOUS
    <2>5. HoldsOK' BY <2>r DEF Rewrites
    <2>6. PendingIsReadable' OBVIOUS
    <2>7. ReportedIsStored' BY <2>r, StoredStays
    <2> QED BY <2>1, <2>2, <2>3, <2>4, <2>5, <2>6, <2>7 DEF Inv
  <1>b. CASE reserved[id].state = "open" /\ Go("put") /\ UNCHANGED <<v, reserved>>
    <2> USE <1>b
    <2>1. Counts' OBVIOUS
    <2>2. Records' OBVIOUS
    <2>3. Service' OBVIOUS
    <2>4. UploadOK' OBVIOUS
    <2>5. HoldsOK' OBVIOUS
    <2>6. PendingIsReadable' OBVIOUS
    <2>7. ReportedIsStored' BY DEF ReportedIsStored
    <2> QED BY <2>1, <2>2, <2>3, <2>4, <2>5, <2>6, <2>7 DEF Inv
  <1>c. CASE reserved[id].state = "gone" /\ v' = [v EXCEPT !.upload.id = 0] /\ Fail /\ UNCHANGED reserved
    <2> USE <1>c
    <2>1. Counts' OBVIOUS
    <2>2. Records' OBVIOUS
    <2>3. Service' OBVIOUS
    <2>4. UploadOK' OBVIOUS
    <2>5. HoldsOK' OBVIOUS
    <2>6. PendingIsReadable' OBVIOUS
    <2>7. ReportedIsStored' BY DEF ReportedIsStored
    <2> QED BY <2>1, <2>2, <2>3, <2>4, <2>5, <2>6, <2>7 DEF Inv
  <1>d. CASE reserved[id].state = "late" /\ Fail /\ UNCHANGED <<v, reserved>>
    <2> USE <1>d
    <2>1. Counts' OBVIOUS
    <2>2. Records' OBVIOUS
    <2>3. Service' OBVIOUS
    <2>4. UploadOK' OBVIOUS
    <2>5. HoldsOK' OBVIOUS
    <2>6. PendingIsReadable' OBVIOUS
    <2>7. ReportedIsStored' BY DEF ReportedIsStored
    <2> QED BY <2>1, <2>2, <2>3, <2>4, <2>5, <2>6, <2>7 DEF Inv
  <1> QED BY <1>a, <1>b, <1>c, <1>d

\* The bytes are put.
LEMMA PutInv == ASSUME Numbered, Inv, Put PROVE Inv'
  <1> USE DEF Inv, Counts, Records, Service, UploadOK, HoldsOK, PendingIsReadable, Numbered,
              Bundle, Upload, Place, State, Reservation, NoUpload, Idle, Ids, Go, Fail, Mishap, Put
  <1> DEFINE id == v.upload.id
  <1>i. id \in Ids /\ run.at = "put" OBVIOUS
  <1>a. CASE reserved[id].state \in {"late", "gone"} /\ Fail /\ UNCHANGED reserved
    <2> USE <1>a
    <2>1. Counts' OBVIOUS
    <2>2. Records' OBVIOUS
    <2>3. Service' OBVIOUS
    <2>4. UploadOK' OBVIOUS
    <2>5. HoldsOK' OBVIOUS
    <2>6. PendingIsReadable' OBVIOUS
    <2>7. ReportedIsStored' BY DEF ReportedIsStored
    <2> QED BY <2>1, <2>2, <2>3, <2>4, <2>5, <2>6, <2>7 DEF Inv
  <1>b. CASE /\ reserved[id].state \notin {"late", "gone"}
             /\ reserved' = [reserved EXCEPT ![id] = [state |-> "sent", holds |-> file]]
             /\ run' = [run EXCEPT !.at = "complete", !.again = TRUE]
    <2>r. Service' /\ Rewrites(id, "sent", file) BY <1>b, <1>i, Replaced
    <2> HIDE DEF Put
    <2>u. UNCHANGED <<v, file, made, box, reported, mishaps>> BY DEF Put
    <2> USE <1>b, <1>i, <2>u
    <2>1. Counts' OBVIOUS
    <2>2. Records' OBVIOUS
    <2>3. Service' BY <2>r
    <2>4. UploadOK' OBVIOUS
    <2>5. HoldsOK' BY <2>r DEF Rewrites
    <2>6. PendingIsReadable' OBVIOUS
    <2>7. ReportedIsStored' BY <2>r, StoredStays
    <2> QED BY <2>1, <2>2, <2>3, <2>4, <2>5, <2>6, <2>7 DEF Inv
  <1> QED BY <1>a, <1>b

\* The state forgets the upload.
LEMMA ClearInv == ASSUME Numbered, Inv, Clear PROVE Inv'
  <1> USE DEF Inv, Counts, Records, Service, UploadOK, HoldsOK, PendingIsReadable, Numbered,
              Bundle, Upload, Place, State, Reservation, NoUpload, Idle, Ids, Go, Fail, Mishap, Clear
  <1>c. run.at = "clear" /\ reserved[v.upload.id] = [state |-> "done", holds |-> v.upload.bundle] BY Entry
  <1>1. Counts' OBVIOUS
  <1>2. Records' OBVIOUS
  <1>3. Service' OBVIOUS
  <1>4. UploadOK' OBVIOUS
  <1>5. HoldsOK' OBVIOUS
  <1>6. PendingIsReadable' OBVIOUS
  <1>7. ReportedIsStored' BY <1>c DEF ReportedIsStored
  <1> QED BY <1>1, <1>2, <1>3, <1>4, <1>5, <1>6, <1>7 DEF Inv

\* The ciphertext goes.
LEMMA UnlinkInv == ASSUME Numbered, Inv, Unlink PROVE Inv'
  <1> USE DEF Inv, Counts, Records, Service, UploadOK, HoldsOK, PendingIsReadable, Numbered,
              Bundle, Upload, Place, State, Reservation, NoUpload, Idle, Ids, Go, Fail, Mishap, Unlink
  <1>1. Counts' OBVIOUS
  <1>2. Records' OBVIOUS
  <1>3. Service' OBVIOUS
  <1>4. UploadOK' OBVIOUS
  <1>5. HoldsOK' OBVIOUS
  <1>6. PendingIsReadable' OBVIOUS
  <1>7. ReportedIsStored' BY DEF ReportedIsStored
  <1> QED BY <1>1, <1>2, <1>3, <1>4, <1>5, <1>6, <1>7 DEF Inv

\* The box finds itself removed.
LEMMA SeeRemovalInv == ASSUME Numbered, Inv, SeeRemoval PROVE Inv'
  <1> USE DEF Inv, Counts, Records, Service, UploadOK, HoldsOK, PendingIsReadable, Numbered,
              Bundle, Upload, Place, State, Reservation, NoUpload, Idle, Ids, Go, Fail, Mishap, SeeRemoval
  <1>1. Counts' OBVIOUS
  <1>2. Records' OBVIOUS
  <1>3. Service' OBVIOUS
  <1>4. UploadOK' OBVIOUS
  <1>5. HoldsOK' OBVIOUS
  <1>6. PendingIsReadable' OBVIOUS
  <1>7. ReportedIsStored' BY DEF ReportedIsStored
  <1> QED BY <1>1, <1>2, <1>3, <1>4, <1>5, <1>6, <1>7 DEF Inv

\* A new login.
LEMMA LoginInv == ASSUME Numbered, Inv, Login PROVE Inv'
  <1> USE DEF Inv, Counts, Records, Service, UploadOK, HoldsOK, PendingIsReadable, Numbered,
              Bundle, Upload, Place, State, Reservation, NoUpload, Idle, Ids, Go, Fail, Mishap, Login
  <1>1. Counts' OBVIOUS
  <1>2. Records' OBVIOUS
  <1>3. Service' OBVIOUS
  <1>4. UploadOK' OBVIOUS
  <1>5. HoldsOK' OBVIOUS
  <1>6. PendingIsReadable' OBVIOUS
  <1>7. ReportedIsStored' BY DEF ReportedIsStored
  <1> QED BY <1>1, <1>2, <1>3, <1>4, <1>5, <1>6, <1>7 DEF Inv

\* The command dies.
LEMMA CrashInv == ASSUME Numbered, Inv, Crash PROVE Inv'
  <1> USE DEF Inv, Counts, Records, Service, UploadOK, HoldsOK, PendingIsReadable, Numbered,
              Bundle, Upload, Place, State, Reservation, NoUpload, Idle, Ids, Go, Fail, Mishap, Crash
  <1> DEFINE id == v.upload.id
  <1>a. CASE UNCHANGED reserved
    <2> USE <1>a
    <2>1. Counts' OBVIOUS
    <2>2. Records' OBVIOUS
    <2>3. Service' OBVIOUS
    <2>4. UploadOK' OBVIOUS
    <2>5. HoldsOK' OBVIOUS
    <2>6. PendingIsReadable' OBVIOUS
    <2>7. ReportedIsStored' BY DEF ReportedIsStored
    <2> QED BY <2>1, <2>2, <2>3, <2>4, <2>5, <2>6, <2>7 DEF Inv
  <1>b. CASE /\ run.at = "put" /\ reserved[id].state = "open"
             /\ reserved' = [reserved EXCEPT ![id] = [state |-> "sent", holds |-> file]]
    <2>i. id \in Ids BY <1>b
    <2>r. Service' /\ Rewrites(id, "sent", file) BY <1>b, <2>i, Replaced
    <2>u. Fail /\ Mishap /\ UNCHANGED <<v, file, made, box, reported>> OBVIOUS
    <2> HIDE DEF Crash
    <2> USE <1>b, <2>u
    <2>1. Counts' OBVIOUS
    <2>2. Records' OBVIOUS
    <2>3. Service' BY <2>r
    <2>4. UploadOK' OBVIOUS
    <2>5. HoldsOK' BY <2>r DEF Rewrites
    <2>6. PendingIsReadable' OBVIOUS
    <2>7. ReportedIsStored' BY <2>r, StoredStays
    <2> QED BY <2>1, <2>2, <2>3, <2>4, <2>5, <2>6, <2>7 DEF Inv
  <1>c. CASE /\ run.at = "complete" /\ reserved[id].state = "sent"
             /\ reserved' = [reserved EXCEPT ![id].state = "done"]
    <2>i. id \in Ids BY <1>c
    <2>r. Service' /\ Rewrites(id, "done", reserved[id].holds) BY <1>c, <2>i, Advanced
    <2>u. Fail /\ Mishap /\ UNCHANGED <<v, file, made, box, reported>> OBVIOUS
    <2> HIDE DEF Crash
    <2> USE <1>c, <2>u
    <2>1. Counts' OBVIOUS
    <2>2. Records' OBVIOUS
    <2>3. Service' BY <2>r
    <2>4. UploadOK' OBVIOUS
    <2>5. HoldsOK' BY <2>r DEF Rewrites
    <2>6. PendingIsReadable' OBVIOUS
    <2>7. ReportedIsStored' BY <2>r, StoredStays
    <2> QED BY <2>1, <2>2, <2>3, <2>4, <2>5, <2>6, <2>7 DEF Inv
  <1> QED BY <1>a, <1>b, <1>c

\* A reservation expires.
LEMMA ReservationExpiresInv == ASSUME Numbered, Inv, ReservationExpires PROVE Inv'
  <1> USE DEF Inv, Counts, Records, Service, UploadOK, HoldsOK, PendingIsReadable, Numbered,
              Bundle, Upload, Place, State, Reservation, NoUpload, Idle, Ids, Go, Fail, Mishap, ReservationExpires
  <1>p. PICK id \in Ids : /\ reserved[id].state \in {"open", "sent"}
                          /\ reserved' = [reserved EXCEPT ![id].state = "gone"]
    OBVIOUS
  <1>r. Service' /\ Rewrites(id, "gone", reserved[id].holds) BY <1>p, Advanced
  <1>u. Mishap /\ UNCHANGED <<v, file, run, made, box, reported>> OBVIOUS
  <1> HIDE DEF ReservationExpires
  <1> USE <1>p, <1>u
  <1>1. Counts' OBVIOUS
  <1>2. Records' OBVIOUS
  <1>3. Service' BY <1>r
  <1>4. UploadOK' OBVIOUS
  <1>5. HoldsOK' BY <1>r DEF Rewrites
  <1>6. PendingIsReadable' OBVIOUS
  <1>7. ReportedIsStored' BY <1>r, StoredStays
  <1> QED BY <1>1, <1>2, <1>3, <1>4, <1>5, <1>6, <1>7 DEF Inv

\* The owner removes the box.
LEMMA OwnerRemovesInv == ASSUME Numbered, Inv, OwnerRemoves PROVE Inv'
  <1> USE DEF Inv, Counts, Records, Service, UploadOK, HoldsOK, PendingIsReadable, Numbered,
              Bundle, Upload, Place, State, Reservation, NoUpload, Idle, Ids, Go, Fail, Mishap, OwnerRemoves
  <1>1. Counts' OBVIOUS
  <1>2. Records' OBVIOUS
  <1>3. Service' OBVIOUS
  <1>4. UploadOK' OBVIOUS
  <1>5. HoldsOK' OBVIOUS
  <1>6. PendingIsReadable' OBVIOUS
  <1>7. ReportedIsStored' BY DEF ReportedIsStored
  <1> QED BY <1>1, <1>2, <1>3, <1>4, <1>5, <1>6, <1>7 DEF Inv

\* The service refuses the credential.
LEMMA RevokedInv == ASSUME Numbered, Inv, Revoked PROVE Inv'
  <1> USE DEF Inv, Counts, Records, Service, UploadOK, HoldsOK, PendingIsReadable, Numbered,
              Bundle, Upload, Place, State, Reservation, NoUpload, Idle, Ids, Go, Fail, Mishap, Revoked
  <1>1. Counts' OBVIOUS
  <1>2. Records' OBVIOUS
  <1>3. Service' OBVIOUS
  <1>4. UploadOK' OBVIOUS
  <1>5. HoldsOK' OBVIOUS
  <1>6. PendingIsReadable' OBVIOUS
  <1>7. ReportedIsStored' BY DEF ReportedIsStored
  <1> QED BY <1>1, <1>2, <1>3, <1>4, <1>5, <1>6, <1>7 DEF Inv

\* The box finds its credential refused.
LEMMA SeeRevokedInv == ASSUME Numbered, Inv, SeeRevoked PROVE Inv'
  <1> USE DEF Inv, Counts, Records, Service, UploadOK, HoldsOK, PendingIsReadable, Numbered,
              Bundle, Upload, Place, State, Reservation, NoUpload, Idle, Ids, Go, Fail, Mishap, SeeRevoked
  <1>1. Counts' OBVIOUS
  <1>2. Records' OBVIOUS
  <1>3. Service' OBVIOUS
  <1>4. UploadOK' OBVIOUS
  <1>5. HoldsOK' OBVIOUS
  <1>6. PendingIsReadable' OBVIOUS
  <1>7. ReportedIsStored' BY DEF ReportedIsStored
  <1> QED BY <1>1, <1>2, <1>3, <1>4, <1>5, <1>6, <1>7 DEF Inv

\* The address of a reservation is past its time.
LEMMA UrlExpiresInv == ASSUME Numbered, Inv, UrlExpires PROVE Inv'
  <1> USE DEF Inv, Counts, Records, Service, UploadOK, HoldsOK, PendingIsReadable, Numbered,
              Bundle, Upload, Place, State, Reservation, NoUpload, Idle, Ids, Go, Fail, Mishap, UrlExpires
  <1>p. PICK id \in Ids : /\ reserved[id].state = "open"
                          /\ reserved' = [reserved EXCEPT ![id].state = "late"]
    OBVIOUS
  <1>r. Service' /\ Rewrites(id, "late", reserved[id].holds) BY <1>p, Advanced
  <1>u. Mishap /\ UNCHANGED <<v, file, run, made, box, reported>> OBVIOUS
  <1> HIDE DEF UrlExpires
  <1> USE <1>p, <1>u
  <1>1. Counts' OBVIOUS
  <1>2. Records' OBVIOUS
  <1>3. Service' BY <1>r
  <1>4. UploadOK' OBVIOUS
  <1>5. HoldsOK' BY <1>r DEF Rewrites
  <1>6. PendingIsReadable' OBVIOUS
  <1>7. ReportedIsStored' BY <1>r, StoredStays
  <1> QED BY <1>1, <1>2, <1>3, <1>4, <1>5, <1>6, <1>7 DEF Inv

\* A reservation past its time is given up.
LEMMA LateIsGivenUpInv == ASSUME Numbered, Inv, LateIsGivenUp PROVE Inv'
  <1> USE DEF Inv, Counts, Records, Service, UploadOK, HoldsOK, PendingIsReadable, Numbered,
              Bundle, Upload, Place, State, Reservation, NoUpload, Idle, Ids, Go, Fail, Mishap, LateIsGivenUp
  <1>p. PICK id \in Ids : /\ reserved[id].state = "late"
                          /\ reserved' = [reserved EXCEPT ![id].state = "gone"]
    OBVIOUS
  <1>r. Service' /\ Rewrites(id, "gone", reserved[id].holds) BY <1>p, Advanced
  <1>u. UNCHANGED <<v, file, run, made, box, reported, mishaps>> OBVIOUS
  <1> HIDE DEF LateIsGivenUp
  <1> USE <1>p, <1>u
  <1>1. Counts' OBVIOUS
  <1>2. Records' OBVIOUS
  <1>3. Service' BY <1>r
  <1>4. UploadOK' OBVIOUS
  <1>5. HoldsOK' BY <1>r DEF Rewrites
  <1>6. PendingIsReadable' OBVIOUS
  <1>7. ReportedIsStored' BY <1>r, StoredStays
  <1> QED BY <1>1, <1>2, <1>3, <1>4, <1>5, <1>6, <1>7 DEF Inv

-----------------------------------------------------------------------------
LEMMA InitInv == ASSUME Numbered, Init PROVE Inv
  <1> USE DEF Init, Numbered, NoUpload, Idle
  <1>1. Counts BY DEF Counts, Bundle
  <1>2. Records BY DEF Records, Upload, Bundle, Place
  <1>3. Service BY DEF Service
  <1>4. UploadOK /\ HoldsOK BY DEF UploadOK, HoldsOK, Ids
  <1>5. PendingIsReadable /\ ReportedIsStored BY DEF PendingIsReadable, ReportedIsStored
  <1> QED BY <1>1, <1>2, <1>3, <1>4, <1>5 DEF Inv

LEMMA StutterInv == ASSUME Inv, UNCHANGED vars PROVE Inv'
  <1> USE DEF Inv, vars, Ids
  <1>1. Counts' /\ Records' /\ Service' BY DEF Counts, Records, Service
  <1>2. UploadOK' /\ HoldsOK' BY DEF UploadOK, HoldsOK
  <1>3. PendingIsReadable' /\ ReportedIsStored' BY DEF PendingIsReadable, ReportedIsStored
  <1> QED BY <1>1, <1>2, <1>3

LEMMA NextInv == ASSUME Numbered PROVE Inv /\ [Next]_vars => Inv'
  <1> SUFFICES ASSUME Inv, [Next]_vars PROVE Inv' OBVIOUS
  <1>1. CASE Steps
    BY <1>1, BeginInv, SaveCiphertextInv, DeclareInv, FinishInv, ReserveInv, KeepInv, CompleteInv,
       PutInv, ClearInv, UnlinkInv, SeeRemovalInv, SeeRevokedInv DEF Steps
  <1>2. CASE Login BY <1>2, LoginInv
  <1>3. CASE Crash BY <1>3, CrashInv
  <1>4. CASE ReservationExpires BY <1>4, ReservationExpiresInv
  <1>5. CASE OwnerRemoves BY <1>5, OwnerRemovesInv
  <1>6. CASE UrlExpires BY <1>6, UrlExpiresInv
  <1>7. CASE LateIsGivenUp BY <1>7, LateIsGivenUpInv
  <1>8. CASE Revoked BY <1>8, RevokedInv
  <1>9. CASE UNCHANGED vars BY <1>9, StutterInv
  <1> QED BY <1>1, <1>2, <1>3, <1>4, <1>5, <1>6, <1>7, <1>8, <1>9 DEF Next

LEMMA InvSuffices == Inv => TypeOK /\ PendingIsReadable /\ ReportedIsStored
  <1> SUFFICES ASSUME Inv PROVE TypeOK BY DEF Inv
  <1> QED BY DEF Inv, Counts, Records, HoldsOK, Upload, Bundle, TypeOK

\* What the command keeps, what the service holds and where the command may
\* stop stand together in every reachable state.
THEOREM UploadInvariant == ASSUME Numbered PROVE Spec => []Inv
  <1>1. Init => Inv BY InitInv
  <1>2. Inv /\ [Next]_vars => Inv' BY NextInv
  <1> QED BY <1>1, <1>2, PTL DEF Spec

\* Bundles, reservations and bounds are what they should be.
THEOREM TypeCorrect == ASSUME Numbered PROVE Spec => []TypeOK
  <1>1. Inv => TypeOK BY InvSuffices
  <1> QED BY UploadInvariant, <1>1, PTL

\* The pending upload's ciphertext is on the disk wherever the command died:
\* the next run can finish it.
THEOREM OwedIsReadable == ASSUME Numbered PROVE Spec => []PendingIsReadable
  <1>1. Inv => PendingIsReadable BY InvSuffices
  <1> QED BY UploadInvariant, <1>1, PTL

\* Whatever was repeated, lost or expired on the way, a bundle Upload returned
\* as done is one the service holds complete.
THEOREM DoneIsStored == ASSUME Numbered PROVE Spec => []ReportedIsStored
  <1>1. Inv => ReportedIsStored BY InvSuffices
  <1> QED BY UploadInvariant, <1>1, PTL
=============================================================================
