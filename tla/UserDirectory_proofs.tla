-------------------------- MODULE UserDirectory_proofs --------------------------
(***************************************************************************)
(* Theorems about UserDirectory, for every set of ids, addresses, values   *)
(* and workers and every bound.                                            *)
(*                                                                         *)
(* All rest on what a request holds before each of its statements (Fits)   *)
(* and on every copy of a profile, cached or held, naming a row that was   *)
(* there and its address (Stands).                                         *)
(***************************************************************************)
EXTENDS UserDirectory, TLAPS

\* A copy of a profile whose row is in the table, or was.
Stands(table, p) == /\ p \in Profile
                    /\ table[p.id].state # "absent"
                    /\ table[p.id].profile.email = p.email

\* Before these steps a request holds the profile it is about.
Holds(r) == r.step \in {"write", "fillId", "fillEmail"} \/ (r.step = "drop" /\ r.copy # None)

\* What a request has in hand before each of its statements.
Fits(table, r) ==
    /\ Holds(r) => Stands(table, r.copy) /\ r.key \in KeysOf(r.copy)
    /\ r.step = "write" => r.edit \in Edits /\ r.key \in Ids
    /\ r.edit # None => r.edit \in Edits /\ r.key \in Ids
    /\ r.step = "insert" => r.key \in Emails
    /\ r.step # "drop" => r.drop = {}
    /\ r.step = "drop" => /\ r.key \in Ids /\ table[r.key].state # "absent"
                          /\ r.drop \subseteq {r.key, table[r.key].profile.email}

RowsNamed == \A i \in Ids : row[i].profile.id = i
CacheFits == \A k \in Keys : cache[k] # None => k \in KeysOf(cache[k]) /\ Stands(row, cache[k])
Holding == \A w \in Workers : Fits(row, req[w])

Inv == TypeOK /\ RowsNamed /\ CacheFits /\ Holding

\* What every step does to the table: a row once there keeps its address.
Carries == /\ row' \in [Ids -> Row] /\ RowsNamed'
           /\ \A i \in Ids : row[i].state # "absent" =>
                 row'[i].state # "absent" /\ row'[i].profile.email = row[i].profile.email

\* What a step of worker w does to the requests: the others' stay.
Others(w) == req' \in [Workers -> Request] /\ \A v \in Workers \ {w} : req'[v] = req[v]

-----------------------------------------------------------------------------
\* Typing, and what is in hand.

\* The record of a worker at rest.
LEMMA IdleIsIdle == /\ Idle \in Request /\ Idle.step = "idle" /\ ~Idle.poll /\ Idle.edit = None
                    /\ Idle.copy = None /\ Idle.drop = {}
<1>1. (CHOOSE k \in Keys : TRUE) \in Keys
  BY ConstantsOK DEF Keys
<1>2. QED
  BY <1>1 DEF Idle, Request, Steps

\* A table left alone carries everything.
LEMMA TableStays == ASSUME Inv, UNCHANGED row PROVE Carries
BY DEF Inv, TypeOK, Carries, RowsNamed

\* A copy that stood, and a request that fitted, still do.
LEMMA StillStands ==
  ASSUME Inv, Carries
  PROVE  /\ \A p : Stands(row, p) => Stands(row', p)
         /\ \A r \in Request : Fits(row, r) => Fits(row', r)
<1>1. ASSUME NEW p, Stands(row, p) PROVE Stands(row', p)
  <2>1. p.id \in Ids
    BY <1>1 DEF Stands, Profile
  <2>2. QED
    BY <1>1, <2>1 DEF Stands, Carries
<1>2. ASSUME NEW r \in Request, Fits(row, r) PROVE Fits(row', r)
  BY <1>1, <1>2 DEF Fits, Carries
<1>3. QED
  BY <1>1, <1>2

\* Putting a request that fits in a worker's hands.
LEMMA Handed ==
  ASSUME Inv, Carries, NEW w \in Workers, NEW r \in Request, Fits(row', r),
         req' = [req EXCEPT ![w] = r]
  PROVE  Others(w) /\ req'[w] = r /\ Holding'
<1>1. Others(w) /\ req'[w] = r
  BY DEF Others, Inv, TypeOK
<1>2. \A v \in Workers : req[v] \in Request /\ Fits(row, req[v])
  BY DEF Inv, TypeOK, Holding
<1>3. \A v \in Workers : Fits(row', req'[v])
  BY <1>1, <1>2, StillStands DEF Others
<1>4. QED
  BY <1>1, <1>3 DEF Holding

\* A request that is over.
LEMMA Finished ==
  ASSUME Inv, Carries, NEW w \in Workers, Finish(w)
  PROVE  Others(w) /\ req'[w] = Idle /\ Holding' /\ ~Busy(w)' /\ req'[w].drop = {} /\ ~Holds(req'[w])
<1>1. Fits(row', Idle) /\ ~Holds(Idle)
  BY IdleIsIdle DEF Fits, Holds
<1>2. Others(w) /\ req'[w] = Idle /\ Holding'
  BY <1>1, IdleIsIdle, Handed DEF Finish, Goto
<1>3. QED
  BY <1>1, <1>2, IdleIsIdle DEF Busy

\* A lookup that goes to the table.
LEMMA LookupGoes ==
  ASSUME Inv, UNCHANGED row, NEW w \in Workers, NEW r \in Request,
         r.step = "select", r.drop = {}, r.edit # None => r.edit \in Edits /\ r.key \in Ids,
         req' = [req EXCEPT ![w] = r]
  PROVE  Others(w) /\ Holding' /\ req'[w] = r /\ ~Holds(r)
<1>1. Carries
  BY TableStays
<1>2. Fits(row', r) /\ ~Holds(r)
  BY DEF Fits, Holds
<1>3. QED
  BY <1>1, <1>2, Handed

\* A lookup that begins: GetUser's, UpdateUser's and the stream's.
LEMMA LookupBegins ==
  ASSUME Inv, UNCHANGED row, NEW w \in Workers, NEW k \in Keys, NEW edit \in Edits \cup {None},
         edit # None => k \in Ids,
         \/ Begin(w, k, Missed(edit))
         \/ Begin(w, k, [Missed(edit) EXCEPT !.poll = TRUE])
  PROVE  /\ Others(w) /\ Holding' /\ ~Busy(w)
         /\ req'[w].step = "select" /\ req'[w].key = k /\ req'[w].drop = {} /\ ~Holds(req'[w])
<1>1. /\ Missed(edit) \in Request /\ Missed(edit).step = "select" /\ Missed(edit).edit = edit
      /\ Missed(edit).drop = {}
  BY IdleIsIdle DEF Missed, Request, Steps
<1> DEFINE polled == [Missed(edit) EXCEPT !.poll = TRUE]
           quiet == [Missed(edit) EXCEPT !.key = k]
           polling == [polled EXCEPT !.key = k]
<1>2. /\ quiet \in Request /\ quiet.step = "select" /\ quiet.key = k /\ quiet.edit = edit
      /\ quiet.drop = {}
  BY <1>1 DEF Request
<1>3. /\ polling \in Request /\ polling.step = "select" /\ polling.key = k /\ polling.edit = edit
      /\ polling.drop = {}
  <2>1. /\ polled \in Request /\ polled.step = "select" /\ polled.edit = edit /\ polled.drop = {}
    BY <1>1 DEF Request
  <2> HIDE DEF polled
  <2>2. QED
    BY <2>1 DEF Request
<1>4. ~Busy(w) /\ (req' = [req EXCEPT ![w] = quiet] \/ req' = [req EXCEPT ![w] = polling])
  BY DEF Begin, Goto
<1> HIDE DEF quiet, polling, polled
<1>5. CASE req' = [req EXCEPT ![w] = quiet]
  <2>1. Others(w) /\ Holding' /\ req'[w] = quiet /\ ~Holds(quiet)
    BY <1>2, <1>5, LookupGoes
  <2>2. QED
    BY <1>2, <1>4, <2>1
<1>6. CASE req' = [req EXCEPT ![w] = polling]
  <2>1. Others(w) /\ Holding' /\ req'[w] = polling /\ ~Holds(polling)
    BY <1>3, <1>6, LookupGoes
  <2>2. QED
    BY <1>3, <1>4, <2>1
<1>7. QED
  BY <1>4, <1>5, <1>6

\* An update that begins with a cached copy.
LEMMA HitBegins ==
  ASSUME Inv, UNCHANGED row, NEW w \in Workers, NEW i \in Ids, NEW edit \in Edits,
         cache[i] # None, Begin(w, i, Hit(cache[i], edit))
  PROVE  /\ Others(w) /\ Holding' /\ ~Busy(w)
         /\ req'[w].step = "write" /\ req'[w].key = i /\ req'[w].drop = {}
         /\ req'[w].copy = cache[i]
<1> DEFINE r == [Hit(cache[i], edit) EXCEPT !.key = i]
<1>1. i \in Keys /\ cache[i] \in Profile /\ i \in KeysOf(cache[i]) /\ Stands(row, cache[i])
  BY DEF Keys, Inv, TypeOK, CacheFits
<1>2. /\ r \in Request /\ r.step = "write" /\ r.key = i /\ r.drop = {} /\ r.edit = edit
      /\ r.copy = cache[i]
  BY <1>1, IdleIsIdle DEF Hit, Request, Steps
<1>3. req' = [req EXCEPT ![w] = r] /\ ~Busy(w)
  BY DEF Begin, Goto
<1> HIDE DEF r
<1>4. Fits(row', r)
  BY <1>1, <1>2 DEF Fits, Holds
<1>5. Carries
  BY TableStays
<1>6. QED
  BY <1>2, <1>3, <1>4, <1>5, Handed

\* The live profile a key stands for.
LEMMA CurrentIsLive ==
  ASSUME Inv, NEW k \in Keys, Current(k) # None
  PROVE  LET p == Current(k)
         IN  p \in Profile /\ Live(p.id) /\ k \in KeysOf(p) /\ p = row[p.id].profile /\ Stands(row, p)
<1> DEFINE named == {i \in Ids : Live(i) /\ k \in KeysOf(row[i].profile)}
           j == CHOOSE i \in named : TRUE
<1>1. named # {} /\ Current(k) = row[j].profile
  BY DEF Current
<1>2. j \in named
  BY <1>1
<1> HIDE DEF j
<1>3. j \in Ids /\ Live(j) /\ k \in KeysOf(row[j].profile) /\ row[j] \in Row /\ row[j].profile.id = j
  BY <1>2 DEF Inv, TypeOK, RowsNamed
<1>4. row[j].profile \in Profile
  BY <1>3 DEF Row
<1>5. QED
  BY <1>1, <1>3, <1>4 DEF Stands, Live

\* Writing one row.
LEMMA RowWritten ==
  ASSUME Inv, NEW i \in Ids, NEW new \in Row, Write(i, new), new.profile.id = i,
         row[i].state # "absent" => new.state # "absent" /\ new.profile.email = row[i].profile.email
  PROVE  Carries /\ row'[i] = new /\ \A j \in Ids \ {i} : row'[j] = row[j]
BY DEF Inv, TypeOK, RowsNamed, Carries, Write

\* A writer that begins with its one statement, and has keys to delete after it.
LEMMA DropBegins ==
  ASSUME Inv, Carries, NEW w \in Workers, NEW i \in Ids, NEW keys,
         row'[i].state # "absent", keys \subseteq {i, row'[i].profile.email},
         Begin(w, i, [Idle EXCEPT !.step = "drop", !.drop = keys])
  PROVE  /\ Others(w) /\ Holding' /\ ~Busy(w)
         /\ req'[w].step = "drop" /\ req'[w].key = i /\ req'[w].drop = keys /\ ~Holds(req'[w])
<1> DEFINE base == [Idle EXCEPT !.step = "drop", !.drop = keys]
           r == [base EXCEPT !.key = i]
<1>1. row'[i] \in Row /\ i \in Keys
  BY DEF Carries, Keys
<1>2. keys \subseteq Keys
  BY <1>1 DEF Row, Profile, Keys
<1>3. base \in Request /\ base.step = "drop" /\ base.drop = keys /\ base.copy = None /\ base.edit = None
  BY <1>2, IdleIsIdle DEF Request, Steps
<1>4. req' = [req EXCEPT ![w] = r] /\ ~Busy(w)
  BY DEF Begin, Goto
<1> HIDE DEF base
<1>5. /\ r \in Request /\ r.step = "drop" /\ r.drop = keys /\ r.copy = None /\ r.edit = None
      /\ r.key = i
  BY <1>1, <1>3 DEF Request
<1> HIDE DEF r
<1>6. Fits(row', r) /\ ~Holds(r)
  BY <1>5 DEF Fits, Holds
<1>7. QED
  BY <1>4, <1>5, <1>6, Handed

\* SetFlag, which adds a flag and no more.
LEMMA SetFlagGoes ==
  ASSUME Inv, NEW w \in Workers, NEW i \in Ids, NEW f \in Flags, SetFlag(w, i, f)
  PROVE  /\ Carries /\ \A j \in Ids \ {i} : row'[j] = row[j]
         /\ row'[i].state = "live" /\ row'[i].profile.columns = row[i].profile.columns
         /\ row[i].profile.flags \subseteq row'[i].profile.flags
         /\ Others(w) /\ Holding' /\ ~Busy(w)
         /\ req'[w].step = "drop" /\ req'[w].key = i /\ req'[w].drop = {i} /\ ~Holds(req'[w])
<1> DEFINE new == [row[i] EXCEPT !.profile.flags = @ \cup {f}]
<1>1. row[i] \in Row /\ row[i].profile.id = i /\ row[i].state = "live"
  BY DEF Inv, TypeOK, RowsNamed, SetFlag, Live
<1>2. row[i].profile \in Profile
  BY <1>1 DEF Row
<1>3. [row[i].profile EXCEPT !.flags = @ \cup {f}] \in Profile
  BY <1>2 DEF Profile
<1>4. new \in Row
  BY <1>1, <1>3 DEF Row
<1>5. /\ new.state = "live" /\ new.profile.id = i /\ new.profile.email = row[i].profile.email
      /\ new.profile.columns = row[i].profile.columns
      /\ new.profile.flags = row[i].profile.flags \cup {f}
  BY <1>1, <1>2 DEF Row, Profile
<1>6. Write(i, new)
  BY DEF SetFlag
<1> HIDE DEF new
<1>7. Carries /\ row'[i] = new /\ \A j \in Ids \ {i} : row'[j] = row[j]
  BY <1>1, <1>4, <1>5, <1>6, RowWritten
<1> DEFINE keys == {i}
<1>8. Begin(w, i, [Idle EXCEPT !.step = "drop", !.drop = keys])
  BY DEF SetFlag
<1>9. row'[i].state # "absent" /\ keys \subseteq {i, row'[i].profile.email}
  BY <1>5, <1>7
<1>10. keys = {i}
  OBVIOUS
<1> HIDE DEF keys
<1>11. /\ Others(w) /\ Holding' /\ ~Busy(w)
       /\ req'[w].step = "drop" /\ req'[w].key = i /\ req'[w].drop = keys /\ ~Holds(req'[w])
  BY <1>7, <1>8, <1>9, DropBegins
<1>12. QED
  BY <1>5, <1>7, <1>10, <1>11

\* DeleteUser.
LEMMA DeleteGoes ==
  ASSUME Inv, NEW w \in Workers, NEW i \in Ids, DeleteUser(w, i)
  PROVE  /\ Carries /\ \A j \in Ids \ {i} : row'[j] = row[j]
         /\ row'[i].state = "deleted"
         /\ Others(w) /\ Holding' /\ ~Busy(w)
         /\ req'[w].step = "drop" /\ req'[w].key = i /\ ~Holds(req'[w])
         /\ req'[w].drop = {i, row[i].profile.email}
<1> DEFINE new == [row[i] EXCEPT !.state = "deleted"]
<1>1. row[i] \in Row /\ row[i].profile.id = i /\ row[i].state = "live"
  BY DEF Inv, TypeOK, RowsNamed, DeleteUser, Live
<1>2. new \in Row /\ new.state = "deleted" /\ new.profile = row[i].profile
  BY <1>1 DEF Row
<1>3. Write(i, new)
  BY DEF DeleteUser
<1> HIDE DEF new
<1>4. Carries /\ row'[i] = new /\ \A j \in Ids \ {i} : row'[j] = row[j]
  BY <1>1, <1>2, <1>3, RowWritten
<1> DEFINE keys == {i, row[i].profile.email}
<1>5. Begin(w, i, [Idle EXCEPT !.step = "drop", !.drop = keys])
  BY <1>1 DEF DeleteUser, KeysOf
<1>6. row'[i].state # "absent" /\ keys \subseteq {i, row'[i].profile.email}
  BY <1>1, <1>2, <1>4
<1>7. keys = {i, row[i].profile.email}
  OBVIOUS
<1> HIDE DEF keys
<1>8. /\ Others(w) /\ Holding' /\ ~Busy(w)
      /\ req'[w].step = "drop" /\ req'[w].key = i /\ req'[w].drop = keys /\ ~Holds(req'[w])
  BY <1>4, <1>5, <1>6, DropBegins
<1>9. QED
  BY <1>2, <1>4, <1>7, <1>8

\* CreateUser: a request that will insert.
LEMMA CreateGoes ==
  ASSUME Inv, NEW w \in Workers, NEW e \in Emails, CreateUser(w, e)
  PROVE  /\ Others(w) /\ Holding' /\ ~Busy(w)
         /\ req'[w].step = "insert" /\ req'[w].key = e /\ req'[w].drop = {} /\ ~Holds(req'[w])
<1> DEFINE base == [Idle EXCEPT !.step = "insert"]
           r == [base EXCEPT !.key = e]
<1>1. base \in Request /\ base.step = "insert" /\ base.drop = {} /\ base.edit = None
  BY IdleIsIdle DEF Request, Steps
<1>2. req' = [req EXCEPT ![w] = r] /\ ~Busy(w) /\ UNCHANGED row
  BY DEF CreateUser, Begin, Goto
<1> HIDE DEF base
<1>3. r \in Request /\ r.step = "insert" /\ r.drop = {} /\ r.edit = None /\ r.key = e
  BY <1>1 DEF Request, Keys
<1> HIDE DEF r
<1>4. Fits(row', r) /\ ~Holds(r)
  BY <1>3 DEF Fits, Holds
<1>5. Carries
  BY <1>2, TableStays
<1>6. QED
  BY <1>2, <1>3, <1>4, <1>5, Handed

\* Select: the lookup goes on with the profile, or is over.
LEMMA SelectGoes ==
  ASSUME Inv, NEW w \in Workers, Select(w)
  PROVE  /\ Carries /\ Others(w) /\ Holding' /\ req'[w].drop = {} /\ req[w].drop = {}
         /\ \/ ~Busy(w)' /\ ~Holds(req'[w])
            \/ /\ req'[w].step = "fillId" /\ req'[w].key = req[w].key
               /\ req'[w].copy = row[req'[w].copy.id].profile /\ Live(req'[w].copy.id)
<1>1. req[w] \in Request /\ Fits(row, req[w]) /\ req[w].step = "select" /\ UNCHANGED row
  BY DEF Inv, TypeOK, Holding, Select
<1>2. req[w].key \in Keys /\ req[w].drop = {} /\ Carries
  BY <1>1, TableStays DEF Request, Fits
<1>3. CASE Current(req[w].key) = None
  BY <1>2, <1>3, Finished DEF Select
<1>4. CASE Current(req[w].key) # None
  <2> DEFINE p == Current(req[w].key)
             r == [req[w] EXCEPT !.step = "fillId", !.copy = p]
  <2>1. /\ p \in Profile /\ Live(p.id) /\ req[w].key \in KeysOf(p) /\ p = row[p.id].profile
        /\ Stands(row, p)
    BY <1>2, <1>4, CurrentIsLive
  <2>2. req' = [req EXCEPT ![w] = r]
    BY <1>4 DEF Select, Goto
  <2> HIDE DEF p
  <2>3. /\ r \in Request /\ r.step = "fillId" /\ r.copy = p /\ r.key = req[w].key
        /\ r.drop = req[w].drop /\ r.edit = req[w].edit
    BY <1>1, <2>1 DEF Request, Steps
  <2> HIDE DEF r
  <2>4. Fits(row', r)
    BY <1>1, <2>1, <2>3 DEF Fits, Holds
  <2>5. QED
    BY <1>2, <2>1, <2>2, <2>3, <2>4, Handed
<1>5. QED
  BY <1>3, <1>4

\* A request that goes on to its next statement with the same copy.
LEMMA StepTaken ==
  ASSUME Inv, UNCHANGED row, NEW w \in Workers, NEW r \in Request,
         Holds(req[w]), r.step \in {"write", "fillId", "fillEmail"}, r.drop = {},
         r.copy = req[w].copy, r.key = req[w].key, r.edit = req[w].edit,
         r.step = "write" => r.edit # None,
         req' = [req EXCEPT ![w] = r]
  PROVE  Carries /\ Others(w) /\ req'[w] = r /\ Holding'
<1>1. Fits(row, req[w]) /\ Carries
  BY TableStays DEF Inv, Holding
<1>2. Fits(row', r)
  BY <1>1 DEF Fits, Holds
<1>3. QED
  BY <1>1, <1>2, Handed

\* What follows one of the two fills.
LEMMA FillGoes ==
  ASSUME Inv, NEW w \in Workers, FillId(w) \/ FillEmail(w)
  PROVE  /\ Carries /\ Others(w) /\ Holding' /\ req'[w].drop = {} /\ req[w].drop = {}
         /\ Holds(req[w])
         /\ \/ ~Busy(w)' /\ ~Holds(req'[w])
            \/ req'[w].copy = req[w].copy /\ req'[w].key = req[w].key
<1>1. req[w] \in Request /\ Fits(row, req[w]) /\ Holds(req[w]) /\ UNCHANGED row
  BY DEF Inv, TypeOK, Holding, FillId, FillEmail, Holds
<1>2. req[w].drop = {} /\ Carries
  BY <1>1, TableStays DEF Fits, FillId, FillEmail
<1> DEFINE email == [req[w] EXCEPT !.step = "fillEmail"]
           write == [req[w] EXCEPT !.step = "write"]
<1>3. /\ email \in Request /\ email.step = "fillEmail" /\ email.drop = {}
      /\ email.copy = req[w].copy /\ email.key = req[w].key /\ email.edit = req[w].edit
  BY <1>1, <1>2 DEF Request, Steps
<1>4. /\ write \in Request /\ write.step = "write" /\ write.drop = {}
      /\ write.copy = req[w].copy /\ write.key = req[w].key /\ write.edit = req[w].edit
  BY <1>1, <1>2 DEF Request, Steps
<1>5. \/ Finish(w) \/ req' = [req EXCEPT ![w] = email]
      \/ req[w].edit # None /\ req' = [req EXCEPT ![w] = write]
  BY DEF FillId, FillEmail, Goto
<1> HIDE DEF email, write
<1>6. CASE Finish(w)
  BY <1>1, <1>2, <1>6, Finished
<1>7. CASE req' = [req EXCEPT ![w] = email]
  BY <1>1, <1>2, <1>3, <1>7, StepTaken
<1>8. CASE req[w].edit # None /\ req' = [req EXCEPT ![w] = write]
  BY <1>1, <1>2, <1>4, <1>8, StepTaken
<1>9. QED
  BY <1>5, <1>6, <1>7, <1>8

\* A new profile.
LEMMA NewIsProfile ==
  ASSUME NEW i \in Ids, NEW e \in Emails
  PROVE  LET p == NewProfile(i, e)
         IN  p \in Profile /\ p.id = i /\ p.email = e /\ p.columns \in Columns
BY DEF NewProfile, Profile, Columns

\* Insert: an absent row becomes a live one with the requested address.
LEMMA InsertGoes ==
  ASSUME Inv, NEW w \in Workers, Insert(w)
  PROVE  \E i \in Ids :
           /\ row[i].state = "absent" /\ Carries
           /\ row'[i].state = "live" /\ row'[i].profile = NewProfile(i, req[w].key)
           /\ \A j \in Ids \ {i} : row'[j] = row[j]
           /\ wanted' = [wanted EXCEPT ![i] = row'[i].profile.columns]
           /\ contended' = IF \E v \in Workers : Busy(v) /\ req[v].key = i
                           THEN contended \cup {req[w].key} ELSE contended
           /\ Others(w) /\ Holding' /\ req'[w].step = "fillId" /\ req'[w].key = req[w].key
           /\ req'[w].copy = row'[i].profile /\ req'[w].drop = {} /\ req[w].drop = {}
           /\ req[w].key \in Emails
<1>1. req[w] \in Request /\ req[w].step = "insert" /\ Fits(row, req[w])
  BY DEF Inv, TypeOK, Holding, Insert
<1>2. req[w].key \in Emails /\ req[w].drop = {}
  BY <1>1 DEF Fits
<1>3. PICK i \in Ids :
        /\ row[i].state = "absent"
        /\ Write(i, [state |-> "live", profile |-> NewProfile(i, req[w].key)])
        /\ wanted' = [wanted EXCEPT ![i] = NewProfile(i, req[w].key).columns]
        /\ Goto(w, [req[w] EXCEPT !.step = "fillId", !.copy = NewProfile(i, req[w].key)])
        /\ contended' = IF \E v \in Workers : Busy(v) /\ req[v].key = i
                        THEN contended \cup {req[w].key} ELSE contended
  BY DEF Insert
<1> DEFINE p == NewProfile(i, req[w].key)
           new == [state |-> "live", profile |-> p]
           r == [req[w] EXCEPT !.step = "fillId", !.copy = p]
<1>4. p \in Profile /\ p.id = i /\ p.email = req[w].key
  BY <1>2, NewIsProfile
<1>5. Write(i, new) /\ req' = [req EXCEPT ![w] = r] /\ wanted' = [wanted EXCEPT ![i] = p.columns]
      /\ p = NewProfile(i, req[w].key)
  BY <1>3 DEF Goto
<1> HIDE DEF p
<1>6. new \in Row /\ new.state = "live" /\ new.profile = p
  BY <1>4 DEF Row
<1>7. /\ r \in Request /\ r.step = "fillId" /\ r.copy = p /\ r.key = req[w].key
      /\ r.drop = req[w].drop /\ r.edit = req[w].edit
  BY <1>1, <1>4 DEF Request, Steps
<1> HIDE DEF new, r
<1>8. Carries /\ row'[i] = new /\ \A j \in Ids \ {i} : row'[j] = row[j]
  BY <1>3, <1>4, <1>5, <1>6, RowWritten
<1>9. Stands(row', p)
  BY <1>4, <1>6, <1>8 DEF Stands
<1>10. r.key \in KeysOf(p) /\ (r.edit # None => r.edit \in Edits /\ r.key \in Ids)
  BY <1>1, <1>4, <1>7 DEF KeysOf, Fits
<1>11. Fits(row', r)
  BY <1>2, <1>7, <1>9, <1>10 DEF Fits, Holds
<1>12. Others(w) /\ req'[w] = r /\ Holding'
  BY <1>5, <1>7, <1>8, <1>11, Handed
<1>13. QED
  BY <1>2, <1>3, <1>5, <1>6, <1>7, <1>8, <1>12

\* InsertNothing: the answer is looked up, or cached.
LEMMA InsertNothingGoes ==
  ASSUME Inv, NEW w \in Workers, InsertNothing(w)
  PROVE  /\ Carries /\ Others(w) /\ Holding' /\ req'[w].drop = {} /\ req[w].drop = {}
         /\ ~Holds(req'[w]) /\ (~Busy(w)' \/ req'[w].key = req[w].key)
<1>1. req[w] \in Request /\ Fits(row, req[w]) /\ req[w].step = "insert" /\ UNCHANGED row
  BY DEF Inv, TypeOK, Holding, InsertNothing
<1>2. req[w].key \in Keys /\ req[w].drop = {} /\ Carries
  BY <1>1, TableStays DEF Request, Fits
<1>3. /\ Missed(None) \in Request /\ Missed(None).step = "select" /\ Missed(None).edit = None
      /\ Missed(None).drop = {}
  BY IdleIsIdle DEF Missed, Request, Steps
<1> DEFINE r == [Missed(None) EXCEPT !.key = req[w].key]
<1>4. r \in Request /\ r.step = "select" /\ r.edit = None /\ r.drop = {} /\ r.key = req[w].key
  BY <1>2, <1>3 DEF Request
<1>5. req' = [req EXCEPT ![w] = r] \/ Finish(w)
  BY DEF InsertNothing, Goto
<1> HIDE DEF r
<1>6. CASE req' = [req EXCEPT ![w] = r]
  BY <1>1, <1>2, <1>4, <1>6, LookupGoes
<1>7. CASE Finish(w)
  BY <1>2, <1>7, Finished
<1>8. QED
  BY <1>5, <1>6, <1>7

\* Merging an edit keeps columns columns.
LEMMA MergeIsColumns ==
  ASSUME NEW c \in Columns, NEW edit \in Edits PROVE Merge(c, edit) \in Columns
BY DEF Columns, Edits, Merge

\* WriteColumns on a live row.
LEMMA WriteGoes ==
  ASSUME Inv, NEW w \in Workers, WriteColumns(w), Live(req[w].copy.id)
  PROVE  LET i == req[w].copy.id
         IN  /\ i \in Ids /\ Carries /\ \A j \in Ids \ {i} : row'[j] = row[j]
             /\ req[w].edit \in Edits
             /\ row'[i].state = "live"
             /\ row'[i].profile.columns = Merge(req[w].copy.columns, req[w].edit)
             /\ wanted' = [wanted EXCEPT ![i] = Merge(wanted[i], req[w].edit)]
             /\ Others(w) /\ Holding' /\ req'[w].step = "drop" /\ req'[w].key = req[w].key
             /\ req'[w].drop = {i, row[i].profile.email} /\ req[w].drop = {}
             /\ req'[w].copy = row'[i].profile
             /\ Holds(req[w]) /\ req[w].key = i
<1> DEFINE i == req[w].copy.id
           new == [state |-> "live", profile |-> Merged(w)]
           r == [req[w] EXCEPT !.step = "drop", !.edit = None, !.copy = Merged(w),
                               !.drop = KeysOf(Merged(w))]
<1>1. req[w] \in Request /\ Fits(row, req[w]) /\ Holds(req[w]) /\ req[w].step = "write"
  BY DEF Inv, TypeOK, Holding, WriteColumns, Holds
<1>2. /\ req[w].edit \in Edits /\ req[w].drop = {}
      /\ Stands(row, req[w].copy) /\ req[w].key \in KeysOf(req[w].copy)
  BY <1>1 DEF Fits
<1>3. req[w].copy \in Profile /\ i \in Ids /\ req[w].copy.email \in Emails
      /\ req[w].copy.columns \in Columns /\ row[i].profile.email = req[w].copy.email
  BY <1>2 DEF Stands, Profile
<1>4. row[i] \in Row /\ row[i].state = "live" /\ row[i].profile.id = i
  BY <1>3 DEF Inv, TypeOK, RowsNamed, Live
<1>5. row[i].profile \in Profile
  BY <1>4 DEF Row
<1>6. Merge(req[w].copy.columns, req[w].edit) \in Columns
  BY <1>2, <1>3, MergeIsColumns
<1>7. /\ Merged(w) \in Profile /\ Merged(w).id = i /\ Merged(w).email = row[i].profile.email
      /\ Merged(w).columns = Merge(req[w].copy.columns, req[w].edit)
  BY <1>4, <1>5, <1>6 DEF Merged, Profile
<1>8. KeysOf(Merged(w)) = {i, row[i].profile.email} /\ KeysOf(Merged(w)) \subseteq Keys
  BY <1>3, <1>7 DEF KeysOf, Keys
<1>9. /\ Write(i, new) /\ req' = [req EXCEPT ![w] = r]
      /\ wanted' = [wanted EXCEPT ![i] = Merge(wanted[i], req[w].edit)]
  BY DEF WriteColumns, Goto
<1>10. new \in Row /\ new.state = "live" /\ new.profile = Merged(w)
  BY <1>7 DEF Row
<1>11. /\ r \in Request /\ r.step = "drop" /\ r.copy = Merged(w) /\ r.key = req[w].key
       /\ r.drop = {i, row[i].profile.email} /\ r.edit = None
  BY <1>1, <1>7, <1>8 DEF Request, Steps
<1> HIDE DEF new, r
<1>12. Carries /\ row'[i] = new /\ \A j \in Ids \ {i} : row'[j] = row[j]
  BY <1>3, <1>4, <1>7, <1>9, <1>10, RowWritten
<1>13. Stands(row', Merged(w)) /\ row'[i].profile.email = row[i].profile.email
  BY <1>7, <1>10, <1>12 DEF Stands
<1>14. req[w].key \in {i, row[i].profile.email} /\ req[w].key \in Ids
  BY <1>1, <1>2, <1>3 DEF Fits, KeysOf
<1>15. req[w].key = i /\ req[w].key \in KeysOf(Merged(w))
  BY <1>3, <1>7, <1>14, ConstantsOK DEF KeysOf
<1>16. Fits(row', r)
  BY <1>3, <1>10, <1>11, <1>12, <1>13, <1>15 DEF Fits, Holds
<1>17. Others(w) /\ req'[w] = r /\ Holding'
  BY <1>9, <1>11, <1>12, <1>16, Handed
<1>18. QED
  BY <1>1, <1>2, <1>3, <1>7, <1>9, <1>10, <1>11, <1>12, <1>15, <1>17

\* What follows a deletion of keys, whether it succeeds or not.
LEMMA AfterDropGoes ==
  ASSUME Inv, UNCHANGED row, NEW w \in Workers, req[w].step = "drop", AfterDrop(w)
  PROVE  /\ Carries /\ Others(w) /\ Holding' /\ req'[w].drop = {} /\ req[w].key \in Ids
         /\ req[w].drop \subseteq {req[w].key, row[req[w].key].profile.email}
         /\ \/ ~Busy(w)' /\ ~Holds(req'[w])
            \/ /\ req'[w].copy = req[w].copy /\ req'[w].key = req[w].key
               /\ Holds(req[w])
<1>1. req[w] \in Request /\ Fits(row, req[w])
  BY DEF Inv, TypeOK, Holding
<1>2. /\ Carries /\ req[w].key \in Ids
      /\ req[w].drop \subseteq {req[w].key, row[req[w].key].profile.email}
  BY <1>1, TableStays DEF Fits
<1>3. CASE req[w].copy = None
  BY <1>2, <1>3, Finished DEF AfterDrop
<1>4. CASE req[w].copy # None
  <2> DEFINE r == [req[w] EXCEPT !.step = "fillId", !.drop = {}]
  <2>1. /\ r \in Request /\ r.step = "fillId" /\ r.drop = {}
        /\ r.copy = req[w].copy /\ r.key = req[w].key /\ r.edit = req[w].edit
    BY <1>1 DEF Request, Steps
  <2>2. req' = [req EXCEPT ![w] = r] /\ Holds(req[w])
    BY <1>4 DEF AfterDrop, Goto, Holds
  <2> HIDE DEF r
  <2>3. QED
    BY <1>2, <2>1, <2>2, StepTaken
<1>5. QED
  BY <1>3, <1>4

\* An update that finds its row gone.
LEMMA WriteMisses ==
  ASSUME Inv, NEW w \in Workers, WriteColumns(w), ~Live(req[w].copy.id)
  PROVE  /\ Carries /\ UNCHANGED <<row, wanted>> /\ Others(w) /\ Holding' /\ ~Busy(w)'
         /\ ~Holds(req'[w]) /\ req'[w].drop = {} /\ req[w].drop = {}
<1>1. req[w] \in Request /\ Fits(row, req[w]) /\ req[w].step = "write"
  BY DEF Inv, TypeOK, Holding, WriteColumns
<1>2. UNCHANGED <<row, wanted>> /\ Finish(w) /\ req[w].drop = {}
  BY <1>1 DEF WriteColumns, Fits
<1>3. QED
  BY <1>2, TableStays, Finished

\* Stop ends the request and leaves the table as it is.
LEMMA StopGoes ==
  ASSUME Inv, NEW w \in Workers, Stop(w)
  PROVE  /\ Carries /\ Others(w) /\ Holding' /\ ~Busy(w)'
         /\ ~Holds(req'[w]) /\ req'[w].drop = {}
         /\ req[w].drop # {} => /\ req[w].key \in Ids
                                /\ req[w].drop \subseteq {req[w].key, row[req[w].key].profile.email}
<1>1. req[w] \in Request /\ Fits(row, req[w]) /\ UNCHANGED row /\ Finish(w)
  BY DEF Inv, TypeOK, Holding, Stop
<1>2. QED
  BY <1>1, TableStays, Finished DEF Fits

-----------------------------------------------------------------------------
\* The cache, the stream and the ghosts.

\* Redis letting keys go.
LEMMA CacheShrinks ==
  ASSUME Inv, Carries, cache' \in [Keys -> Profile \cup {None}],
         \A k \in Keys : cache'[k] \in {None, cache[k]}
  PROVE  CacheFits'
<1>1. \A k \in Keys : cache[k] # None => k \in KeysOf(cache[k]) /\ Stands(row', cache[k])
  BY StillStands DEF Inv, CacheFits
<1>2. QED
  BY <1>1 DEF CacheFits

\* Filling one key of the profile in hand, or failing to.
LEMMA Filled ==
  ASSUME Inv, UNCHANGED row, NEW w \in Workers, Holds(req[w]), NEW k \in KeysOf(req[w].copy),
         Fill(w, k)
  PROVE  /\ cache' \in [Keys -> Profile \cup {None}] /\ CacheFits' /\ unsure' \subseteq Keys
         /\ k \in Keys /\ \A l \in Keys \ {k} : cache'[l] = cache[l]
         /\ cache'[k] = req[w].copy \/ cache'[k] = cache[k]
<1>1. Fits(row, req[w])
  BY DEF Inv, Holding
<1>2. Stands(row, req[w].copy)
  BY <1>1 DEF Fits
<1>3. req[w].copy \in Profile /\ k \in Keys
  BY <1>2 DEF Stands, Profile, KeysOf, Keys
<1>4. /\ cache' \in [Keys -> Profile \cup {None}] /\ unsure' \subseteq Keys
      /\ \A l \in Keys \ {k} : cache'[l] = cache[l]
      /\ cache'[k] = req[w].copy \/ cache'[k] = cache[k]
  BY <1>3 DEF Fill, Inv, TypeOK
<1>5. \A l \in Keys : cache[l] # None => l \in KeysOf(cache[l]) /\ Stands(row, cache[l])
  BY DEF Inv, CacheFits
<1>6. CacheFits'
  BY <1>2, <1>3, <1>4, <1>5 DEF CacheFits
<1>7. QED
  BY <1>3, <1>4, <1>6

\* FillId and FillEmail fill keys of the profile in hand.
LEMMA FillsOwn ==
  ASSUME Inv, NEW w \in Workers, FillId(w) \/ FillEmail(w)
  PROVE  \E k \in KeysOf(req[w].copy) : Fill(w, k)
BY DEF FillId, FillEmail, KeysOf

\* What the stream shows is a profile.
LEMMA StreamTyped ==
  ASSUME TypeOK
  PROVE  /\ \A w \in Workers : EndStream(w) => (stream' \in [state : {"unopened", "open", "ended"},
                                                       id : Ids, last : Profile \cup {None}])
         /\ \A p \in Profile : Send(p) => (stream' \in [state : {"unopened", "open", "ended"},
                                                       id : Ids, last : Profile \cup {None}])
BY DEF TypeOK, EndStream, Send

\* Addresses of keys are addresses.
LEMMA AddressIsEmail ==
  ASSUME Inv, NEW k \in Keys PROVE Address(k) \in Emails
<1>1. \A i \in Ids : row[i].profile \in Profile
  BY DEF Inv, TypeOK, Row
<1>2. QED
  BY <1>1 DEF Address, Keys, Profile

\* Requests that begin are noticed where they meet another.
LEMMA BeginCounts ==
  ASSUME Inv, NEW w \in Workers, NEW k \in Keys, NEW new, Begin(w, k, new)
  PROVE  contended' \subseteq Emails /\ contended \subseteq contended'
BY AddressIsEmail DEF Begin, Inv, TypeOK

LEMMA Counted == ASSUME Inv, Count PROVE requests' \in 0 .. MaxRequests
BY ConstantsOK DEF Inv, TypeOK, Count

\* A step that leaves the cache alone keeps what is in it.
LEMMA CacheStays == ASSUME Inv, Carries, UNCHANGED cache PROVE CacheFits'
BY CacheShrinks DEF Inv, TypeOK

-----------------------------------------------------------------------------
\* Inv is an invariant.

LEMMA InvInit == Init => Inv
<1> SUFFICES ASSUME Init PROVE Inv
  OBVIOUS
<1>1. PICK state \in [Ids -> {"absent", "live"}], email \in [Ids -> Emails] :
        row = [i \in Ids |-> [state |-> state[i], profile |-> NewProfile(i, email[i])]]
  BY DEF Init
<1>2. \A i \in Ids : /\ row[i] = [state |-> state[i], profile |-> NewProfile(i, email[i])]
                     /\ NewProfile(i, email[i]) \in Profile /\ NewProfile(i, email[i]).id = i
                     /\ NewProfile(i, email[i]).columns \in Columns
  BY <1>1, NewIsProfile
<1>3. ASSUME NEW i \in Ids
      PROVE  row[i] \in Row /\ row[i].profile.id = i /\ row[i].profile.columns \in Columns
  <2> DEFINE p == NewProfile(i, email[i])
  <2>1. row[i] = [state |-> state[i], profile |-> p] /\ p \in Profile /\ p.id = i /\ p.columns \in Columns
    BY <1>2
  <2> HIDE DEF p
  <2>2. state[i] \in {"absent", "live", "deleted"}
    OBVIOUS
  <2>3. QED
    BY <2>1, <2>2 DEF Row
<1>4. row \in [Ids -> Row] /\ RowsNamed /\ wanted \in [Ids -> Columns]
  BY <1>1, <1>3 DEF RowsNamed, Init
<1>5. Idle \in Request /\ Fits(row, Idle)
  BY IdleIsIdle DEF Fits, Holds
<1>6. (CHOOSE i \in Ids : TRUE) \in Ids
  BY ConstantsOK
<1>7. requests \in 0 .. MaxRequests
  BY ConstantsOK DEF Init
<1>8. TypeOK /\ Holding
  BY <1>4, <1>5, <1>6, <1>7 DEF Init, TypeOK, Holding
<1>9. CacheFits
  BY DEF Init, CacheFits
<1>10. QED
  BY <1>4, <1>8, <1>9 DEF Inv

\* The steps that begin a request.
LEMMA ArriveKeepsInv == ASSUME Inv, NEW w \in Workers, Arrive(w) PROVE Inv'
<1>1. ASSUME NEW k \in Keys, GetUser(w, k) PROVE Inv'
  <2>1. Others(w) /\ Holding' /\ UNCHANGED row
    BY <1>1, LookupBegins DEF GetUser
  <2>2. Carries /\ CacheFits'
    BY <1>1, <2>1, TableStays, CacheStays DEF GetUser
  <2>3. requests' \in 0 .. MaxRequests /\ contended' \subseteq Emails
    BY <1>1, Counted, BeginCounts DEF GetUser
  <2>4. QED
    BY <1>1, <2>1, <2>2, <2>3 DEF GetUser, Inv, TypeOK, Others, Carries
<1>2. ASSUME NEW i \in Ids, NEW edit \in Edits, UpdateUser(w, i, edit) PROVE Inv'
  <2>1. Others(w) /\ Holding' /\ UNCHANGED row
    <3>1. i \in Keys /\ UNCHANGED row
      BY <1>2 DEF Keys, UpdateUser
    <3>2. QED
      BY <1>2, <3>1, LookupBegins, HitBegins DEF UpdateUser
  <2>2. Carries /\ CacheFits'
    BY <1>2, <2>1, TableStays, CacheStays DEF UpdateUser
  <2>3. requests' \in 0 .. MaxRequests /\ contended' \subseteq Emails
    BY <1>2, Counted, BeginCounts DEF UpdateUser, Keys
  <2>4. QED
    BY <1>2, <2>1, <2>2, <2>3 DEF UpdateUser, Inv, TypeOK, Others, Carries
<1>3. ASSUME NEW i \in Ids, NEW f \in Flags, SetFlag(w, i, f) PROVE Inv'
  <2>1. Carries /\ Others(w) /\ Holding'
    BY <1>3, SetFlagGoes
  <2>2. CacheFits'
    BY <1>3, <2>1, CacheStays DEF SetFlag
  <2>3. requests' \in 0 .. MaxRequests /\ contended' \subseteq Emails
    BY <1>3, Counted, BeginCounts DEF SetFlag, Keys
  <2>4. QED
    BY <1>3, <2>1, <2>2, <2>3 DEF SetFlag, Inv, TypeOK, Others, Carries
<1>4. ASSUME NEW i \in Ids, DeleteUser(w, i) PROVE Inv'
  <2>1. Carries /\ Others(w) /\ Holding'
    BY <1>4, DeleteGoes
  <2>2. CacheFits'
    BY <1>4, <2>1, CacheStays DEF DeleteUser
  <2>3. requests' \in 0 .. MaxRequests /\ contended' \subseteq Emails
    BY <1>4, Counted, BeginCounts DEF DeleteUser, Keys
  <2>4. QED
    BY <1>4, <2>1, <2>2, <2>3 DEF DeleteUser, Inv, TypeOK, Others, Carries
<1>5. ASSUME NEW e \in Emails, CreateUser(w, e) PROVE Inv'
  <2>1. Others(w) /\ Holding' /\ UNCHANGED row
    BY <1>5, CreateGoes DEF CreateUser
  <2>2. Carries /\ CacheFits'
    BY <1>5, <2>1, TableStays, CacheStays DEF CreateUser
  <2>3. requests' \in 0 .. MaxRequests /\ contended' \subseteq Emails
    BY <1>5, Counted, BeginCounts DEF CreateUser, Keys
  <2>4. QED
    BY <1>5, <2>1, <2>2, <2>3 DEF CreateUser, Inv, TypeOK, Others, Carries
<1>6. QED
  BY <1>1, <1>2, <1>3, <1>4, <1>5 DEF Arrive

\* The steps that go on with one.
LEMMA ContinueKeepsInv == ASSUME Inv, NEW w \in Workers, Continue(w) PROVE Inv'
<1>1. CASE Select(w)
  <2>1. Carries /\ Others(w) /\ Holding' /\ CacheFits'
    BY <1>1, SelectGoes, CacheStays DEF Select
  <2>2. stream' \in [state : {"unopened", "open", "ended"}, id : Ids, last : Profile \cup {None}]
    BY <1>1, StreamTyped DEF Select, Inv, TypeOK
  <2>3. QED
    BY <1>1, <2>1, <2>2 DEF Select, Inv, TypeOK, Others, Carries
<1>2. CASE FillId(w) \/ FillEmail(w)
  <2>1. /\ Carries /\ Others(w) /\ Holding' /\ Holds(req[w])
        /\ UNCHANGED <<row, requests, wanted, contended>>
    BY <1>2, FillGoes DEF FillId, FillEmail
  <2>2. cache' \in [Keys -> Profile \cup {None}] /\ CacheFits' /\ unsure' \subseteq Keys
    BY <1>2, <2>1, FillsOwn, Filled
  <2>3. req[w].copy \in Profile
    BY <2>1 DEF Inv, Holding, Fits, Stands
  <2>4. stream' \in [state : {"unopened", "open", "ended"}, id : Ids, last : Profile \cup {None}]
    BY <1>2, <2>3, StreamTyped DEF FillId, FillEmail, Inv, TypeOK
  <2>5. QED
    BY <2>1, <2>2, <2>4 DEF Inv, TypeOK, Others, Carries
<1>3. CASE Insert(w)
  <2>1. PICK i \in Ids :
          /\ Carries /\ Others(w) /\ Holding' /\ req[w].key \in Emails
          /\ row'[i].profile = NewProfile(i, req[w].key)
          /\ wanted' = [wanted EXCEPT ![i] = row'[i].profile.columns]
          /\ contended' = IF \E v \in Workers : Busy(v) /\ req[v].key = i
                          THEN contended \cup {req[w].key} ELSE contended
    BY <1>3, InsertGoes
  <2>2. row'[i].profile.columns \in Columns
    BY <2>1, NewIsProfile
  <2>3. CacheFits'
    BY <1>3, <2>1, CacheStays DEF Insert
  <2>4. wanted' \in [Ids -> Columns] /\ contended' \subseteq Emails
    BY <2>1, <2>2 DEF Inv, TypeOK
  <2>5. QED
    BY <1>3, <2>1, <2>3, <2>4 DEF Insert, Inv, TypeOK, Others, Carries
<1>4. CASE InsertNothing(w)
  <2>1. Carries /\ Others(w) /\ Holding' /\ CacheFits'
    BY <1>4, InsertNothingGoes, CacheStays DEF InsertNothing
  <2>2. QED
    BY <1>4, <2>1 DEF InsertNothing, Inv, TypeOK, Others, Carries
<1>5. CASE WriteColumns(w) /\ Live(req[w].copy.id)
  <2> DEFINE i == req[w].copy.id
  <2>1. /\ i \in Ids /\ Carries /\ Others(w) /\ Holding' /\ req[w].edit \in Edits
        /\ wanted' = [wanted EXCEPT ![i] = Merge(wanted[i], req[w].edit)]
    BY <1>5, WriteGoes
  <2>2. wanted' \in [Ids -> Columns]
    BY <2>1, MergeIsColumns DEF Inv, TypeOK
  <2>3. CacheFits'
    BY <1>5, <2>1, CacheStays DEF WriteColumns
  <2>4. QED
    BY <1>5, <2>1, <2>2, <2>3 DEF WriteColumns, Inv, TypeOK, Others, Carries
<1>6. CASE WriteColumns(w) /\ ~Live(req[w].copy.id)
  <2>1. Carries /\ Others(w) /\ Holding' /\ UNCHANGED wanted
    BY <1>6, WriteMisses
  <2>2. CacheFits'
    BY <1>6, <2>1, CacheStays DEF WriteColumns
  <2>3. QED
    BY <1>6, <2>1, <2>2 DEF WriteColumns, Inv, TypeOK, Others, Carries
<1>7. CASE Drop(w)
  <2>1. Carries /\ Others(w) /\ Holding'
    BY <1>7, AfterDropGoes DEF Drop
  <2>2. cache' \in [Keys -> Profile \cup {None}] /\ \A k \in Keys : cache'[k] \in {None, cache[k]}
    BY <1>7 DEF Drop, Inv, TypeOK
  <2>3. CacheFits'
    BY <2>1, <2>2, CacheShrinks
  <2>4. QED
    BY <1>7, <2>1, <2>2, <2>3 DEF Drop, Inv, TypeOK, Others, Carries
<1>8. QED
  BY <1>1, <1>2, <1>3, <1>4, <1>5, <1>6, <1>7 DEF Continue

\* The stream's lookups, failures, and what no request does.
LEMMA PollKeepsInv == ASSUME Inv, NEW w \in Workers, Poll(w) PROVE Inv'
<1>1. UNCHANGED <<row, cache, requests, wanted, unsure>> /\ stream.id \in Ids /\ stream.id \in Keys
  BY DEF Poll, Inv, TypeOK, Keys
<1>2. CASE Begin(w, stream.id, [Missed(None) EXCEPT !.poll = TRUE]) /\ UNCHANGED stream
  <2>1. Others(w) /\ Holding'
    BY <1>1, <1>2, LookupBegins
  <2>2. Carries /\ CacheFits' /\ contended' \subseteq Emails
    BY <1>1, <1>2, TableStays, CacheStays, BeginCounts
  <2>3. QED
    BY <1>1, <1>2, <2>1, <2>2 DEF Inv, TypeOK, Others, Carries
<1>3. CASE cache[stream.id] # None /\ Send(cache[stream.id]) /\ UNCHANGED <<req, contended>>
  <2>1. cache[stream.id] \in Profile
    BY <1>1, <1>3 DEF Inv, TypeOK
  <2>2. stream' \in [state : {"unopened", "open", "ended"}, id : Ids, last : Profile \cup {None}]
    BY <1>3, <2>1, StreamTyped DEF Inv
  <2>3. QED
    BY <1>1, <1>3, <2>2 DEF Inv, TypeOK, RowsNamed, CacheFits, Holding
<1>4. QED
  BY <1>2, <1>3 DEF Poll

LEMMA FailureKeepsInv == ASSUME Inv, NEW w \in Workers, DropFails(w) \/ Stop(w) PROVE Inv'
<1>1. /\ Carries /\ Others(w) /\ Holding' /\ Lose(w) /\ UNCHANGED <<row, cache, requests, wanted>>
  BY AfterDropGoes, StopGoes DEF DropFails, Stop
<1>2. stream' \in [state : {"unopened", "open", "ended"}, id : Ids, last : Profile \cup {None}]
  BY StreamTyped DEF DropFails, Stop, Inv, TypeOK
<1>3. CacheFits'
  BY <1>1, CacheStays
<1>4. req[w].key \in Keys /\ req[w].drop \subseteq Keys
  BY DEF Inv, TypeOK, Request
<1>5. unsure' \subseteq Keys /\ contended' \subseteq Emails
  BY <1>1, <1>4, AddressIsEmail DEF Lose, Inv, TypeOK
<1>6. QED
  BY <1>1, <1>2, <1>3, <1>5 DEF Inv, TypeOK, Others, Carries

LEMMA InvStep == Inv /\ [Next]_vars => Inv'
<1> SUFFICES ASSUME Inv, [Next]_vars PROVE Inv'
  OBVIOUS
<1>1. CASE UNCHANGED vars
  BY <1>1 DEF vars, Inv, TypeOK, RowsNamed, CacheFits, Holding
<1>2. CASE HangUp \/ \E i \in Ids : WatchUser(i)
  BY <1>2 DEF HangUp, WatchUser, Inv, TypeOK, RowsNamed, CacheFits, Holding
<1>3. ASSUME NEW k \in Keys, Expire(k) PROVE Inv'
  <2>1. /\ UNCHANGED <<row, req, stream, requests, wanted, contended>>
        /\ cache' \in [Keys -> Profile \cup {None}] /\ unsure' \subseteq Keys
        /\ \A l \in Keys : cache'[l] \in {None, cache[l]}
    BY <1>3 DEF Expire, Inv, TypeOK
  <2>2. CacheFits'
    BY <2>1, TableStays, CacheShrinks
  <2>3. QED
    BY <2>1, <2>2 DEF Inv, TypeOK, RowsNamed, Holding
<1>4. QED
  BY <1>1, <1>2, <1>3, ArriveKeepsInv, ContinueKeepsInv, PollKeepsInv, FailureKeepsInv DEF Next

\* Every reachable state is well typed, every copy of a profile names a row that is or
\* was in the table and its address, and a request has in hand what its next statement
\* needs: internal/repository/user_repository.go with any number of requests at work.
THEOREM TypeCorrect == Spec => []TypeOK
<1>1. Inv => TypeOK
  BY DEF Inv
<1>2. QED
  BY InvInit, InvStep, <1>1, PTL DEF Spec

-----------------------------------------------------------------------------
\* Why every key is explained: KeysExplained is inductive, given Inv.

\* A cached profile is the row's, but for the flags the key of the e-mail may lack.
Agrees(table, k, p) ==
    /\ table[p.id].state = "live"
    /\ \/ p = table[p.id].profile
       \/ /\ k \in Emails /\ p.columns = table[p.id].profile.columns
          /\ p.flags \subseteq table[p.id].profile.flags

Dropping(k) == \E w \in Workers : k \in req[w].drop

ExplainedKey(k) == cache[k] # None => Dropping(k) \/ Agrees(row, k, cache[k])

LEMMA KeysExplainedOne == /\ KeysExplained <=> \A k \in Keys \ unsure : ExplainedKey(k)
                          /\ KeysExplained' <=> \A k \in Keys \ unsure' : ExplainedKey(k)'
<1>1. KeysExplained <=> \A k \in Keys \ unsure : ExplainedKey(k)
  BY DEF KeysExplained, ExplainedKey, Dropping, Agrees, Live
<1>2. KeysExplained' <=> \A k \in Keys \ unsure' : ExplainedKey(k)'
  BY DEF KeysExplained, ExplainedKey, Dropping, Agrees, Live
<1>3. QED
  BY <1>1, <1>2

\* A key stays explained if it keeps what is cached, what one worker has still to
\* delete of it, and either its agreement with the row or a deletion to come.
LEMMA StaysExplained ==
  ASSUME KeysExplained, NEW w \in Workers, Others(w),
         \A k \in Keys \ unsure' : cache'[k] # None =>
            /\ k \notin unsure /\ cache'[k] = cache[k]
            /\ k \in req[w].drop => k \in req'[w].drop
            /\ Agrees(row, k, cache[k]) => Agrees(row', k, cache[k]) \/ k \in req'[w].drop
  PROVE  KeysExplained'
<1>1. ASSUME NEW k \in Keys \ unsure', cache'[k] # None
      PROVE  Dropping(k)' \/ Agrees(row', k, cache'[k])
  <2>1. /\ k \notin unsure /\ cache'[k] = cache[k]
        /\ k \in req[w].drop => k \in req'[w].drop
        /\ Agrees(row, k, cache[k]) => Agrees(row', k, cache[k]) \/ k \in req'[w].drop
    BY <1>1
  <2>2. Dropping(k) \/ Agrees(row, k, cache[k])
    BY <1>1, <2>1, KeysExplainedOne DEF ExplainedKey
  <2>3. Dropping(k) => Dropping(k)'
    BY <2>1 DEF Dropping, Others
  <2>4. k \in req'[w].drop => Dropping(k)'
    BY DEF Dropping
  <2>5. QED
    BY <2>1, <2>2, <2>3, <2>4
<1>2. QED
  BY <1>1, KeysExplainedOne DEF ExplainedKey

\* The same where the table is left alone and nothing is filled.
LEMMA StaysExplainedQuietly ==
  ASSUME KeysExplained, NEW w \in Workers, Others(w), UNCHANGED <<row, cache, unsure>>,
         req[w].drop \subseteq req'[w].drop
  PROVE  KeysExplained'
BY StaysExplained

\* A cached profile that names row i is under its id or its e-mail.
LEMMA CachedUnder ==
  ASSUME Inv, NEW k \in Keys, cache[k] # None
  PROVE  /\ cache[k].id \in Ids /\ cache[k] \in Profile /\ row[cache[k].id].state # "absent"
         /\ k \in {cache[k].id, row[cache[k].id].profile.email}
         /\ row[cache[k].id].profile.email = cache[k].email
         /\ k \in Ids => k = cache[k].id
         /\ k \in Emails => k = cache[k].email
<1>1. k \in KeysOf(cache[k]) /\ Stands(row, cache[k])
  BY DEF Inv, CacheFits
<1>2. QED
  BY <1>1, ConstantsOK DEF KeysOf, Stands, Profile

\* An idle worker has nothing to delete.
LEMMA IdleDropsNothing == ASSUME Inv, NEW w \in Workers, ~Busy(w) PROVE req[w].drop = {}
BY DEF Inv, Holding, Fits, Busy

LEMMA ArriveExplains == ASSUME Inv, KeysExplained, NEW w \in Workers, Arrive(w) PROVE KeysExplained'
<1>1. ASSUME NEW k \in Keys, GetUser(w, k) PROVE KeysExplained'
  <2>1. Others(w) /\ ~Busy(w) /\ UNCHANGED <<row, cache, unsure>>
    BY <1>1, LookupBegins DEF GetUser
  <2>2. QED
    BY <2>1, IdleDropsNothing, StaysExplainedQuietly
<1>2. ASSUME NEW i \in Ids, NEW edit \in Edits, UpdateUser(w, i, edit) PROVE KeysExplained'
  <2>1. i \in Keys /\ UNCHANGED <<row, cache, unsure>>
    BY <1>2 DEF Keys, UpdateUser
  <2>2. Others(w) /\ ~Busy(w)
    BY <1>2, <2>1, LookupBegins, HitBegins DEF UpdateUser
  <2>3. QED
    BY <2>1, <2>2, IdleDropsNothing, StaysExplainedQuietly
<1>3. ASSUME NEW i \in Ids, NEW f \in Flags, SetFlag(w, i, f) PROVE KeysExplained'
  <2>1. /\ Others(w) /\ ~Busy(w) /\ req'[w].drop = {i} /\ UNCHANGED <<cache, unsure>>
        /\ \A j \in Ids \ {i} : row'[j] = row[j]
        /\ row'[i].state = "live" /\ row'[i].profile.columns = row[i].profile.columns
        /\ row[i].profile.flags \subseteq row'[i].profile.flags
    BY <1>3, SetFlagGoes DEF SetFlag
  <2>2. req[w].drop = {}
    BY <2>1, IdleDropsNothing
  <2>3. ASSUME NEW k \in Keys, cache[k] # None, Agrees(row, k, cache[k])
        PROVE  Agrees(row', k, cache[k]) \/ k \in req'[w].drop
    <3>1. CASE cache[k].id # i
      BY <2>1, <2>3, <3>1, CachedUnder DEF Agrees
    <3>2. CASE cache[k].id = i /\ k \in Emails
      BY <2>1, <2>3, <3>2 DEF Agrees
    <3>3. CASE cache[k].id = i /\ k \in Ids
      BY <2>1, <2>3, <3>3, CachedUnder
    <3>4. QED
      BY <3>1, <3>2, <3>3 DEF Keys
  <2>4. QED
    BY <2>1, <2>2, <2>3, StaysExplained
<1>4. ASSUME NEW i \in Ids, DeleteUser(w, i) PROVE KeysExplained'
  <2>1. /\ Others(w) /\ ~Busy(w) /\ req'[w].drop = {i, row[i].profile.email}
        /\ UNCHANGED <<cache, unsure>> /\ \A j \in Ids \ {i} : row'[j] = row[j]
    BY <1>4, DeleteGoes DEF DeleteUser
  <2>2. req[w].drop = {}
    BY <2>1, IdleDropsNothing
  <2>3. ASSUME NEW k \in Keys, cache[k] # None, Agrees(row, k, cache[k])
        PROVE  Agrees(row', k, cache[k]) \/ k \in req'[w].drop
    <3>1. CASE cache[k].id # i
      BY <2>1, <2>3, <3>1, CachedUnder DEF Agrees
    <3>2. CASE cache[k].id = i
      BY <2>1, <2>3, <3>2, CachedUnder
    <3>3. QED
      BY <3>1, <3>2
  <2>4. QED
    BY <2>1, <2>2, <2>3, StaysExplained
<1>5. ASSUME NEW e \in Emails, CreateUser(w, e) PROVE KeysExplained'
  <2>1. Others(w) /\ ~Busy(w) /\ UNCHANGED <<row, cache, unsure>>
    BY <1>5, CreateGoes DEF CreateUser
  <2>2. QED
    BY <2>1, IdleDropsNothing, StaysExplainedQuietly
<1>6. QED
  BY <1>1, <1>2, <1>3, <1>4, <1>5 DEF Arrive

\* A fill either puts the row's profile in or makes the key unsure.
LEMMA FillExplains ==
  ASSUME Inv, KeysExplained, NEW w \in Workers, FillId(w) \/ FillEmail(w) PROVE KeysExplained'
<1>1. Others(w) /\ req'[w].drop = {} /\ req[w].drop = {} /\ Holds(req[w]) /\ UNCHANGED row
  BY FillGoes DEF FillId, FillEmail
<1>2. PICK k \in KeysOf(req[w].copy) : Fill(w, k)
  BY FillsOwn
<1>3. k \in Keys /\ \A l \in Keys \ {k} : cache'[l] = cache[l]
  BY <1>1, <1>2, Filled
<1>4. Fits(row, req[w])
  BY DEF Inv, Holding
<1>5. CASE UNCHANGED <<cache, unsure>>
  BY <1>1, <1>5, StaysExplainedQuietly
<1>6. CASE /\ cache' = [cache EXCEPT ![k] = req[w].copy]
           /\ unsure' = IF req[w].copy = Current(k) THEN unsure \ {k} ELSE unsure \cup {k}
  <2>1. cache'[k] = req[w].copy
    BY <1>3, <1>6 DEF Inv, TypeOK
  <2>2. \A l \in Keys : Dropping(l) => Dropping(l)'
    BY <1>1 DEF Dropping, Others
  <2>3. ASSUME NEW l \in Keys \ unsure', cache'[l] # None, l # k
        PROVE  Dropping(l)' \/ Agrees(row', l, cache'[l])
    BY <1>1, <1>3, <1>6, <2>2, <2>3, KeysExplainedOne DEF ExplainedKey
  <2>4. ASSUME k \notin unsure', cache'[k] # None
        PROVE  Agrees(row', k, cache'[k])
    <3>1. req[w].copy = Current(k) /\ Current(k) # None
      BY <1>6, <2>1, <2>4
    <3>2. Live(req[w].copy.id) /\ req[w].copy = row[req[w].copy.id].profile
      BY <1>3, <3>1, CurrentIsLive
    <3>3. QED
      BY <1>1, <2>1, <3>2 DEF Agrees, Live
  <2>5. QED
    BY <2>3, <2>4, KeysExplainedOne DEF ExplainedKey
<1>7. QED
  BY <1>2, <1>5, <1>6 DEF Fill

LEMMA ContinueExplains ==
  ASSUME Inv, KeysExplained, NEW w \in Workers, Continue(w) PROVE KeysExplained'
<1>1. CASE Select(w) \/ InsertNothing(w)
  <2>1. Others(w) /\ req[w].drop = {} /\ UNCHANGED <<row, cache, unsure>>
    BY <1>1, SelectGoes, InsertNothingGoes DEF Select, InsertNothing
  <2>2. QED
    BY <2>1, StaysExplainedQuietly
<1>2. CASE Insert(w)
  <2>1. PICK i \in Ids : /\ row[i].state = "absent" /\ Others(w) /\ req[w].drop = {}
                         /\ \A j \in Ids \ {i} : row'[j] = row[j]
    BY <1>2, InsertGoes
  <2>2. UNCHANGED <<cache, unsure>>
    BY <1>2 DEF Insert
  <2>3. ASSUME NEW k \in Keys, cache[k] # None, Agrees(row, k, cache[k])
        PROVE  Agrees(row', k, cache[k])
    BY <2>1, <2>3, CachedUnder DEF Agrees
  <2>4. QED
    BY <2>1, <2>2, <2>3, StaysExplained
<1>3. CASE WriteColumns(w) /\ Live(req[w].copy.id)
  <2> DEFINE i == req[w].copy.id
  <2>1. /\ i \in Ids /\ Others(w) /\ req[w].drop = {} /\ req'[w].drop = {i, row[i].profile.email}
        /\ \A j \in Ids \ {i} : row'[j] = row[j]
    BY <1>3, WriteGoes
  <2>2. UNCHANGED <<cache, unsure>>
    BY <1>3 DEF WriteColumns
  <2> HIDE DEF i
  <2>3. ASSUME NEW k \in Keys, cache[k] # None, Agrees(row, k, cache[k])
        PROVE  Agrees(row', k, cache[k]) \/ k \in req'[w].drop
    <3>1. CASE cache[k].id # i
      BY <2>1, <2>3, <3>1, CachedUnder DEF Agrees
    <3>2. CASE cache[k].id = i
      BY <2>1, <2>3, <3>2, CachedUnder
    <3>3. QED
      BY <3>1, <3>2
  <2>4. QED
    BY <2>1, <2>2, <2>3, StaysExplained
<1>4. CASE WriteColumns(w) /\ ~Live(req[w].copy.id)
  <2>1. Others(w) /\ req[w].drop = {} /\ UNCHANGED <<row, cache, unsure>>
    BY <1>4, WriteMisses DEF WriteColumns
  <2>2. QED
    BY <2>1, StaysExplainedQuietly
<1>5. CASE Drop(w)
  <2>1. Others(w) /\ UNCHANGED row
    BY <1>5, AfterDropGoes DEF Drop
  <2>2. \A k \in Keys \ unsure' : cache'[k] # None =>
           k \notin unsure /\ cache'[k] = cache[k] /\ k \notin req[w].drop
    BY <1>5 DEF Drop
  <2>3. QED
    BY <2>1, <2>2, StaysExplained
<1>6. QED
  BY <1>1, <1>2, <1>3, <1>4, <1>5, FillExplains DEF Continue

LEMMA FailureExplains ==
  ASSUME Inv, KeysExplained, NEW w \in Workers, DropFails(w) \/ Stop(w) PROVE KeysExplained'
<1>1. Others(w) /\ UNCHANGED <<row, cache>> /\ unsure' = unsure \cup req[w].drop
  BY AfterDropGoes, StopGoes DEF DropFails, Stop, Lose
<1>2. QED
  BY <1>1, StaysExplained

LEMMA PollExplains == ASSUME Inv, KeysExplained, NEW w \in Workers, Poll(w) PROVE KeysExplained'
<1>1. UNCHANGED <<row, cache, unsure>> /\ stream.id \in Keys
  BY DEF Poll, Inv, TypeOK, Keys
<1>2. CASE Begin(w, stream.id, [Missed(None) EXCEPT !.poll = TRUE])
  BY <1>1, <1>2, LookupBegins, IdleDropsNothing, StaysExplainedQuietly
<1>3. CASE UNCHANGED req
  BY <1>1, <1>3 DEF KeysExplained, Live
<1>4. QED
  BY <1>2, <1>3 DEF Poll

LEMMA ExplainedStep == Inv /\ KeysExplained /\ [Next]_vars => KeysExplained'
<1> SUFFICES ASSUME Inv, KeysExplained, [Next]_vars PROVE KeysExplained'
  OBVIOUS
<1>1. CASE UNCHANGED vars \/ HangUp \/ \E i \in Ids : WatchUser(i)
  BY <1>1 DEF vars, HangUp, WatchUser, KeysExplained, Live
<1>2. ASSUME NEW k \in Keys, Expire(k) PROVE KeysExplained'
  <2>1. /\ UNCHANGED <<row, req>> /\ cache'[k] = None
        /\ \A l \in Keys \ {k} : cache'[l] = cache[l] /\ (l \notin unsure' => l \notin unsure)
    BY <1>2 DEF Expire, Inv, TypeOK
  <2>2. QED
    BY <2>1 DEF KeysExplained, Live
<1>3. QED
  BY <1>1, <1>2, ArriveExplains, ContinueExplains, PollExplains, FailureExplains DEF Next

\* Both copies of a profile in Redis are the row's whatever is in flight, unless their
\* writer has still to delete them, a fill came late or a deletion was lost; only the
\* copy under the e-mail may lack a flag set meanwhile.
THEOREM CopiesExplained == Spec => []KeysExplained
<1>1. Init => KeysExplained
  BY DEF Init, KeysExplained
<1>2. QED
  BY InvInit, InvStep, <1>1, ExplainedStep, PTL DEF Spec

-----------------------------------------------------------------------------
\* Why edits survive: while an address is not contended one request at most is about
\* it, and what that request holds and what Redis keeps is the row's, so that an
\* update merges its edit into what the last one left.

\* The address a key is of.
Leads(table, k) == IF k \in Emails THEN k ELSE table[k].profile.email

Fresh(table, p) == table[p.id].state = "live" /\ p.columns = table[p.id].profile.columns

Alone == \A v, w \in Workers : v # w /\ Busy(v) /\ Busy(w) /\ Leads(row, req[v].key) = Leads(row, req[w].key)
             => Leads(row, req[v].key) \in contended

CachedFresh == \A k \in Keys : cache[k] # None /\ cache[k].email \notin contended
                   => Dropping(k) \/ Fresh(row, cache[k])

HeldFresh == \A w \in Workers : Holds(req[w]) /\ req[w].copy.email \notin contended
                 => Fresh(row, req[w].copy)

Survival == Alone /\ CachedFresh /\ HeldFresh /\ EditsSurvive

\* A request that holds a profile is about its address.
LEMMA HeldIsAddressed ==
  ASSUME Inv, NEW w \in Workers, Holds(req[w])
  PROVE  /\ Leads(row, req[w].key) = req[w].copy.email /\ Busy(w) /\ Stands(row, req[w].copy)
         /\ req[w].copy.id \in Ids /\ row[req[w].copy.id].profile.email = req[w].copy.email
         /\ req[w].key \in Emails \/ row[req[w].key].state # "absent"
<1>1. Stands(row, req[w].copy) /\ req[w].key \in KeysOf(req[w].copy)
  BY DEF Inv, Holding, Fits
<1>2. /\ req[w].copy.id \in Ids /\ req[w].copy.email \in Emails
      /\ row[req[w].copy.id].profile.email = req[w].copy.email
      /\ row[req[w].copy.id].state # "absent" /\ req[w].key \in {req[w].copy.id, req[w].copy.email}
  BY <1>1 DEF Stands, Profile, KeysOf
<1>3. Leads(row, req[w].key) = req[w].copy.email
  BY <1>2, ConstantsOK DEF Leads
<1>4. Busy(w)
  BY DEF Busy, Holds
<1>5. QED
  BY <1>1, <1>2, <1>3, <1>4

\* The keys a request has still to delete lead to its address, as what they hold does.
LEMMA DropIsAddressed ==
  ASSUME Inv, NEW w \in Workers, NEW k \in req[w].drop
  PROVE  /\ Busy(w) /\ k \in Keys /\ req[w].key \in Ids /\ Leads(row, k) = Leads(row, req[w].key)
         /\ cache[k] # None => cache[k].email = Leads(row, req[w].key)
<1>1. req[w] \in Request /\ Fits(row, req[w])
  BY DEF Inv, TypeOK, Holding
<1>2. /\ Busy(w) /\ req[w].key \in Ids /\ k \in {req[w].key, row[req[w].key].profile.email}
      /\ k \in Keys
  BY <1>1 DEF Fits, Busy, Request
<1>3. row[req[w].key].profile.email \in Emails
  BY <1>2 DEF Inv, TypeOK, Row, Profile
<1>4. Leads(row, req[w].key) = row[req[w].key].profile.email /\ Leads(row, k) = Leads(row, req[w].key)
  BY <1>2, <1>3, ConstantsOK DEF Leads
<1>5. ASSUME cache[k] # None PROVE cache[k].email = Leads(row, req[w].key)
  BY <1>2, <1>3, <1>4, <1>5, CachedUnder, ConstantsOK
<1>6. QED
  BY <1>2, <1>4, <1>5

\* A request that begins stays alone on its address, or makes it contended.
LEMMA BeginsAlone ==
  ASSUME Inv, Carries, Alone, NEW w \in Workers, NEW k \in Keys, NEW new, Begin(w, k, new),
         Others(w), req'[w].key = k, \A i \in Ids : row'[i].profile.email = row[i].profile.email
  PROVE  /\ Alone' /\ contended \subseteq contended'
         /\ \A v \in Workers \ {w} : Busy(v) /\ Leads(row, req[v].key) = Leads(row, k) => Leads(row, k) \in contended'
<1>1. \A l \in Keys : Leads(row', l) = Leads(row, l)
  BY DEF Leads, Keys
<1>2. /\ contended \subseteq contended'
      /\ \A v \in Workers \ {w} : Busy(v) /\ Leads(row, req[v].key) = Leads(row, k) => Leads(row, k) \in contended'
  BY DEF Begin, Address, Leads
<1>3. \A v \in Workers : req[v].key \in Keys
  BY DEF Inv, TypeOK, Request
<1>4. \A v \in Workers \ {w} : (Busy(v)' <=> Busy(v)) /\ req'[v].key = req[v].key
  BY DEF Others, Busy
<1>5. \A v \in Workers : Leads(row', req'[v].key) = Leads(row, req'[v].key)
  BY <1>1, <1>3, <1>4
<1>6. ASSUME NEW u \in Workers, NEW v \in Workers, u # v, Busy(u)', Busy(v)',
             Leads(row, req'[u].key) = Leads(row, req'[v].key)
      PROVE  Leads(row, req'[u].key) \in contended'
  BY <1>2, <1>4, <1>6 DEF Alone
<1>7. Alone'
  BY <1>5, <1>6 DEF Alone
<1>8. QED
  BY <1>2, <1>7

\* One that goes on about the same key, or ends, stays alone.
LEMMA GoesAlone ==
  ASSUME Inv, Alone, NEW w \in Workers, Others(w), Busy(w),
         ~Busy(w)' \/ req'[w].key = req[w].key,
         \A i \in Ids : row'[i].profile.email = row[i].profile.email, contended \subseteq contended'
  PROVE  Alone'
<1>1. \A l \in Keys : Leads(row', l) = Leads(row, l)
  BY DEF Leads, Keys
<1>2. \A v \in Workers : req[v].key \in Keys
  BY DEF Inv, TypeOK, Request
<1>3. \A v \in Workers : Busy(v)' => Busy(v) /\ req'[v].key = req[v].key
  BY DEF Others, Busy
<1>4. \A v \in Workers : Busy(v)' => Leads(row', req'[v].key) = Leads(row, req[v].key)
  BY <1>1, <1>2, <1>3
<1>5. QED
  BY <1>3, <1>4 DEF Alone

\* One that inserts a row stays alone, or another has asked for the new row's id.
LEMMA InsertsAlone ==
  ASSUME Inv, Alone, NEW w \in Workers, Insert(w) PROVE Alone' /\ contended \subseteq contended'
<1>1. PICK i \in Ids :
        /\ row'[i].profile = NewProfile(i, req[w].key)
        /\ \A j \in Ids \ {i} : row'[j] = row[j]
        /\ contended' = IF \E v \in Workers : Busy(v) /\ req[v].key = i
                        THEN contended \cup {req[w].key} ELSE contended
        /\ Others(w) /\ req'[w].step = "fillId" /\ req'[w].key = req[w].key /\ req[w].key \in Emails
  BY InsertGoes
<1>2. row'[i].profile.email = req[w].key
  BY <1>1, NewIsProfile
<1>3. \A k \in Keys : k # i => Leads(row', k) = Leads(row, k)
  BY <1>1 DEF Leads, Keys
<1>4. Leads(row', i) = req[w].key
  BY <1>2, ConstantsOK DEF Leads
<1>5. \A v \in Workers : req[v].key \in Keys /\ req'[v].key = req[v].key /\ (Busy(v)' => Busy(v))
  BY <1>1 DEF Inv, TypeOK, Request, Others, Busy, Insert
<1>6. contended \subseteq contended'
  BY <1>1
<1>7. ASSUME NEW v \in Workers, Busy(v)', req[v].key = i PROVE req[w].key \in contended'
  BY <1>1, <1>5, <1>7
<1>8. ASSUME NEW u \in Workers, NEW v \in Workers, u # v, Busy(u)', Busy(v)',
             Leads(row', req'[u].key) = Leads(row', req'[v].key)
      PROVE  Leads(row', req'[u].key) \in contended'
  <2>1. CASE req[u].key = i \/ req[v].key = i
    BY <1>4, <1>5, <1>7, <1>8, <2>1
  <2>2. CASE req[u].key # i /\ req[v].key # i
    <3>1. Leads(row, req[u].key) = Leads(row, req[v].key) /\ Busy(u) /\ Busy(v)
      BY <1>3, <1>5, <1>8, <2>2
    <3>2. Leads(row, req[u].key) \in contended
      BY <1>8, <3>1 DEF Alone
    <3>3. QED
      BY <1>3, <1>5, <1>6, <2>2, <3>2
  <2>3. QED
    BY <2>1, <2>2
<1>9. QED
  BY <1>6, <1>8 DEF Alone

\* What a step that fills nothing must leave fresh.
LEMMA Survives ==
  ASSUME Survival, NEW w \in Workers, Others(w), Alone', contended \subseteq contended',
         UNCHANGED cache,
         \A k \in req[w].drop : k \in req'[w].drop \/ (cache[k] # None => cache[k].email \in contended'),
         \A k \in Keys : cache[k] # None /\ cache[k].email \notin contended' /\ Fresh(row, cache[k])
             => Fresh(row', cache[k]) \/ k \in req'[w].drop,
         \A v \in Workers \ {w} : Holds(req[v]) /\ req[v].copy.email \notin contended'
                                     /\ Fresh(row, req[v].copy) => Fresh(row', req[v].copy),
         Holds(req'[w]) /\ req'[w].copy.email \notin contended' => Fresh(row', req'[w].copy),
         EditsSurvive'
  PROVE  Survival'
<1>1. ASSUME NEW k \in Keys, cache[k] # None, cache[k].email \notin contended'
      PROVE  Dropping(k)' \/ Fresh(row', cache[k])
  <2>1. Dropping(k) \/ Fresh(row, cache[k])
    BY <1>1 DEF Survival, CachedFresh
  <2>2. k \in req'[w].drop => Dropping(k)'
    BY DEF Dropping
  <2>3. Dropping(k) => Dropping(k)'
    BY <1>1 DEF Dropping, Others
  <2>4. QED
    BY <1>1, <2>1, <2>2, <2>3
<1>2. CachedFresh'
  BY <1>1 DEF CachedFresh
<1>3. HeldFresh'
  BY DEF Survival, HeldFresh, Others
<1>4. QED
  BY <1>2, <1>3 DEF Survival

\* The same where the table is left alone.
LEMMA SurvivesQuietly ==
  ASSUME Survival, NEW w \in Workers, Others(w), Alone', contended \subseteq contended',
         UNCHANGED <<row, cache, wanted>>,
         \A k \in req[w].drop : k \in req'[w].drop \/ (cache[k] # None => cache[k].email \in contended'),
         Holds(req'[w]) /\ req'[w].copy.email \notin contended' => Fresh(row', req'[w].copy)
  PROVE  Survival'
<1>1. EditsSurvive'
  BY DEF Survival, EditsSurvive, Live
<1>2. QED
  BY <1>1, Survives

LEMMA ArriveSurvives == ASSUME Inv, Survival, NEW w \in Workers, Arrive(w) PROVE Survival'
<1>1. ASSUME NEW k \in Keys, GetUser(w, k) PROVE Survival'
  <2>1. UNCHANGED <<row, cache, wanted>> /\ Begin(w, k, Missed(None))
    BY <1>1 DEF GetUser
  <2>2. Others(w) /\ ~Busy(w) /\ req'[w].key = k /\ ~Holds(req'[w]) /\ Carries
    BY <2>1, LookupBegins, TableStays
  <2>3. Alone' /\ contended \subseteq contended'
    BY <2>1, <2>2, BeginsAlone DEF Survival
  <2>4. QED
    BY <2>1, <2>2, <2>3, IdleDropsNothing, SurvivesQuietly
<1>2. ASSUME NEW i \in Ids, NEW edit \in Edits, UpdateUser(w, i, edit) PROVE Survival'
  <2>1. UNCHANGED <<row, cache, wanted>> /\ i \in Keys /\ Carries
    BY <1>2, TableStays DEF UpdateUser, Keys
  <2>2. CASE Begin(w, i, Missed(edit))
    <3>1. Others(w) /\ ~Busy(w) /\ req'[w].key = i /\ ~Holds(req'[w])
      BY <2>1, <2>2, LookupBegins
    <3>2. Alone' /\ contended \subseteq contended'
      BY <2>1, <2>2, <3>1, BeginsAlone DEF Survival
    <3>3. QED
      BY <2>1, <3>1, <3>2, IdleDropsNothing, SurvivesQuietly
  <2>3. CASE cache[i] # None /\ Begin(w, i, Hit(cache[i], edit))
    <3>1. Others(w) /\ ~Busy(w) /\ req'[w].key = i /\ req'[w].copy = cache[i]
      BY <2>1, <2>3, HitBegins
    <3>2. /\ Alone' /\ contended \subseteq contended'
          /\ \A v \in Workers \ {w} : Busy(v) /\ Leads(row, req[v].key) = Leads(row, i)
                 => Leads(row, i) \in contended'
      BY <2>1, <2>3, <3>1, BeginsAlone DEF Survival
    <3>3. ASSUME cache[i].email \notin contended' PROVE Fresh(row, cache[i])
      <4>1. Dropping(i) \/ Fresh(row, cache[i])
        BY <2>1, <2>3, <3>2, <3>3 DEF Survival, CachedFresh
      <4>2. ASSUME NEW v \in Workers, i \in req[v].drop PROVE FALSE
        <5>1. /\ Busy(v) /\ Leads(row, i) = Leads(row, req[v].key)
              /\ cache[i].email = Leads(row, req[v].key)
          BY <2>3, <4>2, DropIsAddressed
        <5>2. v # w
          BY <3>1, <5>1
        <5>3. QED
          BY <3>2, <3>3, <5>1, <5>2
      <4>3. QED
        BY <4>1, <4>2 DEF Dropping
    <3>4. QED
      BY <2>1, <3>1, <3>2, <3>3, IdleDropsNothing, SurvivesQuietly
  <2>4. QED
    BY <1>2, <2>2, <2>3 DEF UpdateUser
<1>3. ASSUME NEW i \in Ids, NEW f \in Flags, SetFlag(w, i, f) PROVE Survival'
  <2>1. /\ Others(w) /\ ~Busy(w) /\ req'[w].key = i /\ ~Holds(req'[w]) /\ Carries
        /\ \A j \in Ids \ {i} : row'[j] = row[j]
        /\ row'[i].state = "live" /\ row'[i].profile.columns = row[i].profile.columns
    BY <1>3, SetFlagGoes
  <2>2. /\ UNCHANGED <<cache, wanted>> /\ row[i].state = "live" /\ i \in Keys
        /\ Begin(w, i, [Idle EXCEPT !.step = "drop", !.drop = {i}])
    BY <1>3 DEF SetFlag, Live, Keys
  <2>3. \A j \in Ids : row'[j].profile.email = row[j].profile.email
    BY <2>1, <2>2 DEF Carries
  <2>4. Alone' /\ contended \subseteq contended'
    BY <2>1, <2>2, <2>3, BeginsAlone DEF Survival
  <2>5. \A p : p.id \in Ids /\ Fresh(row, p) => Fresh(row', p)
    BY <2>1, <2>2 DEF Fresh
  <2>6. \A v \in Workers \ {w} : Holds(req[v]) => req[v].copy.id \in Ids
    BY HeldIsAddressed
  <2>7. \A k \in Keys : cache[k] # None => cache[k].id \in Ids
    BY CachedUnder
  <2>8. EditsSurvive'
    BY <2>1, <2>2, <2>3, <2>4 DEF Survival, EditsSurvive, Live
  <2>9. QED
    BY <2>1, <2>2, <2>4, <2>5, <2>6, <2>7, <2>8, IdleDropsNothing, Survives
<1>4. ASSUME NEW i \in Ids, DeleteUser(w, i) PROVE Survival'
  <2>1. /\ Others(w) /\ ~Busy(w) /\ req'[w].key = i /\ ~Holds(req'[w]) /\ Carries
        /\ \A j \in Ids \ {i} : row'[j] = row[j]
        /\ row'[i].state = "deleted" /\ req'[w].drop = {i, row[i].profile.email}
    BY <1>4, DeleteGoes
  <2>2. /\ UNCHANGED <<cache, wanted>> /\ row[i].state = "live" /\ i \in Keys
        /\ Begin(w, i, [Idle EXCEPT !.step = "drop", !.drop = KeysOf(row[i].profile)])
    BY <1>4 DEF DeleteUser, Live, Keys
  <2>3. \A j \in Ids : row'[j].profile.email = row[j].profile.email
    BY <2>1, <2>2 DEF Carries
  <2>4. /\ Alone' /\ contended \subseteq contended'
        /\ \A v \in Workers \ {w} : Busy(v) /\ Leads(row, req[v].key) = Leads(row, i)
               => Leads(row, i) \in contended'
    BY <2>1, <2>2, <2>3, BeginsAlone DEF Survival
  <2>5. ASSUME NEW k \in Keys, cache[k] # None, Fresh(row, cache[k])
        PROVE  Fresh(row', cache[k]) \/ k \in req'[w].drop
    <3>1. CASE cache[k].id = i
      BY <2>1, <2>5, <3>1, CachedUnder
    <3>2. CASE cache[k].id # i
      BY <2>1, <2>5, <3>2, CachedUnder DEF Fresh
    <3>3. QED
      BY <3>1, <3>2
  <2>6. ASSUME NEW v \in Workers \ {w}, Holds(req[v]), req[v].copy.email \notin contended',
               Fresh(row, req[v].copy)
        PROVE  Fresh(row', req[v].copy)
    <3>1. /\ Leads(row, req[v].key) = req[v].copy.email /\ Busy(v) /\ req[v].copy.id \in Ids
          /\ row[req[v].copy.id].profile.email = req[v].copy.email
      BY <2>6, HeldIsAddressed
    <3>2. Leads(row, i) = row[i].profile.email
      BY ConstantsOK DEF Leads
    <3>3. req[v].copy.id # i
      BY <2>4, <2>6, <3>1, <3>2
    <3>4. QED
      BY <2>1, <2>6, <3>1, <3>3 DEF Fresh
  <2>7. EditsSurvive'
    BY <2>1, <2>2, <2>4 DEF Survival, EditsSurvive, Live
  <2>8. QED
    BY <2>1, <2>2, <2>4, <2>5, <2>6, <2>7, IdleDropsNothing, Survives
<1>5. ASSUME NEW e \in Emails, CreateUser(w, e) PROVE Survival'
  <2>1. UNCHANGED <<row, cache, wanted>> /\ e \in Keys /\ Begin(w, e, [Idle EXCEPT !.step = "insert"])
    BY <1>5 DEF CreateUser, Keys
  <2>2. Others(w) /\ ~Busy(w) /\ req'[w].key = e /\ ~Holds(req'[w]) /\ Carries
    BY <1>5, <2>1, CreateGoes, TableStays
  <2>3. Alone' /\ contended \subseteq contended'
    BY <2>1, <2>2, BeginsAlone DEF Survival
  <2>4. QED
    BY <2>1, <2>2, <2>3, IdleDropsNothing, SurvivesQuietly
<1>6. QED
  BY <1>1, <1>2, <1>3, <1>4, <1>5 DEF Arrive

\* A fill puts in what the request holds, which is fresh while it is alone.
LEMMA FillSurvives ==
  ASSUME Inv, Survival, NEW w \in Workers, FillId(w) \/ FillEmail(w) PROVE Survival'
<1>1. /\ Others(w) /\ req'[w].drop = {} /\ req[w].drop = {} /\ Holds(req[w])
      /\ \/ ~Busy(w)' /\ ~Holds(req'[w])
         \/ req'[w].copy = req[w].copy /\ req'[w].key = req[w].key
      /\ UNCHANGED <<row, wanted, contended>>
  BY FillGoes DEF FillId, FillEmail
<1>2. PICK k \in KeysOf(req[w].copy) : Fill(w, k)
  BY FillsOwn
<1>3. /\ k \in Keys /\ \A l \in Keys \ {k} : cache'[l] = cache[l]
      /\ cache'[k] = req[w].copy \/ cache'[k] = cache[k]
  BY <1>1, <1>2, Filled
<1>4. Busy(w)
  BY <1>1, HeldIsAddressed
<1>5. Alone'
  BY <1>1, <1>4, GoesAlone DEF Survival
<1>6. \A l \in Keys : Dropping(l) => Dropping(l)'
  BY <1>1 DEF Dropping, Others
<1>7. ASSUME NEW l \in Keys, cache'[l] # None, cache'[l].email \notin contended
      PROVE  Dropping(l)' \/ Fresh(row, cache'[l])
  <2>1. CASE cache'[l] = cache[l]
    BY <1>6, <1>7, <2>1 DEF Survival, CachedFresh
  <2>2. CASE cache'[l] = req[w].copy
    BY <1>1, <1>7, <2>2 DEF Survival, HeldFresh
  <2>3. QED
    BY <1>3, <2>1, <2>2
<1>8. CachedFresh'
  BY <1>1, <1>7 DEF CachedFresh
<1>9. HeldFresh'
  BY <1>1 DEF Survival, HeldFresh, Others
<1>10. EditsSurvive'
  BY <1>1 DEF Survival, EditsSurvive, Live
<1>11. QED
  BY <1>5, <1>8, <1>9, <1>10 DEF Survival

\* An insert makes a live row of an absent one, which nothing names yet.
LEMMA InsertSurvives == ASSUME Inv, Survival, NEW w \in Workers, Insert(w) PROVE Survival'
<1>1. PICK i \in Ids :
        /\ row[i].state = "absent" /\ Carries
        /\ row'[i].state = "live"
        /\ \A j \in Ids \ {i} : row'[j] = row[j]
        /\ wanted' = [wanted EXCEPT ![i] = row'[i].profile.columns]
        /\ Others(w) /\ req'[w].copy = row'[i].profile /\ req'[w].drop = {} /\ req[w].drop = {}
  BY InsertGoes
<1>2. UNCHANGED cache
  BY DEF Insert
<1>3. Alone' /\ contended \subseteq contended'
  BY InsertsAlone DEF Survival
<1>4. ASSUME NEW p, Stands(row, p), Fresh(row, p) PROVE Fresh(row', p)
  <2>1. p.id \in Ids /\ p.id # i
    BY <1>1, <1>4 DEF Stands, Profile
  <2>2. QED
    BY <1>1, <1>4, <2>1 DEF Fresh
<1>5. \A k \in Keys : cache[k] # None => Stands(row, cache[k])
  BY DEF Inv, CacheFits
<1>6. \A v \in Workers : Holds(req[v]) => Stands(row, req[v].copy)
  BY HeldIsAddressed
<1>7. row'[i].profile.id = i
  BY <1>1 DEF Carries, RowsNamed
<1>8. Fresh(row', req'[w].copy)
  BY <1>1, <1>7 DEF Fresh
<1>9. EditsSurvive'
  <2>1. wanted'[i] = row'[i].profile.columns /\ \A j \in Ids \ {i} : wanted'[j] = wanted[j]
    BY <1>1 DEF Inv, TypeOK
  <2>2. QED
    BY <1>1, <1>3, <2>1 DEF Survival, EditsSurvive, Live
<1>10. QED
  BY <1>1, <1>2, <1>3, <1>4, <1>5, <1>6, <1>8, <1>9, Survives

\* An update merges its edit into what the last one left.
LEMMA WriteSurvives ==
  ASSUME Inv, Survival, NEW w \in Workers, WriteColumns(w), Live(req[w].copy.id) PROVE Survival'
<1> DEFINE i == req[w].copy.id
<1>1. /\ i \in Ids /\ Carries /\ \A j \in Ids \ {i} : row'[j] = row[j]
      /\ row'[i].state = "live"
      /\ row'[i].profile.columns = Merge(req[w].copy.columns, req[w].edit)
      /\ wanted' = [wanted EXCEPT ![i] = Merge(wanted[i], req[w].edit)]
      /\ Others(w) /\ req'[w].key = req[w].key
      /\ req'[w].drop = {i, row[i].profile.email} /\ req[w].drop = {}
      /\ req'[w].copy = row'[i].profile /\ Holds(req[w])
  BY WriteGoes
<1>2. UNCHANGED <<cache, contended>> /\ row[i].state = "live" /\ i = req[w].copy.id
  BY DEF WriteColumns, Live
<1>3. /\ Leads(row, req[w].key) = req[w].copy.email /\ Busy(w)
      /\ row[i].profile.email = req[w].copy.email
  BY <1>1, <1>2, HeldIsAddressed
<1> HIDE DEF i
<1>4. \A j \in Ids : row'[j].profile.email = row[j].profile.email
  BY <1>1, <1>2 DEF Carries
<1>5. Alone'
  BY <1>1, <1>2, <1>3, <1>4, GoesAlone DEF Survival
<1>6. ASSUME NEW k \in Keys, cache[k] # None, Fresh(row, cache[k])
      PROVE  Fresh(row', cache[k]) \/ k \in req'[w].drop
  <2>1. CASE cache[k].id = i
    BY <1>1, <1>6, <2>1, CachedUnder
  <2>2. CASE cache[k].id # i
    BY <1>1, <1>6, <2>2, CachedUnder DEF Fresh
  <2>3. QED
    BY <2>1, <2>2
<1>7. ASSUME NEW v \in Workers \ {w}, Holds(req[v]), req[v].copy.email \notin contended,
             Fresh(row, req[v].copy)
      PROVE  Fresh(row', req[v].copy)
  <2>1. /\ Leads(row, req[v].key) = req[v].copy.email /\ Busy(v) /\ req[v].copy.id \in Ids
        /\ row[req[v].copy.id].profile.email = req[v].copy.email
    BY <1>7, HeldIsAddressed
  <2>2. req[v].copy.id # i
    BY <1>3, <1>7, <2>1 DEF Survival, Alone
  <2>3. QED
    BY <1>1, <1>7, <2>1, <2>2 DEF Fresh
<1>8. row'[i].profile.id = i
  BY <1>1 DEF Carries, RowsNamed
<1>9. Fresh(row', req'[w].copy)
  BY <1>1, <1>8 DEF Fresh
<1>10. ASSUME row[i].profile.email \notin contended PROVE row'[i].profile.columns = wanted'[i]
  <2>1. req[w].copy.columns = row[i].profile.columns
    BY <1>1, <1>2, <1>3, <1>10 DEF Survival, HeldFresh, Fresh
  <2>2. row[i].profile.columns = wanted[i]
    BY <1>1, <1>2, <1>10 DEF Survival, EditsSurvive, Live
  <2>3. wanted'[i] = Merge(wanted[i], req[w].edit)
    BY <1>1 DEF Inv, TypeOK
  <2>4. QED
    BY <1>1, <2>1, <2>2, <2>3
<1>11. EditsSurvive'
  <2>1. ASSUME NEW j \in Ids \ {i}, row'[j].state = "live", row'[j].profile.email \notin contended
        PROVE  row'[j].profile.columns = wanted'[j]
    <3>1. row'[j] = row[j] /\ wanted'[j] = wanted[j]
      BY <1>1
    <3>2. QED
      BY <2>1, <3>1 DEF Survival, EditsSurvive, Live
  <2>2. row'[i].profile.email = row[i].profile.email
    BY <1>1, <1>4
  <2>3. QED
    BY <1>2, <1>10, <2>1, <2>2 DEF EditsSurvive, Live
<1>12. QED
  BY <1>1, <1>2, <1>5, <1>6, <1>7, <1>9, <1>11, Survives

LEMMA ContinueSurvives == ASSUME Inv, Survival, NEW w \in Workers, Continue(w) PROVE Survival'
<1>1. CASE Select(w)
  <2>1. /\ Others(w) /\ req[w].drop = {} /\ UNCHANGED <<row, cache, wanted, contended>> /\ Busy(w)
        /\ \/ ~Busy(w)' /\ ~Holds(req'[w])
           \/ /\ req'[w].key = req[w].key
              /\ req'[w].copy = row[req'[w].copy.id].profile /\ Live(req'[w].copy.id)
    BY <1>1, SelectGoes DEF Select, Busy
  <2>2. Alone'
    BY <2>1, GoesAlone DEF Survival
  <2>3. Holds(req'[w]) => Fresh(row', req'[w].copy)
    BY <2>1 DEF Fresh, Live
  <2>4. QED
    BY <2>1, <2>2, <2>3, SurvivesQuietly
<1>2. CASE InsertNothing(w)
  <2>1. /\ Others(w) /\ req[w].drop = {} /\ UNCHANGED <<row, cache, wanted, contended>> /\ Busy(w)
        /\ ~Holds(req'[w]) /\ (~Busy(w)' \/ req'[w].key = req[w].key)
    BY <1>2, InsertNothingGoes DEF InsertNothing, Busy
  <2>2. Alone'
    BY <2>1, GoesAlone DEF Survival
  <2>3. QED
    BY <2>1, <2>2, SurvivesQuietly
<1>3. CASE WriteColumns(w) /\ ~Live(req[w].copy.id)
  <2>1. /\ Others(w) /\ req[w].drop = {} /\ UNCHANGED <<row, cache, wanted, contended>> /\ Busy(w)
        /\ ~Holds(req'[w]) /\ ~Busy(w)'
    BY <1>3, WriteMisses DEF WriteColumns, Busy
  <2>2. Alone'
    BY <2>1, GoesAlone DEF Survival
  <2>3. QED
    BY <2>1, <2>2, SurvivesQuietly
<1>4. CASE Drop(w)
  <2>1. /\ Others(w) /\ UNCHANGED <<row, wanted, contended>> /\ Busy(w)
        /\ \/ ~Busy(w)' /\ ~Holds(req'[w])
           \/ req'[w].copy = req[w].copy /\ req'[w].key = req[w].key /\ Holds(req[w])
    BY <1>4, AfterDropGoes DEF Drop, Busy
  <2>2. \A k \in Keys : cache'[k] # None => cache'[k] = cache[k] /\ k \notin req[w].drop
    BY <1>4 DEF Drop
  <2>3. Alone'
    BY <2>1, GoesAlone DEF Survival
  <2>4. ASSUME NEW k \in Keys, cache'[k] # None, cache'[k].email \notin contended
        PROVE  Dropping(k)' \/ Fresh(row, cache'[k])
    <3>1. Dropping(k) \/ Fresh(row, cache[k])
      BY <2>2, <2>4 DEF Survival, CachedFresh
    <3>2. Dropping(k) => Dropping(k)'
      BY <2>1, <2>2, <2>4 DEF Dropping, Others
    <3>3. QED
      BY <2>2, <2>4, <3>1, <3>2
  <2>5. CachedFresh'
    BY <2>1, <2>4 DEF CachedFresh
  <2>6. HeldFresh'
    BY <2>1 DEF Survival, HeldFresh, Others
  <2>7. EditsSurvive'
    BY <2>1 DEF Survival, EditsSurvive, Live
  <2>8. QED
    BY <2>3, <2>5, <2>6, <2>7 DEF Survival
<1>5. QED
  BY <1>1, <1>2, <1>3, <1>4, FillSurvives, InsertSurvives, WriteSurvives DEF Continue

\* A failing writer leaves its keys behind only on an address that is contended then.
LEMMA FailureSurvives ==
  ASSUME Inv, Survival, NEW w \in Workers, DropFails(w) \/ Stop(w) PROVE Survival'
<1>1. /\ Others(w) /\ Lose(w) /\ UNCHANGED <<row, cache, wanted>> /\ Busy(w)
      /\ \/ ~Busy(w)' /\ ~Holds(req'[w])
         \/ req'[w].copy = req[w].copy /\ req'[w].key = req[w].key /\ Holds(req[w])
  BY AfterDropGoes, StopGoes DEF DropFails, Stop, Busy
<1>2. contended \subseteq contended' /\ (req[w].drop # {} => Leads(row, req[w].key) \in contended')
  BY <1>1 DEF Lose, Address, Leads
<1>3. Alone'
  BY <1>1, <1>2, GoesAlone DEF Survival
<1>4. \A k \in req[w].drop : cache[k] # None => cache[k].email \in contended'
  BY <1>2, DropIsAddressed
<1>5. Holds(req'[w]) /\ req'[w].copy.email \notin contended' => Fresh(row', req'[w].copy)
  BY <1>1, <1>2 DEF Survival, HeldFresh
<1>6. QED
  BY <1>1, <1>2, <1>3, <1>4, <1>5, SurvivesQuietly

LEMMA PollSurvives == ASSUME Inv, Survival, NEW w \in Workers, Poll(w) PROVE Survival'
<1>1. UNCHANGED <<row, cache, wanted>> /\ stream.id \in Keys /\ Carries
  BY TableStays DEF Poll, Inv, TypeOK, Keys
<1>2. CASE Begin(w, stream.id, [Missed(None) EXCEPT !.poll = TRUE])
  <2>1. Others(w) /\ ~Busy(w) /\ req'[w].key = stream.id /\ ~Holds(req'[w])
    BY <1>1, <1>2, LookupBegins
  <2>2. Alone' /\ contended \subseteq contended'
    BY <1>1, <1>2, <2>1, BeginsAlone DEF Survival
  <2>3. QED
    BY <1>1, <2>1, <2>2, IdleDropsNothing, SurvivesQuietly
<1>3. CASE UNCHANGED <<req, contended>>
  BY <1>1, <1>3
  DEF Survival, Alone, Busy, CachedFresh, Dropping, HeldFresh, EditsSurvive, Live
<1>4. QED
  BY <1>2, <1>3 DEF Poll

LEMMA SurvivalStep == Inv /\ Survival /\ [Next]_vars => Survival'
<1> SUFFICES ASSUME Inv, Survival, [Next]_vars PROVE Survival'
  OBVIOUS
<1>1. CASE UNCHANGED vars \/ HangUp \/ \E i \in Ids : WatchUser(i)
  BY <1>1 DEF vars, HangUp, WatchUser, Survival, Alone, Busy, CachedFresh, Dropping, HeldFresh,
              EditsSurvive, Live
<1>2. ASSUME NEW k \in Keys, Expire(k) PROVE Survival'
  <2>1. /\ UNCHANGED <<row, req, wanted, contended>> /\ cache'[k] = None
        /\ \A l \in Keys \ {k} : cache'[l] = cache[l]
    BY <1>2 DEF Expire, Inv, TypeOK
  <2>2. CachedFresh'
    BY <2>1 DEF Survival, CachedFresh, Dropping
  <2>3. QED
    BY <2>1, <2>2 DEF Survival, Alone, Busy, HeldFresh, EditsSurvive, Live
<1>3. QED
  BY <1>1, <1>2, ArriveSurvives, ContinueSurvives, PollSurvives, FailureSurvives DEF Next

\* No update takes back what another wrote, cached copies or not, unless two requests
\* worked on the profile at one time or a failing writer left its keys behind.
THEOREM NoEditLost == Spec => []EditsSurvive
<1>1. Init => Survival
  <2> SUFFICES ASSUME Init PROVE Survival
    OBVIOUS
  <2>1. \A w \in Workers : req[w] = Idle
    BY DEF Init
  <2>2. Alone /\ HeldFresh
    BY <2>1, IdleIsIdle DEF Alone, Busy, HeldFresh, Holds
  <2>3. CachedFresh /\ EditsSurvive
    BY DEF Init, CachedFresh, EditsSurvive
  <2>4. QED
    BY <2>2, <2>3 DEF Survival
<1>2. Survival => EditsSurvive
  BY DEF Survival
<1>3. QED
  BY InvInit, InvStep, <1>1, <1>2, SurvivalStep, PTL DEF Spec
=============================================================================
