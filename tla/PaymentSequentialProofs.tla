------------------------ MODULE PaymentSequentialProofs ------------------------
(***************************************************************************)
(* What holds of charging an order as long as its requests come one at a   *)
(* time, reach their end and are answered, for every number of charge      *)
(* rows, requests and Mercado Pago handlers and whatever operators do.     *)
(* Webhooks, settlements and operators still come in between at every      *)
(* step.                                                                   *)
(*                                                                         *)
(* The argument is that there is at most one "hot" charge, a live row      *)
(* whose charge has money in it or can still take some, and that a request *)
(* either knows it, and deals with it before it inserts a row, or sees     *)
(* every charge dealt with.  The same holds of live rows, except that one  *)
(* whose charge expired may be made live again by a status fetched before. *)
(***************************************************************************)
EXTENDS PaymentChargesProofs

USE NoChargeAssumption
USE DEF orderVars, rowVars, callVars, hookVars, boundVars

\* The requests are one at a time, none stopped and none left unanswered so far.
OneAtATime ==
    /\ \A j, k \in Callers : phase[j] # "idle" /\ phase[k] # "idle" => j = k
    /\ crashes = 0 /\ lost = 0

Money  == {"open", "processing", "captured"}
Gone   == {"declined", "cancelled", "expired"}
Closed == {"failed", "cancelled", "expired"}

Hot(c) == status[c] \in Live /\ remote[c] \in Money

OneHot == \A c, d \in Charges : Hot(c) /\ Hot(d) => c = d

\* Money is in, or on its way into, live and paid rows only.
Charged == \A c \in Charges : remote[c] \in Money => status[c] \in Live \cup {"paid"}

\* Whatever was fetched, announced or seen of a charge that is gone is about a
\* charge that is gone.
Truthful ==
    /\ \A n \in notices : remote[n[1]] # "none" /\ (n[2] \in Gone => remote[n[1]] \in Gone)
    /\ \A f \in fetched :
          remote[f[1][1]] # "none" /\ (f[2] \in Closed => remote[f[1][1]] \in Gone)
    /\ \A k \in Callers : phase[k] = "apply" =>
          /\ remote[cur[k]] # "none" /\ seen[k] # "authorized"
          /\ seen[k] \in Closed => remote[cur[k]] \in Gone

\* A row without external_id is over, or its request is about to record one; so
\* a request has the external_id of all it still has to deal with.
Unnamed ==
    /\ \A c \in Charges \ ext :
          \/ status[c] \in Terminal \cup {"none"}
          \/ \E k \in Callers : Owning(k) /\ cur[k] = c
    /\ \A k \in Callers :
          phase[k] \in {"live", "apply", "cancel", "close"} => todo[k] \subseteq named[k]

\* Where a hot charge can be while a request that may insert a row, or has, works.
Remaining(k) ==
    IF phase[k] \in {"live", "close"} THEN todo[k]
    ELSE IF phase[k] \in {"apply", "cancel"} THEN todo[k] \cup {cur[k]}
    ELSE IF phase[k] = "record" THEN {cur[k]}
    ELSE {}

Attempt(k) ==
    /\ (phase[k] \in {"live", "apply", "cancel", "close"} /\ ~ reused[k]) \/ Owning(k) =>
          \A c \in Charges : Hot(c) => c \in Remaining(k)
    /\ phase[k] = "close" => remote[cur[k]] = "cancelled"
    /\ phase[k] = "create" => status[cur[k]] = "pending"
    /\ phase[k] = "record" /\ answer[k] \notin {"authorized", "pix"} =>
          remote[cur[k]] \in {"none", "declined"}

Attempts == \A k \in Callers : Attempt(k)

SInv == OneHot /\ Charged /\ Truthful /\ Unnamed /\ Attempts

-----------------------------------------------------------------------------
(* Effects.                                                                *)

\* What is gone stays gone, and what exists exists.
Onward ==
    \A c \in Charges : /\ remote[c] \in Gone => remote'[c] \in Gone
                       /\ remote[c] # "none" => remote'[c] # "none"

\* No charge becomes hot.
Cooler == \A c \in Charges : Hot(c)' => Hot(c)

\* Rows that are over, or do not exist, stay so.
RowsRest ==
    \A c \in Charges : status[c] \in Terminal \cup {"none"} => status'[c] = status[c]

NewNoticesTrue ==
    \A n \in notices' :
       n \in notices \/ (n[1] \in Charges /\ n[2] # "none" /\ remote'[n[1]] = n[2])

\* The status mapping: what closes a row is gone, and no gateway says "authorized".
LEMMA ProviderGone ==
    ASSUME NEW r \in RemoteStates
    PROVE  /\ ProviderStatus(r) \in Closed => r \in Gone
           /\ ProviderStatus(r) # "authorized"
  BY DEF ProviderStatus, RemoteStates, Closed, Gone

\* Applying a true status: on "paid" the charge is the hot one, so that every
\* sibling that is cancelled with it has no money.
LEMMA ApplyCools ==
    ASSUME TypeOK, OneHot, Charged, UNCHANGED remote,
           NEW c \in Charges, NEW s \in RowStatuses \ {"none"}, ApplyEvent(c, s),
           status[c] # "none", s \in Closed => remote[c] \in Gone,
           s = "paid" => remote[c] = "captured"
    PROVE  /\ Charged' /\ Cooler /\ RowsRest
           /\ \A d \in Charges \ {c} : (\A e \in Charges : ~ Hot(e)) => status'[d] = status[d]
<1>1. CASE ~ Applies(c)
  BY <1>1 DEF ApplyEvent, Charged, Cooler, RowsRest, Hot
<1>2. CASE Applies(c)
  <2>1. \A d \in Charges :
           status'[d] = IF d = c THEN s
                        ELSE IF s = "paid" /\ status[d] \in Live THEN "cancelled"
                        ELSE status[d]
    BY <1>2 DEF ApplyEvent
  <2>2. s = "paid" => Hot(c)
    BY <1>2 DEF Charged, Applies, Hot, Money, Terminal
  <2>3. \A d \in Charges \ {c} : s = "paid" /\ status[d] \in Live => remote[d] \notin Money
    BY <2>2 DEF OneHot, Hot
  <2>4. remote[c] \in Money => s \in Live \cup {"paid"}
    BY DEF Money, Gone, Closed, RowStatuses, Terminal, Live
  <2>5. Charged'
    BY <2>1, <2>3, <2>4 DEF Charged
  <2>6. remote[c] \in Money => Hot(c)
    BY <1>2 DEF Charged, Hot, Applies, Terminal
  <2>7. Cooler
    <3>1. "cancelled" \notin Live
      BY DEF Live
    <3>2. QED
      BY <2>1, <2>6, <3>1 DEF Cooler, Hot
  <2>8. RowsRest
    BY <1>2, <2>1 DEF RowsRest, Applies, Live, Terminal
  <2>9. QED
    BY <2>1, <2>2, <2>5, <2>7, <2>8
<1>3. QED
  BY <1>1, <1>2

\* Cancelling the row of a charge without money.
LEMMA SetCools ==
    ASSUME TypeOK, Charged, UNCHANGED remote,
           NEW c \in Charges, SetStatus(c, "cancelled"), remote[c] \notin Money,
           status[c] # "none"
    PROVE  Charged' /\ Cooler /\ RowsRest
<1>1. CASE ~ Applies(c)
  BY <1>1 DEF SetStatus, Charged, Cooler, RowsRest, Hot
<1>2. CASE Applies(c)
  <2>1. status'[c] = "cancelled" /\ \A d \in Charges : d # c => status'[d] = status[d]
    BY <1>2 DEF SetStatus, TypeOK
  <2>2. QED
    BY <1>2, <2>1 DEF Charged, Cooler, RowsRest, Hot, Applies
<1>3. QED
  BY <1>1, <1>2

\* A charge that settles or is cancelled has no more money than before.
LEMMA MoveCools ==
    ASSUME TypeOK, Charged, UNCHANGED status, NEW c \in Charges, NEW r \in RemoteStates,
           Becomes(c, r), r # "none",
           \/ remote[c] \in {"open", "processing"}
           \/ remote[c] = "declined" /\ r = "cancelled"
    PROVE  /\ Charged' /\ Cooler /\ RowsRest /\ Onward /\ NewNoticesTrue
           /\ remote'[c] = r /\ \A d \in Charges : d # c => remote'[d] = remote[d]
<1>1. /\ remote'[c] = r
      /\ \A d \in Charges : d # c => remote'[d] = remote[d]
      /\ notices' \subseteq notices \cup {<<c, r>>}
  BY BecomesEffect
<1>2. Charged' /\ Cooler /\ RowsRest
  BY <1>1 DEF Charged, Cooler, RowsRest, Hot, Money
<1>3. Onward
  BY <1>1 DEF Onward, Gone
<1>4. NewNoticesTrue
  <2>1. ASSUME NEW n \in notices', n \notin notices
        PROVE  n[1] \in Charges /\ n[2] # "none" /\ remote'[n[1]] = n[2]
    <3>1. n = <<c, r>>
      BY <1>1, <2>1
    <3>2. QED
      BY <1>1, <3>1
  <2>2. QED
    BY <2>1 DEF NewNoticesTrue
<1>5. QED
  BY <1>1, <1>2, <1>3, <1>4

-----------------------------------------------------------------------------
(* Frames.                                                                 *)

\* What is said of charges stays true.
LEMMA NoticesStayTrue ==
    ASSUME TypeOK, TypeOK', Truthful, Onward, NewNoticesTrue, NEW n \in notices'
    PROVE  remote'[n[1]] # "none" /\ (n[2] \in Gone => remote'[n[1]] \in Gone)
<1>1. CASE n \in notices
  <2>1. n[1] \in Charges
    BY <1>1 DEF TypeOK, Notices
  <2>2. QED
    BY <1>1, <2>1 DEF Truthful, Onward
<1>2. CASE n \notin notices
  BY <1>2 DEF NewNoticesTrue
<1>3. QED
  BY <1>1, <1>2

\* A step of the gateway, a webhook or an operator.
LEMMA EnvironmentFrame ==
    ASSUME TypeOK, TypeOK', SInv, UNCHANGED <<callVars, ext>>,
           Charged', Cooler, RowsRest, Onward, NewNoticesTrue,
           \A f \in fetched' \ fetched : 
              f[1][1] \in ext /\ remote[f[1][1]] # "none"
                 /\ (f[2] \in Closed => remote[f[1][1]] \in Gone),
           \A k \in Callers : phase[k] = "create" => status'[cur[k]] = status[cur[k]],
           \A d \in Charges : remote[d] \in {"none", "declined", "cancelled"} => remote'[d] = remote[d]
    PROVE  SInv'
<1>1. OneHot'
  BY DEF SInv, OneHot, Cooler
<1>2. Truthful'
  <2>1. ASSUME NEW f \in fetched'
        PROVE  remote'[f[1][1]] # "none" /\ (f[2] \in Closed => remote'[f[1][1]] \in Gone)
    <3>1. f[1][1] \in Charges
      BY DEF TypeOK, Notices
    <3>2. remote[f[1][1]] # "none" /\ (f[2] \in Closed => remote[f[1][1]] \in Gone)
      BY DEF SInv, Truthful
    <3>3. QED
      BY <3>1, <3>2 DEF Onward
  <2>2. ASSUME NEW k \in Callers, phase'[k] = "apply"
        PROVE  /\ remote'[cur'[k]] # "none" /\ seen'[k] # "authorized"
               /\ seen'[k] \in Closed => remote'[cur'[k]] \in Gone
    BY <2>2 DEF SInv, Truthful, Onward, TypeOK
  <2>3. QED
    BY <2>1, <2>2, NoticesStayTrue DEF SInv, Truthful
<1>3. Unnamed'
  BY DEF SInv, Unnamed, RowsRest, Owning, TypeOK
<1>4. ASSUME NEW k \in Callers PROVE Attempt(k)'
  <2>1. Attempt(k)
    BY DEF SInv, Attempts
  <2>2. Remaining(k)' = Remaining(k) /\ Owning(k)' = Owning(k)
    BY DEF Remaining, Owning
  <2>3. phase[k] \in {"apply", "cancel", "close", "create", "record"} => cur[k] \in Charges
    BY DEF TypeOK
  <2>4. QED
    BY <2>1, <2>2, <2>3 DEF Attempt, Cooler
<1>5. QED
  BY <1>1, <1>2, <1>3, <1>4 DEF SInv, Attempts

\* A step of the one request at work that owns no row before or after it.
LEMMA RequestFrame ==
    ASSUME TypeOK, TypeOK', SInv, NEW k \in Callers,
           \A j \in Callers \ {k} : phase[j] = "idle" /\ phase'[j] = "idle",
           ~ Owning(k), ~ Owning(k)', UNCHANGED <<ext, fetched>>,
           Charged', Cooler, RowsRest, Onward, NewNoticesTrue,
           phase'[k] = "apply" => 
              /\ remote'[cur'[k]] # "none" /\ seen'[k] # "authorized"
              /\ seen'[k] \in Closed => remote'[cur'[k]] \in Gone,
           phase'[k] \in {"live", "apply", "cancel", "close"} =>
              /\ todo'[k] \subseteq named'[k]
              /\ ~ reused'[k] => \A c \in Charges : Hot(c)' => c \in Remaining(k)',
           phase'[k] = "close" => remote'[cur'[k]] = "cancelled"
    PROVE  SInv'
<1>1. OneHot'
  BY DEF SInv, OneHot, Cooler
<1>2. Truthful'
  <2>1. ASSUME NEW f \in fetched'
        PROVE  remote'[f[1][1]] # "none" /\ (f[2] \in Closed => remote'[f[1][1]] \in Gone)
    <3>1. f[1][1] \in Charges
      BY DEF TypeOK, Notices
    <3>2. QED
      BY <3>1 DEF SInv, Truthful, Onward
  <2>2. QED
    BY <2>1, NoticesStayTrue DEF SInv, Truthful
<1>3. Unnamed'
  <2>1. \A j \in Callers : ~ Owning(j)
    BY DEF Owning
  <2>2. \A c \in Charges \ ext' : status'[c] \in Terminal \cup {"none"}
    BY <2>1 DEF SInv, Unnamed, RowsRest
  <2>3. QED
    BY <2>2 DEF Unnamed
<1>4. ASSUME NEW j \in Callers PROVE Attempt(j)'
  <2>1. CASE j # k
    BY <2>1 DEF Attempt, Owning
  <2>2. CASE j = k
    BY <2>2 DEF Attempt, Owning
  <2>3. QED
    BY <2>1, <2>2
<1>5. QED
  BY <1>1, <1>2, <1>3, <1>4 DEF SInv, Attempts

-----------------------------------------------------------------------------
(* The steps of a request.                                                 *)

\* While a request works, before and after a step of its own, the others rest.
LEMMA OthersRest ==
    ASSUME TypeOK, OneAtATime, OneAtATime', NEW k \in Callers,
           phase[k] # "idle" \/ phase'[k] # "idle",
           \A j \in Callers \ {k} : phase'[j] = phase[j]
    PROVE  \A j \in Callers \ {k} : phase[j] = "idle" /\ phase'[j] = "idle"
  BY DEF OneAtATime

\* What the gateway may answer says whether it took a charge on.
LEMMA CreatesAnswers ==
    ASSUME NEW m, NEW result \in Creates(m)
    PROVE  /\ result[1] \in RemoteStates \ {"none"}
           /\ result[2] \notin {"authorized", "pix"} => result[1] = "declined"
  BY DEF Creates, RemoteStates

\* A row is inserted when no charge is hot, for a charge that does not exist.
LEMMA InsertSequential ==
    ASSUME TypeOK, TypeOK', IInv, SInv, OneAtATime, OneAtATime', NEW k \in Callers, Insert(k)
    PROVE  SInv'
<1>1. PICK c \in Fresh :
         /\ status' = [status EXCEPT ![c] = "pending"]
         /\ cur' = [cur EXCEPT ![k] = c]
  BY DEF Insert
<1>2. /\ c \in Charges /\ status[c] = "none" /\ remote[c] = "none"
      /\ status'[c] = "pending" /\ cur'[k] = c /\ phase'[k] = "create"
      /\ \A d \in Charges : d # c => status'[d] = status[d]
      /\ UNCHANGED <<ext, remote, notices, fetched, todo, named, seen, answer>>
  BY <1>1 DEF Insert, Goto, Fresh, IInv, Existing, TypeOK
<1>3. \A j \in Callers \ {k} : phase[j] = "idle" /\ phase'[j] = "idle"
  <2>1. \A j \in Callers \ {k} : phase'[j] = phase[j]
    BY DEF Insert, Goto, TypeOK
  <2>2. QED
    BY <1>2, <2>1, OthersRest
<1>4. \A d \in Charges : ~ Hot(d)
  BY DEF Insert, SInv, Attempts, Attempt, Remaining
<1>5. \A d \in Charges : ~ Hot(d)'
  BY <1>2, <1>4 DEF Hot, Money
<1>6. OneHot' /\ Charged'
  BY <1>2, <1>5 DEF OneHot, SInv, Charged, Money
<1>7. Truthful'
  BY <1>2, <1>3 DEF SInv, Truthful
<1>8. Unnamed'
  <2>1. \A j \in Callers : ~ Owning(j)
    BY <1>3 DEF Owning, Insert
  <2>2. \A d \in Charges \ ext : status[d] \in Terminal \cup {"none"}
    BY <2>1 DEF SInv, Unnamed
  <2>3. Owning(k)'
    BY <1>2 DEF Owning
  <2>4. \A d \in Charges \ ext' :
           \/ status'[d] \in Terminal \cup {"none"}
           \/ \E j \in Callers : Owning(j)' /\ cur'[j] = d
    BY <1>2, <2>2, <2>3
  <2>5. QED
    BY <1>2, <1>3, <2>4 DEF Unnamed
<1>9. ASSUME NEW j \in Callers PROVE Attempt(j)'
  <2>1. CASE j = k
    BY <1>2, <1>5, <2>1 DEF Attempt
  <2>2. CASE j # k
    BY <1>3, <2>2 DEF Attempt, Owning
  <2>3. QED
    BY <2>1, <2>2
<1>10. QED
  BY <1>6, <1>7, <1>8, <1>9 DEF SInv, Attempts

\* The gateway is asked to create the charge: it is the only one that can be hot.
LEMMA CreateSequential ==
    ASSUME TypeOK, TypeOK', IInv, SInv, OneAtATime, OneAtATime', NEW k \in Callers, Create(k)
    PROVE  SInv'
<1> DEFINE c == cur[k]
<1>1. /\ c \in Charges /\ remote[c] = "none" /\ phase[k] = "create" /\ status[c] = "pending"
      /\ \A d \in Charges : ~ Hot(d)
  BY DEF Create, IInv, Existing, TypeOK, SInv, Attempts, Attempt, Owning, Remaining
<1>2. /\ UNCHANGED <<status, ext, todo, named, cur, seen, fetched>>
      /\ phase'[k] = "record"
      /\ \A j \in Callers \ {k} : phase'[j] = phase[j]
  BY DEF Create, Goto, TypeOK
<1>3. \A j \in Callers \ {k} : phase[j] = "idle" /\ phase'[j] = "idle"
  BY <1>1, <1>2, OthersRest
<1>4. /\ \A d \in Charges : d # c => remote'[d] = remote[d]
      /\ answer'[k] \notin {"authorized", "pix"} => remote'[c] \in {"none", "declined"}
      /\ NewNoticesTrue
  <2>1. CASE UNCHANGED <<remote, notices>>
    BY <1>1, <2>1 DEF NewNoticesTrue
  <2>2. CASE \E result \in Creates(want[k]) :
                /\ Becomes(cur[k], result[1])
                /\ answer' = [answer EXCEPT ![k] = result[2]]
    <3>1. PICK result \in Creates(want[k]) :
             /\ Becomes(cur[k], result[1])
             /\ answer' = [answer EXCEPT ![k] = result[2]]
      BY <2>2
    <3>2. /\ result[1] \in RemoteStates \ {"none"}
          /\ result[2] \notin {"authorized", "pix"} => result[1] = "declined"
      BY CreatesAnswers
    <3>3. /\ remote'[c] = result[1]
          /\ \A d \in Charges : d # c => remote'[d] = remote[d]
          /\ notices' \subseteq notices \cup {<<c, result[1]>>}
      BY <1>1, <3>1, <3>2, BecomesEffect
    <3>4. answer'[k] = result[2]
      BY <3>1 DEF TypeOK
    <3>5. ASSUME NEW n \in notices', n \notin notices
          PROVE  n[1] \in Charges /\ n[2] # "none" /\ remote'[n[1]] = n[2]
      <4>1. n = <<c, result[1]>>
        BY <3>3, <3>5
      <4>2. QED
        BY <1>1, <3>2, <3>3, <4>1
    <3>6. QED
      BY <3>2, <3>3, <3>4, <3>5 DEF NewNoticesTrue
  <2>3. CASE lost' = lost + 1
    BY <2>3 DEF OneAtATime
  <2>4. QED
    BY <2>1, <2>2, <2>3 DEF Create
<1>5. Onward
  BY <1>1, <1>4 DEF Onward, Gone
<1>6. \A d \in Charges : Hot(d)' => d = c
  BY <1>1, <1>2, <1>4 DEF Hot
<1>7. OneHot' /\ Charged'
  BY <1>1, <1>2, <1>4, <1>6 DEF OneHot, SInv, Charged, Live
<1>8. Truthful'
  <2>1. ASSUME NEW f \in fetched'
        PROVE  remote'[f[1][1]] # "none" /\ (f[2] \in Closed => remote'[f[1][1]] \in Gone)
    <3>1. f[1][1] \in Charges
      BY DEF TypeOK, Notices
    <3>2. QED
      BY <1>2, <1>5, <3>1 DEF SInv, Truthful, Onward
  <2>2. QED
    BY <1>2, <1>3, <1>5, <1>4, <2>1, NoticesStayTrue DEF SInv, Truthful
<1>9. Unnamed'
  <2>1. \A j \in Callers : Owning(j) => Owning(j)' /\ cur'[j] = cur[j]
    BY <1>2, <1>3 DEF Owning
  <2>2. QED
    BY <1>2, <1>3, <2>1 DEF SInv, Unnamed
<1>10. ASSUME NEW j \in Callers PROVE Attempt(j)'
  <2>1. CASE j = k
    BY <1>2, <1>4, <1>6, <2>1 DEF Attempt, Remaining
  <2>2. CASE j # k
    BY <1>3, <2>2 DEF Attempt, Owning
  <2>3. QED
    BY <2>1, <2>2
<1>11. QED
  BY <1>7, <1>8, <1>9, <1>10 DEF SInv, Attempts

\* The answer is recorded: a charge with money gets a live row.
LEMMA RecordSequential ==
    ASSUME TypeOK, TypeOK', IInv, SInv, OneAtATime, OneAtATime', NEW k \in Callers, Record(k)
    PROVE  SInv'
<1> DEFINE c == cur[k]
           s == RecordedStatus(answer[k])
<1>1. /\ c \in Charges /\ phase[k] = "record" /\ c \notin ext
      /\ \A d \in Charges : Hot(d) => d = c
      /\ answer[k] \notin {"authorized", "pix"} => remote[c] \in {"none", "declined"}
  BY DEF Record, IInv, Owned, TypeOK, SInv, Attempts, Attempt, Owning, Remaining
<1>2. /\ status'[c] = s /\ \A d \in Charges : d # c => status'[d] = status[d]
      /\ ext' = IF answer[k] = "error" THEN ext ELSE ext \cup {c}
      /\ UNCHANGED <<remote, notices, fetched>>
      /\ phase'[k] = "idle"
      /\ \A j \in Callers \ {k} : phase'[j] = phase[j]
  <2>1. status' = [status EXCEPT ![c] = s]
    BY DEF Record
  <2>2. status'[c] = s /\ \A d \in Charges : d # c => status'[d] = status[d]
    BY <1>1, <2>1 DEF TypeOK
  <2>3. ext' = IF answer[k] = "error" THEN ext ELSE ext \cup {c}
    BY <1>1 DEF Record
  <2>4. /\ UNCHANGED <<remote, notices, fetched>>
        /\ phase'[k] = "idle"
        /\ \A j \in Callers \ {k} : phase'[j] = phase[j]
    BY DEF Record, Ends, Goto, TypeOK
  <2>5. QED
    BY <2>2, <2>3, <2>4
<1>3. \A j \in Callers \ {k} : phase[j] = "idle" /\ phase'[j] = "idle"
  BY <1>1, <1>2, OthersRest
<1>4. remote[c] \in Money => s \in Live
  BY <1>1 DEF Money, RecordedStatus, Live
<1>5. \A d \in Charges : Hot(d)' => d = c
  BY <1>1, <1>2 DEF Hot
<1>6. OneHot' /\ Charged'
  BY <1>2, <1>4, <1>5 DEF OneHot, SInv, Charged
<1>7. \A j \in Callers : phase'[j] = "idle"
  BY <1>2, <1>3
<1>8. Truthful'
  BY <1>2, <1>7 DEF SInv, Truthful
<1>9. Unnamed'
  <2>1. \A d \in Charges \ ext : d # c => status[d] \in Terminal \cup {"none"}
    BY <1>3 DEF SInv, Unnamed, Owning
  <2>2. answer[k] = "error" => s \in Terminal
    BY DEF RecordedStatus, Terminal
  <2>3. \A d \in Charges \ ext' : status'[d] \in Terminal \cup {"none"}
    BY <1>2, <2>1, <2>2
  <2>4. QED
    BY <1>7, <2>3 DEF Unnamed
<1>10. \A j \in Callers : Attempt(j)'
  BY <1>7 DEF Attempt, Owning
<1>11. QED
  BY <1>6, <1>8, <1>9, <1>10 DEF SInv, Attempts

\* A webhook applies what is true of a charge.
LEMMA EventSequential ==
    ASSUME TypeOK, TypeOK', IInv, SInv, UNCHANGED <<callVars, ext, remote, notices>>,
           fetched' \subseteq fetched,
           NEW c \in Charges, NEW s \in RowStatuses \ {"none"}, ApplyEvent(c, s),
           remote[c] # "none", s \in Closed => remote[c] \in Gone,
           s = "paid" => remote[c] = "captured"
    PROVE  SInv'
<1>1. status[c] # "none"
  BY DEF IInv, Existing
<1>2. /\ Charged' /\ Cooler /\ RowsRest
      /\ \A d \in Charges \ {c} : (\A e \in Charges : ~ Hot(e)) => status'[d] = status[d]
  BY <1>1, ApplyCools DEF SInv
<1>3. ASSUME NEW k \in Callers, phase[k] = "create" PROVE status'[cur[k]] = status[cur[k]]
  <2>1. cur[k] \in Charges /\ cur[k] # c
    BY <1>3 DEF IInv, Existing, TypeOK
  <2>2. \A e \in Charges : ~ Hot(e)
    BY <1>3 DEF SInv, Attempts, Attempt, Owning, Remaining
  <2>3. QED
    BY <1>2, <2>1, <2>2
<1>4. Onward /\ NewNoticesTrue
  BY DEF Onward, NewNoticesTrue
<1>5. QED
  BY <1>2, <1>3, <1>4, EnvironmentFrame

\* A step of a request that leaves the rows, the charges and what is said of them.
LEMMA QuietRequest ==
    ASSUME TypeOK, TypeOK', SInv, OneAtATime, OneAtATime', NEW k \in Callers,
           phase[k] # "idle" \/ phase'[k] # "idle",
           \A j \in Callers \ {k} : phase'[j] = phase[j],
           ~ Owning(k), ~ Owning(k)', UNCHANGED <<status, ext, remote, notices, fetched>>,
           phase'[k] = "apply" =>
              /\ remote[cur'[k]] # "none" /\ seen'[k] # "authorized"
              /\ seen'[k] \in Closed => remote[cur'[k]] \in Gone,
           phase'[k] \in {"live", "apply", "cancel", "close"} =>
              /\ todo'[k] \subseteq named'[k]
              /\ ~ reused'[k] => \A c \in Charges : Hot(c) => c \in Remaining(k)',
           phase'[k] # "close"
    PROVE  SInv'
<1>1. Charged' /\ Cooler /\ RowsRest /\ Onward /\ NewNoticesTrue
  BY DEF SInv, Charged, Cooler, Hot, RowsRest, Onward, NewNoticesTrue
<1>2. \A c \in Charges : Hot(c)' = Hot(c)
  BY DEF Hot
<1>3. \A j \in Callers \ {k} : phase[j] = "idle" /\ phase'[j] = "idle"
  BY OthersRest
<1>4. QED
  BY <1>1, <1>2, <1>3, RequestFrame

\* A request that ends before it inserted a row.
LEMMA EndsSequential ==
    ASSUME TypeOK, TypeOK', SInv, OneAtATime, OneAtATime', NEW k \in Callers,
           phase[k] # "idle", ~ Owning(k), Ends(k), UNCHANGED <<ext, fetched>>,
           Charged', Cooler, RowsRest, Onward, NewNoticesTrue
    PROVE  SInv'
<1>1. /\ phase'[k] = "idle"
      /\ \A j \in Callers \ {k} : phase'[j] = phase[j]
  BY DEF Ends, Goto, TypeOK
<1>2. \A j \in Callers \ {k} : phase[j] = "idle" /\ phase'[j] = "idle"
  BY <1>1, OthersRest
<1>3. ~ Owning(k)'
  BY <1>1 DEF Owning
<1>4. QED
  BY <1>1, <1>2, <1>3, RequestFrame

\* What was fetched is applied: a charge that stays hot is reused or goes on to
\* be cancelled.
LEMMA ApplySequential ==
    ASSUME TypeOK, TypeOK', IInv, SInv, OneAtATime, OneAtATime', NEW k \in Callers, ApplySeen(k)
    PROVE  SInv'
<1> DEFINE c == cur[k]
           s == seen[k]
           open == Applies(c) /\ s \in {"pending", "processing"}
<1>1. /\ phase[k] = "apply" /\ c \in Charges /\ s \in RowStatuses \ {"none", "authorized"}
      /\ remote[c] # "none" /\ status[c] # "none" /\ ApplyEvent(c, s)
      /\ s \in Closed => remote[c] \in Gone
      /\ s = "paid" => remote[c] = "captured"
      /\ todo[k] \subseteq named[k]
      /\ ~ reused[k] => \A d \in Charges : Hot(d) => d \in todo[k] \cup {c}
  BY DEF ApplySeen, IInv, Existing, Witnessed, TypeOK, SInv, Truthful, Unnamed, Attempts,
         Attempt, Remaining
<1>2. /\ phase'[k] = IF open /\ ~ keep[k] THEN "cancel" ELSE "live"
      /\ reused'[k] = (reused[k] \/ (open /\ keep[k]))
      /\ \A j \in Callers \ {k} : phase'[j] = phase[j]
      /\ UNCHANGED <<ext, remote, notices, fetched, todo, named, cur>>
  BY DEF ApplySeen, Goto, TypeOK
<1>3. \A j \in Callers \ {k} : phase[j] = "idle" /\ phase'[j] = "idle"
  BY <1>1, <1>2, OthersRest
<1>4. Charged' /\ Cooler /\ RowsRest
  BY <1>1, <1>2, ApplyCools DEF SInv
<1>5. Onward /\ NewNoticesTrue
  BY <1>2 DEF Onward, NewNoticesTrue
<1>6. ~ open => status'[c] \notin Live
  <2>1. CASE ~ Applies(c)
    BY <1>1, <1>4, <2>1 DEF Applies, RowsRest, Live, Terminal
  <2>2. CASE Applies(c) /\ s \notin {"pending", "processing"}
    <3>1. status'[c] = s
      BY <1>1, <2>2 DEF ApplyEvent
    <3>2. s \in Terminal \cup {"expired"}
      BY <1>1, <2>2 DEF RowStatuses, Live
    <3>3. QED
      BY <3>1, <3>2 DEF Live, Terminal
  <2>3. QED
    BY <2>1, <2>2
<1>7. ~ reused'[k] => \A d \in Charges : Hot(d)' => d \in Remaining(k)'
  <2>1. SUFFICES ASSUME ~ reused'[k], NEW d \in Charges, Hot(d)'
                 PROVE  d \in Remaining(k)'
    OBVIOUS
  <2>2. d \in todo[k] \cup {c} /\ (open => ~ keep[k])
    BY <1>1, <1>2, <1>4, <2>1 DEF Cooler
  <2>3. CASE open
    BY <1>2, <2>2, <2>3 DEF Remaining
  <2>4. CASE ~ open
    BY <1>2, <1>6, <2>1, <2>2, <2>4 DEF Hot, Remaining
  <2>5. QED
    BY <2>3, <2>4
<1>8. ~ Owning(k) /\ ~ Owning(k)' /\ phase'[k] \notin {"apply", "close"}
  BY <1>1, <1>2 DEF Owning
<1>9. QED
  BY <1>1, <1>2, <1>3, <1>4, <1>5, <1>7, <1>8, RequestFrame

\* The cancel of the charge at hand, and of its row.
LEMMA CancelSequential ==
    ASSUME TypeOK, TypeOK', IInv, SInv, OneAtATime, OneAtATime', NEW k \in Callers,
           CancelAtGateway(k) \/ CancelFails(k) \/ CloseCancelled(k)
    PROVE  SInv'
<1> DEFINE c == cur[k]
<1>1. c \in Charges /\ "cancelled" \in RemoteStates
  BY DEF CancelAtGateway, CancelFails, CloseCancelled, TypeOK, RemoteStates
<1>2. CASE CancelAtGateway(k)
  <2>1. /\ phase[k] = "cancel" /\ phase'[k] = "close"
        /\ \A j \in Callers \ {k} : phase'[j] = phase[j]
        /\ UNCHANGED <<status, ext, fetched, todo, named, cur, reused>>
    BY <1>2 DEF CancelAtGateway, Goto, TypeOK
  <2>2. \A j \in Callers \ {k} : phase[j] = "idle" /\ phase'[j] = "idle"
    BY <2>1, OthersRest
  <2>3. Becomes(c, "cancelled") /\ remote[c] \in {"open", "declined"}
    BY <1>2 DEF CancelAtGateway, Cancelable
  <2>4. /\ Charged' /\ Cooler /\ RowsRest /\ Onward /\ NewNoticesTrue
        /\ remote'[c] = "cancelled"
    BY <1>1, <2>1, <2>3, MoveCools DEF SInv
  <2>5. /\ todo[k] \subseteq named[k]
        /\ ~ reused[k] => \A d \in Charges : Hot(d) => d \in todo[k] \cup {c}
    BY <2>1 DEF SInv, Unnamed, Attempts, Attempt, Remaining
  <2>6. \A d \in Charges : Hot(d)' => d # c
    BY <2>4 DEF Hot, Money
  <2>7. ~ reused'[k] => \A d \in Charges : Hot(d)' => d \in Remaining(k)'
    BY <2>1, <2>4, <2>5, <2>6 DEF Cooler, Remaining
  <2>8. ~ Owning(k) /\ ~ Owning(k)'
    BY <2>1 DEF Owning
  <2>9. QED
    BY <2>1, <2>2, <2>4, <2>5, <2>7, <2>8, RequestFrame
<1>3. CASE CancelFails(k)
  <2>1. /\ phase[k] = "cancel" /\ Ends(k) /\ UNCHANGED <<status, ext, fetched>>
    BY <1>3 DEF CancelFails
  <2>2. UNCHANGED <<remote, notices>>
    BY <1>3 DEF CancelFails, OneAtATime
  <2>3. Charged' /\ Cooler /\ RowsRest /\ Onward /\ NewNoticesTrue
    BY <2>1, <2>2 DEF SInv, Charged, Cooler, Hot, RowsRest, Onward, NewNoticesTrue
  <2>4. ~ Owning(k)
    BY <2>1 DEF Owning
  <2>5. QED
    BY <2>1, <2>3, <2>4, EndsSequential
<1>4. CASE CloseCancelled(k)
  <2>1. /\ phase[k] = "close" /\ phase'[k] = "live" /\ SetStatus(c, "cancelled")
        /\ \A j \in Callers \ {k} : phase'[j] = phase[j]
        /\ UNCHANGED <<ext, remote, notices, fetched, todo, named, cur, reused>>
    BY <1>4 DEF CloseCancelled, Goto, TypeOK
  <2>2. \A j \in Callers \ {k} : phase[j] = "idle" /\ phase'[j] = "idle"
    BY <2>1, OthersRest
  <2>3. /\ remote[c] = "cancelled" /\ todo[k] \subseteq named[k]
        /\ ~ reused[k] => \A d \in Charges : Hot(d) => d \in todo[k]
    BY <2>1 DEF SInv, Unnamed, Attempts, Attempt, Remaining
  <2>4. status[c] # "none" /\ remote[c] \notin Money
    BY <1>1, <2>3 DEF IInv, Existing, Money
  <2>5. Charged' /\ Cooler /\ RowsRest
    BY <1>1, <2>1, <2>4, SetCools DEF SInv
  <2>6. Onward /\ NewNoticesTrue
    BY <2>1 DEF Onward, NewNoticesTrue
  <2>7. ~ reused'[k] => \A d \in Charges : Hot(d)' => d \in Remaining(k)'
    BY <2>1, <2>3, <2>5 DEF Cooler, Remaining
  <2>8. ~ Owning(k) /\ ~ Owning(k)'
    BY <2>1 DEF Owning
  <2>9. QED
    BY <2>1, <2>2, <2>3, <2>5, <2>6, <2>7, <2>8, RequestFrame
<1>5. QED
  BY <1>2, <1>3, <1>4

-----------------------------------------------------------------------------
(* The invariant.                                                          *)

\* Initially there is no charge,
LEMMA SInvInit == Init => SInv
  BY DEF Init, SInv, OneHot, Hot, Live, Charged, Money, Truthful, Unnamed, Attempts, Attempt,
         Owning, Terminal

\* and every step keeps it while requests come one at a time.
LEMMA SInvStep ==
    ASSUME TypeOK, TypeOK', IInv, SInv, OneAtATime, OneAtATime', [Next]_vars
    PROVE  SInv'
<1> USE DEF Goto
<1>1. ASSUME NEW k \in Callers, PayByLink(k) \/ PayByWhatsApp(k) PROVE SInv'
  <2>1. PICK m \in Methods : Asks(k, m)
    BY <1>1 DEF PayByLink, PayByWhatsApp, Methods
  <2>2. /\ phase[k] = "idle" /\ phase'[k] = "asked"
        /\ \A j \in Callers \ {k} : phase'[j] = phase[j]
        /\ UNCHANGED <<status, ext, remote, notices, fetched>>
    BY <2>1 DEF Asks, TypeOK
  <2>3. QED
    BY <2>2, QuietRequest DEF Owning
<1>2. ASSUME NEW k \in Callers, Prepare(k) PROVE SInv'
  <2>1. /\ phase[k] = "asked" /\ phase'[k] = "live"
        /\ \A j \in Callers \ {k} : phase'[j] = phase[j]
        /\ UNCHANGED <<status, ext, remote, notices, fetched>>
        /\ todo'[k] = {c \in Charges : status[c] \in Live}
        /\ named'[k] = {c \in ext : status[c] \in Live}
    BY <1>2 DEF Prepare, TypeOK
  <2>2. \A j \in Callers : ~ Owning(j)
    BY <2>1, OthersRest DEF Owning
  <2>3. todo'[k] \subseteq named'[k]
    BY <2>1, <2>2 DEF SInv, Unnamed, Live, Terminal
  <2>4. \A c \in Charges : Hot(c) => c \in Remaining(k)'
    BY <2>1 DEF Hot, Remaining
  <2>5. QED
    BY <2>1, <2>3, <2>4, QuietRequest DEF Owning
<1>3. ASSUME NEW k \in Callers, CancelUnnamed(k) PROVE SInv'
  <2>1. phase[k] = "live" /\ todo[k] \ named[k] # {}
    BY <1>3 DEF CancelUnnamed
  <2>2. QED
    BY <2>1 DEF SInv, Unnamed
<1>4. ASSUME NEW k \in Callers, Fetch(k) PROVE SInv'
  <2>1. PICK c \in todo[k] \cap named[k] :
           /\ cur' = [cur EXCEPT ![k] = c]
           /\ seen' = [seen EXCEPT ![k] = ProviderStatus(remote[c])]
           /\ todo' = [todo EXCEPT ![k] = @ \ {c}]
    BY <1>4 DEF Fetch
  <2>2. /\ phase[k] = "live" /\ phase'[k] = "apply"
        /\ \A j \in Callers \ {k} : phase'[j] = phase[j]
        /\ UNCHANGED <<status, ext, remote, notices, fetched, named, reused>>
        /\ cur'[k] = c /\ seen'[k] = ProviderStatus(remote[c]) /\ todo'[k] = todo[k] \ {c}
    BY <1>4, <2>1 DEF Fetch, TypeOK
  <2>3. c \in ext /\ remote[c] \in RemoteStates \ {"none"}
    BY DEF IInv, Existing, TypeOK
  <2>4. seen'[k] # "authorized" /\ (seen'[k] \in Closed => remote[c] \in Gone)
    BY <2>2, <2>3, ProviderGone
  <2>5. /\ todo[k] \subseteq named[k]
        /\ ~ reused[k] => \A d \in Charges : Hot(d) => d \in todo[k]
    BY <2>2 DEF SInv, Unnamed, Attempts, Attempt, Remaining
  <2>6. ~ reused'[k] => \A d \in Charges : Hot(d) => d \in Remaining(k)'
    BY <2>2, <2>5 DEF Remaining
  <2>7. QED
    BY <2>2, <2>3, <2>4, <2>5, <2>6, QuietRequest DEF Owning
<1>5. ASSUME NEW k \in Callers, FetchFails(k) \/ ReturnReused(k) PROVE SInv'
  <2>1. /\ phase[k] = "live" /\ Ends(k)
        /\ UNCHANGED <<status, ext, remote, notices, fetched>>
    BY <1>5 DEF FetchFails, ReturnReused
  <2>2. Charged' /\ Cooler /\ RowsRest /\ Onward /\ NewNoticesTrue
    BY <2>1 DEF SInv, Charged, Cooler, Hot, RowsRest, Onward, NewNoticesTrue
  <2>3. QED
    BY <2>1, <2>2, EndsSequential DEF Owning
<1>6. ASSUME NEW k \in Callers,
             ApplySeen(k) \/ CancelAtGateway(k) \/ CancelFails(k) \/ CloseCancelled(k)
      PROVE  SInv'
  BY <1>6, ApplySequential, CancelSequential
<1>7. ASSUME NEW k \in Callers, Insert(k) \/ Create(k) \/ Record(k) PROVE SInv'
  BY <1>7, InsertSequential, CreateSequential, RecordSequential
<1>8. ASSUME NEW k \in Callers, Crash(k) PROVE SInv'
  BY <1>8 DEF Crash, OneAtATime
<1>9. ASSUME NEW c \in Charges, Settle(c) PROVE SInv'
  <2>1. PICK r \in {"captured", "declined", "expired"} :
           remote[c] \in {"open", "processing"} /\ Becomes(c, r)
    BY <1>9 DEF Settle
  <2>2. r \in RemoteStates /\ r # "none" /\ UNCHANGED <<status, callVars, ext, fetched>>
    BY <1>9 DEF Settle, RemoteStates
  <2>3. /\ Charged' /\ Cooler /\ RowsRest /\ Onward /\ NewNoticesTrue
        /\ \A d \in Charges : d # c => remote'[d] = remote[d]
    BY <2>1, <2>2, MoveCools DEF SInv
  <2>4. \A d \in Charges :
           remote[d] \in {"none", "declined", "cancelled"} => remote'[d] = remote[d]
    BY <2>1, <2>3
  <2>5. QED
    BY <2>2, <2>3, <2>4, EnvironmentFrame
<1>10. ASSUME NEW n \in Notices, StripeEvent(n) PROVE SInv'
  <2>1. n \in notices /\ n[1] \in Charges /\ n[2] \in RemoteStates
    BY <1>10 DEF StripeEvent, Notices
  <2>2. /\ remote[n[1]] # "none" /\ n[2] # "none"
        /\ n[2] \in Gone => remote[n[1]] \in Gone
        /\ n[2] = "captured" => remote[n[1]] = "captured"
    BY <2>1 DEF SInv, Truthful, IInv, Existing, Witnessed
  <2>3. /\ ProviderStatus(n[2]) \in RowStatuses \ {"none"}
        /\ ProviderStatus(n[2]) \in Closed => remote[n[1]] \in Gone
        /\ ProviderStatus(n[2]) = "paid" => remote[n[1]] = "captured"
    BY <2>1, <2>2, ProviderStatusFacts, ProviderGone
  <2>4. QED
    BY <1>10, <2>1, <2>2, <2>3, EventSequential DEF StripeEvent
<1>11. ASSUME NEW n \in Notices, MercadoPagoNotice(n) PROVE SInv'
  <2>1. UNCHANGED <<status, ext, remote, notices, callVars>>
    BY <1>11 DEF MercadoPagoNotice
  <2>2. Charged' /\ Cooler /\ RowsRest /\ Onward /\ NewNoticesTrue
    BY <2>1 DEF SInv, Charged, Cooler, Hot, RowsRest, Onward, NewNoticesTrue
  <2>3. ASSUME NEW f \in fetched' \ fetched
        PROVE  /\ f[1][1] \in ext /\ remote[f[1][1]] # "none"
               /\ f[2] \in Closed => remote[f[1][1]] \in Gone
    <3>1. n[1] \in ext /\ f = <<n, ProviderStatus(remote[n[1]])>>
      BY <1>11, <2>3 DEF MercadoPagoNotice
    <3>2. remote[n[1]] \in RemoteStates \ {"none"}
      BY <3>1 DEF IInv, Existing, TypeOK
    <3>3. QED
      BY <3>1, <3>2, ProviderGone
  <2>4. QED
    BY <2>1, <2>2, <2>3, EnvironmentFrame
<1>12. ASSUME NEW f \in Notices \X RowStatuses, MercadoPagoApply(f) PROVE SInv'
  <2>1. f \in fetched /\ f[1][1] \in Charges /\ f[2] \in RowStatuses
    BY <1>12 DEF MercadoPagoApply, Notices
  <2>2. /\ remote[f[1][1]] # "none" /\ f[2] # "none"
        /\ f[2] \in Closed => remote[f[1][1]] \in Gone
        /\ f[2] = "paid" => remote[f[1][1]] = "captured"
    BY <2>1 DEF SInv, Truthful, IInv, Existing, Witnessed
  <2>3. QED
    BY <1>12, <2>1, <2>2, EventSequential DEF MercadoPagoApply
<1>13. ASSUME \/ \E s \in OperatorSets : OperatorReads(s) \/ OperatorWrites(s)
              \/ UNCHANGED vars
       PROVE  SInv'
  <2>1. UNCHANGED <<status, ext, remote, notices, fetched, callVars>>
    BY <1>13 DEF OperatorReads, OperatorWrites, vars
  <2>2. Charged' /\ Cooler /\ RowsRest /\ Onward /\ NewNoticesTrue
    BY <2>1 DEF SInv, Charged, Cooler, Hot, RowsRest, Onward, NewNoticesTrue
  <2>3. QED
    BY <2>1, <2>2, EnvironmentFrame
<1>14. QED
  BY <1>1, <1>2, <1>3, <1>4, <1>5, <1>6, <1>7, <1>8, <1>9, <1>10, <1>11, <1>12, <1>13
  DEF Next, CallerStep

\* As long as requests come one at a time and are answered, there is at most one
\* hot charge, and a request that inserts a row has dealt with it.
THEOREM SequentialInvariant == Spec /\ []OneAtATime => []SInv
<1>1. TypeOK /\ TypeOK' /\ IInv /\ SInv /\ OneAtATime /\ OneAtATime' /\ [Next]_vars => SInv'
  BY SInvStep
<1>2. QED
  BY <1>1, SInvInit, ChargeTypes, ChargeInvariant, PTL DEF Spec

\* Requests that come one at a time never leave two charges at the gateway that can
\* both take money: each of them would be hot.
THEOREM OneOpen == Spec /\ []OneAtATime => []OneOpenAtGateway
<1>1. TypeOK /\ IInv /\ SInv => OneOpenAtGateway
  <2> SUFFICES ASSUME TypeOK, IInv, SInv, NEW c \in Charges, NEW d \in Charges,
                      remote[c] \in {"open", "processing"}, remote[d] \in {"open", "processing"}
               PROVE  c = d
    BY DEF OneOpenAtGateway
  <2>1. Hot(c) /\ Hot(d)
    BY DEF SInv, Charged, IInv, PaidMeansCaptured, Hot, Money
  <2>2. QED
    BY <2>1 DEF SInv, OneHot
<1>2. QED
  BY <1>1, SequentialInvariant, ChargeTypes, ChargeInvariant, PTL

\* ... nor does the shop then regard a charge as closed that took, or may take, money.
THEOREM ClosedIsSafe == Spec /\ []OneAtATime => []ClosedTakesNoMoney
<1>1. SInv => ClosedTakesNoMoney
  BY DEF SInv, Charged, ClosedTakesNoMoney, Money, Live
<1>2. QED
  BY <1>1, SequentialInvariant, PTL

-----------------------------------------------------------------------------
(* Live rows.                                                              *)

\* No row that expired is made live again.  'expired' is not among the statuses that
\* stand, so that what was fetched before the charge expired still applies to it.
ExpiredRest == \A c \in Charges : status[c] = "expired" => status'[c] \notin Live

\* What a request still has to end before it may insert a row.
Waiting(k) ==
    todo[k] \cup (IF phase[k] \in {"apply", "cancel", "close"} THEN {cur[k]} ELSE {})

\* It knows every live row until then, and from then on there is no other.
SoleLive(k) ==
    /\ phase[k] \in {"live", "apply", "cancel", "close"} /\ ~ reused[k] =>
          \A c \in Charges : status[c] \in Live => c \in Waiting(k)
    /\ Owning(k) => \A c \in Charges : status[c] \in Live => c = cur[k]

OneLive == NeverTwoLive /\ \A k \in Callers : SoleLive(k)

\* No row becomes live.
Fewer == \A c \in Charges : status'[c] \in Live => status[c] \in Live

\* Neither an event that is applied nor a cancel makes a row live.
LEMMA ApplyFewer ==
    ASSUME ExpiredRest, status \in [Charges -> RowStatuses],
           NEW c \in Charges, NEW s, ApplyEvent(c, s), status[c] # "none"
    PROVE  Fewer
<1>1. CASE ~ Applies(c)
  BY <1>1 DEF ApplyEvent, Fewer
<1>2. CASE Applies(c)
  <2>1. \A d \in Charges \ {c} : status'[d] \in {status[d], "cancelled"}
    BY <1>2 DEF ApplyEvent
  <2>2. status[c] \in Live \cup {"expired"}
    BY <1>2 DEF Applies, RowStatuses, Terminal
  <2>3. QED
    BY <2>1, <2>2 DEF Fewer, ExpiredRest, Live
<1>3. QED
  BY <1>1, <1>2

\* Steps of the gateway, of webhooks and operators.
LEMMA LiveFrame ==
    ASSUME OneLive, Fewer, UNCHANGED callVars
    PROVE  OneLive'
  BY DEF OneLive, NeverTwoLive, Fewer, SoleLive, Waiting, Owning

\* Steps of the one request at work.
LEMMA RequestLive ==
    ASSUME TypeOK, TypeOK', IInv, SInv, OneAtATime, OneAtATime', ExpiredRest, OneLive,
           NEW k \in Callers,
           PayByLink(k) \/ PayByWhatsApp(k) \/ CallerStep(k) \/ Crash(k)
    PROVE  OneLive'
<1>0. /\ phase \in [Callers -> {"idle", "create", "record"} \cup Resolving]
      /\ todo \in [Callers -> SUBSET Charges] /\ cur \in [Callers -> Charges \cup {None}]
      /\ reused \in [Callers -> BOOLEAN] /\ status \in [Charges -> RowStatuses]
      /\ phase[k] \in {"apply", "cancel", "close", "create", "record"} => cur[k] \in Charges
  BY DEF TypeOK
<1>1. \A j \in Callers \ {k} : phase[j] = "idle" /\ phase'[j] = "idle"
  <2>1. \A j \in Callers \ {k} : phase'[j] = phase[j]
    BY <1>0 DEF PayByLink, PayByWhatsApp, Asks, CallerStep, Prepare, CancelUnnamed, Fetch,
                FetchFails, ApplySeen, CancelAtGateway, CancelFails, CloseCancelled,
                ReturnReused, Insert, Create, Record, Crash, Ends, Goto
  <2>2. phase[k] # "idle" \/ phase'[k] # "idle"
    BY <1>0 DEF PayByLink, PayByWhatsApp, Asks, CallerStep, Prepare, CancelUnnamed, Fetch,
                FetchFails, ApplySeen, CancelAtGateway, CancelFails, CloseCancelled,
                ReturnReused, Insert, Create, Record, Crash, Goto
  <2>3. QED
    BY <2>1, <2>2, OthersRest
<1>2. ASSUME Fewer, SoleLive(k)' PROVE OneLive'
  <2>1. NeverTwoLive'
    BY <1>2 DEF OneLive, NeverTwoLive, Fewer
  <2>2. \A j \in Callers \ {k} : SoleLive(j)'
    BY <1>1 DEF SoleLive, Owning
  <2>3. QED
    BY <1>2, <2>1, <2>2 DEF OneLive
<1>3. SoleLive(k)
  BY DEF OneLive
<1>4. CASE PayByLink(k) \/ PayByWhatsApp(k)
  <2>1. phase'[k] = "asked" /\ status' = status
    BY <1>0, <1>4 DEF PayByLink, PayByWhatsApp, Asks, Goto
  <2>2. QED
    BY <1>2, <2>1 DEF Fewer, SoleLive, Owning
<1>5. CASE Prepare(k)
  <2>1. /\ phase'[k] = "live" /\ status' = status
        /\ todo'[k] = {c \in Charges : status[c] \in Live}
    BY <1>0, <1>5 DEF Prepare, Goto
  <2>2. QED
    BY <1>2, <2>1 DEF Fewer, SoleLive, Waiting, Owning
<1>6. CASE CancelUnnamed(k)
  <2>1. PICK c \in Charges : SetStatus(c, "cancelled") /\ todo'[k] = todo[k] \ {c}
    BY <1>0, <1>6 DEF CancelUnnamed
  <2>2. phase[k] = "live" /\ phase'[k] = "live" /\ reused'[k] = reused[k]
    BY <1>6 DEF CancelUnnamed
  <2>3. Fewer /\ status'[c] \notin Live
    BY <1>0, <2>1 DEF SetStatus, Applies, Fewer, Live, Terminal
  <2>4. QED
    BY <1>2, <1>3, <2>1, <2>2, <2>3 DEF Fewer, SoleLive, Waiting, Owning
<1>7. CASE Fetch(k)
  <2>1. PICK c \in todo[k] \cap named[k] :
           /\ cur' = [cur EXCEPT ![k] = c]
           /\ todo' = [todo EXCEPT ![k] = @ \ {c}]
    BY <1>7 DEF Fetch
  <2>2. /\ cur'[k] = c /\ todo'[k] = todo[k] \ {c} /\ phase[k] = "live"
        /\ phase'[k] = "apply" /\ reused' = reused /\ status' = status
    BY <1>0, <1>7, <2>1 DEF Fetch, Goto
  <2>3. QED
    BY <1>2, <1>3, <2>2 DEF Fewer, SoleLive, Waiting, Owning
<1>8. ASSUME Ends(k), status' = status PROVE OneLive'
  <2>1. phase'[k] = "idle"
    BY <1>0, <1>8 DEF Ends, Goto
  <2>2. QED
    BY <1>2, <1>8, <2>1 DEF Fewer, SoleLive, Owning
<1>9. CASE FetchFails(k) \/ CancelFails(k) \/ ReturnReused(k) \/ Crash(k)
  BY <1>8, <1>9 DEF FetchFails, CancelFails, ReturnReused, Crash
<1>10. CASE ApplySeen(k)
  <2> DEFINE c == cur[k]
             s == seen[k]
             open == Applies(c) /\ s \in {"pending", "processing"}
  <2>1. /\ phase[k] = "apply" /\ c \in Charges /\ ApplyEvent(c, s)
        /\ status[c] # "none" /\ s # "authorized"
    BY <1>0, <1>10 DEF ApplySeen, IInv, Existing, SInv, Truthful
  <2>2. /\ phase'[k] = IF open /\ ~ keep[k] THEN "cancel" ELSE "live"
        /\ reused'[k] = (reused[k] \/ (open /\ keep[k]))
        /\ todo' = todo /\ cur' = cur
    BY <1>0, <1>10 DEF ApplySeen, Goto
  <2>3. Fewer
    BY <1>0, <2>1, ApplyFewer
  <2>4. ~ open => status'[c] \notin Live
    <3>1. CASE ~ Applies(c)
      BY <2>1, <3>1 DEF ApplyEvent, Applies, Live, Terminal
    <3>2. CASE Applies(c) /\ s \notin {"pending", "processing"}
      BY <2>1, <3>2 DEF ApplyEvent, Live
    <3>3. QED
      BY <3>1, <3>2
  <2>5. ~ reused'[k] => \A d \in Charges : status'[d] \in Live => d \in Waiting(k)'
    <3>1. SUFFICES ASSUME ~ reused'[k], NEW d \in Charges, status'[d] \in Live
                   PROVE  d \in Waiting(k)'
      OBVIOUS
    <3>2. d \in todo[k] \cup {c} /\ (open => ~ keep[k])
      BY <1>3, <2>1, <2>2, <2>3, <3>1 DEF Fewer, SoleLive, Waiting
    <3>3. CASE open
      BY <2>2, <3>2, <3>3 DEF Waiting
    <3>4. CASE ~ open
      BY <2>2, <2>4, <3>1, <3>2, <3>4 DEF Waiting
    <3>5. QED
      BY <3>3, <3>4
  <2>6. ~ Owning(k)'
    BY <2>2 DEF Owning
  <2>7. QED
    BY <1>2, <2>3, <2>5, <2>6 DEF SoleLive
<1>11. CASE CancelAtGateway(k)
  <2>1. /\ phase[k] = "cancel" /\ phase'[k] = "close"
        /\ UNCHANGED <<status, todo, cur, reused>>
    BY <1>0, <1>11 DEF CancelAtGateway, Goto
  <2>2. QED
    BY <1>2, <1>3, <2>1 DEF Fewer, SoleLive, Waiting, Owning
<1>12. CASE CloseCancelled(k)
  <2>1. /\ phase[k] = "close" /\ phase'[k] = "live" /\ cur[k] \in Charges
        /\ SetStatus(cur[k], "cancelled") /\ UNCHANGED <<todo, cur, reused>>
    BY <1>0, <1>12 DEF CloseCancelled, Goto
  <2>2. Fewer /\ status'[cur[k]] \notin Live
    BY <1>0, <2>1 DEF SetStatus, Applies, Fewer, Live, Terminal
  <2>3. QED
    BY <1>2, <1>3, <2>1, <2>2 DEF Fewer, SoleLive, Waiting, Owning
<1>13. CASE Insert(k)
  <2>1. PICK c \in Fresh : /\ status' = [status EXCEPT ![c] = "pending"]
                           /\ cur' = [cur EXCEPT ![k] = c]
    BY <1>13 DEF Insert
  <2>2. /\ c \in Charges /\ cur'[k] = c /\ phase'[k] = "create"
        /\ \A d \in Charges : d # c => status'[d] = status[d]
    BY <1>0, <1>13, <2>1 DEF Insert, Goto, Fresh
  <2>3. \A d \in Charges : status[d] \notin Live
    BY <1>3, <1>13 DEF Insert, SoleLive, Waiting
  <2>4. \A d \in Charges : status'[d] \in Live => d = c
    BY <2>2, <2>3
  <2>5. NeverTwoLive' /\ SoleLive(k)'
    BY <2>2, <2>4 DEF NeverTwoLive, SoleLive
  <2>6. \A j \in Callers \ {k} : SoleLive(j)'
    BY <1>1 DEF SoleLive, Owning
  <2>7. QED
    BY <2>5, <2>6 DEF OneLive
<1>14. CASE Create(k)
  <2>1. phase[k] = "create" /\ phase'[k] = "record" /\ UNCHANGED <<status, cur>>
    BY <1>0, <1>14 DEF Create, Goto
  <2>2. QED
    BY <1>2, <1>3, <2>1 DEF Fewer, SoleLive, Owning
<1>15. CASE Record(k)
  <2>1. /\ phase[k] = "record" /\ phase'[k] = "idle"
        /\ \A d \in Charges : d # cur[k] => status'[d] = status[d]
    BY <1>0, <1>15 DEF Record, Ends, Goto
  <2>2. \A d \in Charges : status'[d] \in Live => d = cur[k]
    BY <1>3, <2>1 DEF SoleLive, Owning
  <2>3. NeverTwoLive' /\ SoleLive(k)'
    BY <2>1, <2>2 DEF NeverTwoLive, SoleLive, Owning
  <2>4. \A j \in Callers \ {k} : SoleLive(j)'
    BY <1>1 DEF SoleLive, Owning
  <2>5. QED
    BY <2>3, <2>4 DEF OneLive
<1>16. QED
  BY <1>4, <1>5, <1>6, <1>7, <1>9, <1>10, <1>11, <1>12, <1>13, <1>14, <1>15 DEF CallerStep

LEMMA OneLiveStep ==
    ASSUME TypeOK, TypeOK', IInv, SInv, OneAtATime, OneAtATime', [Next]_vars,
           ExpiredRest, OneLive
    PROVE  OneLive'
<1>1. ASSUME NEW k \in Callers,
             PayByLink(k) \/ PayByWhatsApp(k) \/ CallerStep(k) \/ Crash(k)
      PROVE  OneLive'
  BY <1>1, RequestLive
<1>2. CASE UNCHANGED <<status, callVars>>
  BY <1>2, LiveFrame DEF Fewer
<1>3. CASE \/ \E c \in Charges : Settle(c)
           \/ \E n \in Notices : MercadoPagoNotice(n)
           \/ \E s \in OperatorSets : OperatorReads(s) \/ OperatorWrites(s)
           \/ UNCHANGED vars
  BY <1>2, <1>3 DEF Settle, MercadoPagoNotice, OperatorReads, OperatorWrites, vars
<1>4. ASSUME NEW n \in Notices, StripeEvent(n) PROVE OneLive'
  <2>1. n[1] \in Charges /\ status[n[1]] # "none"
    BY <1>4 DEF StripeEvent, IInv, Existing, SInv, Truthful, Notices
  <2>2. QED
    BY <1>4, <2>1, ApplyFewer, LiveFrame DEF StripeEvent, TypeOK
<1>5. ASSUME NEW f \in Notices \X RowStatuses, MercadoPagoApply(f) PROVE OneLive'
  <2>1. f[1][1] \in Charges /\ status[f[1][1]] # "none"
    BY <1>5 DEF MercadoPagoApply, IInv, Existing, SInv, Truthful, Notices
  <2>2. QED
    BY <1>5, <2>1, ApplyFewer, LiveFrame DEF MercadoPagoApply, TypeOK
<1>6. QED
  BY <1>1, <1>3, <1>4, <1>5 DEF Next

\* paymentChargeService.ts:165 holds of requests that come one at a time, but for
\* one thing: as long as no expired row is made live again, by a status fetched
\* before, no two rows of the order are live.
THEOREM OneLiveRow ==
    Spec /\ []OneAtATime /\ [][ExpiredRest]_vars => []NeverTwoLive
<1>1. Init => OneLive
  BY DEF Init, OneLive, NeverTwoLive, SoleLive, Owning, Live
<1>2. /\ TypeOK /\ TypeOK' /\ IInv /\ SInv /\ OneAtATime /\ OneAtATime' /\ [Next]_vars
      /\ [ExpiredRest]_vars /\ OneLive
      => OneLive'
  <2>1. CASE UNCHANGED vars
    BY <2>1, LiveFrame DEF vars, Fewer
  <2>2. QED
    BY <2>1, OneLiveStep
<1>3. OneLive => NeverTwoLive
  BY DEF OneLive
<1>4. QED
  BY <1>1, <1>2, <1>3, ChargeTypes, ChargeInvariant, SequentialInvariant, PTL DEF Spec

\* With Stripe nothing expires: an intent is never left open, and no status waits for
\* its transaction after it was fetched.
Unexpired ==
    gateway = "stripe" =>
        /\ \A c \in Charges : remote[c] \notin {"open", "expired"} /\ status[c] # "expired"
        /\ \A n \in notices : n[2] \notin {"open", "expired"}
        /\ \A k \in Callers : phase[k] = "apply" => seen[k] # "expired"
        /\ fetched = {}

LEMMA ProviderUnexpired ==
    ASSUME NEW r, r # "expired" PROVE ProviderStatus(r) # "expired"
  BY DEF ProviderStatus

\* A change at the gateway to what Stripe has,
LEMMA BecomesUnexpired ==
    ASSUME TypeOK, Unexpired, NEW c \in Charges, NEW r, Becomes(c, r),
           gateway = "stripe" => r \notin {"open", "expired"},
           UNCHANGED <<gateway, status, fetched>>,
           \A k \in Callers : phase'[k] = "apply" => phase[k] = "apply" /\ seen'[k] = seen[k]
    PROVE  Unexpired'
<1>1. \A d \in Charges : remote'[d] \in {remote[d], r}
  BY DEF Becomes, TypeOK
<1>2. \A n \in notices' : n \in notices \/ n[2] = r
  BY DEF Becomes
<1>3. QED
  BY <1>1, <1>2 DEF Unexpired

\* and writes of a row.
LEMMA RowUnexpired ==
    ASSUME Unexpired, UNCHANGED <<gateway, remote, notices>>, fetched' \subseteq fetched,
           NEW s, gateway = "stripe" => s # "expired",
           \A c \in Charges : status'[c] \in {status[c], s, "cancelled"},
           \A k \in Callers : phase'[k] = "apply" => phase[k] = "apply" /\ seen'[k] = seen[k]
    PROVE  Unexpired'
  BY DEF Unexpired

LEMMA ApplyWrites ==
    ASSUME NEW c, NEW s, ApplyEvent(c, s), status \in [Charges -> RowStatuses]
    PROVE  \A d \in Charges : status'[d] \in {status[d], s, "cancelled"}
<1>1. CASE Applies(c)
  BY <1>1 DEF ApplyEvent
<1>2. CASE ~ Applies(c)
  BY <1>2 DEF ApplyEvent
<1>3. QED
  BY <1>1, <1>2

LEMMA UnexpiredStep ==
    ASSUME TypeOK, Unexpired, [Next]_vars
    PROVE  Unexpired'
<1>0. /\ phase \in [Callers -> {"idle", "create", "record"} \cup Resolving]
      /\ seen \in [Callers -> RowStatuses] /\ status \in [Charges -> RowStatuses]
      /\ \A k \in Callers : phase[k] \in {"apply", "cancel", "close", "create", "record"} =>
                               cur[k] \in Charges
  BY DEF TypeOK
<1>1. ASSUME UNCHANGED <<gateway, status, remote, notices, fetched>>,
             \A k \in Callers : phase'[k] = "apply" => phase[k] = "apply" /\ seen'[k] = seen[k]
      PROVE  Unexpired'
  BY <1>1 DEF Unexpired
<1>2. ASSUME NEW k \in Callers, NEW p, p # "apply", Goto(k, p), seen' = seen \/ Ends(k)
      PROVE  \A j \in Callers : phase'[j] = "apply" => phase[j] = "apply" /\ seen'[j] = seen[j]
  BY <1>0, <1>2 DEF Goto, Ends
<1>3. ASSUME NEW k \in Callers,
             \/ PayByLink(k) \/ PayByWhatsApp(k) \/ Prepare(k) \/ FetchFails(k)
             \/ ReturnReused(k) \/ Crash(k)
      PROVE  Unexpired'
  <2>1. UNCHANGED <<gateway, status, remote, notices, fetched>>
    BY <1>3 DEF PayByLink, PayByWhatsApp, Asks, Prepare, FetchFails, ReturnReused, Crash
  <2>2. \E p \in {"asked", "live", "idle"} : Goto(k, p) /\ (seen' = seen \/ Ends(k))
    BY <1>3 DEF PayByLink, PayByWhatsApp, Asks, Prepare, FetchFails, ReturnReused, Crash, Ends
  <2>3. QED
    BY <1>1, <1>2, <2>1, <2>2
<1>4. ASSUME NEW k \in Callers, CancelUnnamed(k) \/ CloseCancelled(k) PROVE Unexpired'
  <2>1. UNCHANGED <<gateway, remote, notices, fetched, seen>>
    BY <1>4 DEF CancelUnnamed, CloseCancelled
  <2>2. \A c \in Charges : status'[c] \in {status[c], "cancelled"}
    BY <1>0, <1>4 DEF CancelUnnamed, CloseCancelled, SetStatus
  <2>3. \A j \in Callers : phase'[j] = "apply" => phase[j] = "apply"
    BY <1>0, <1>4 DEF CancelUnnamed, CloseCancelled, Goto
  <2>4. QED
    BY <2>1, <2>2, <2>3, RowUnexpired
<1>5. ASSUME NEW k \in Callers, Fetch(k) PROVE Unexpired'
  <2>1. PICK c \in Charges : seen' = [seen EXCEPT ![k] = ProviderStatus(remote[c])]
    BY <1>5 DEF Fetch, TypeOK
  <2>2. UNCHANGED <<gateway, status, remote, notices, fetched>>
    BY <1>5 DEF Fetch
  <2>3. \A j \in Callers \ {k} : phase'[j] = phase[j] /\ seen'[j] = seen[j]
    BY <1>0, <1>5, <2>1 DEF Fetch, Goto
  <2>4. seen'[k] = ProviderStatus(remote[c])
    BY <1>0, <2>1
  <2>5. QED
    BY <2>2, <2>3, <2>4, ProviderUnexpired DEF Unexpired
<1>6. ASSUME NEW k \in Callers, ApplySeen(k) PROVE Unexpired'
  <2>1. /\ ApplyEvent(cur[k], seen[k]) /\ phase[k] = "apply"
        /\ UNCHANGED <<gateway, remote, notices, fetched, seen>>
    BY <1>6 DEF ApplySeen
  <2>2. \A j \in Callers : phase'[j] = "apply" => phase[j] = "apply"
    BY <1>0, <1>6 DEF ApplySeen, Goto
  <2>3. gateway = "stripe" => seen[k] # "expired"
    BY <2>1 DEF Unexpired
  <2>4. QED
    BY <1>0, <2>1, <2>2, <2>3, ApplyWrites, RowUnexpired
<1>7. ASSUME NEW k \in Callers, CancelAtGateway(k) \/ CancelFails(k) PROVE Unexpired'
  <2>1. UNCHANGED <<gateway, status, fetched>> /\ cur[k] \in Charges
    BY <1>0, <1>7 DEF CancelAtGateway, CancelFails
  <2>2. \E p \in {"close", "idle"} : Goto(k, p) /\ (seen' = seen \/ Ends(k))
    BY <1>7 DEF CancelAtGateway, CancelFails, Ends
  <2>3. \/ UNCHANGED <<remote, notices>>
        \/ Becomes(cur[k], "cancelled")
    BY <1>7 DEF CancelAtGateway, CancelFails
  <2>4. \A j \in Callers : phase'[j] = "apply" => phase[j] = "apply" /\ seen'[j] = seen[j]
    BY <1>2, <2>2
  <2>5. QED
    BY <1>1, <2>1, <2>3, <2>4, BecomesUnexpired
<1>8. ASSUME NEW k \in Callers, Insert(k) PROVE Unexpired'
  <2>1. /\ UNCHANGED <<gateway, remote, notices, fetched, seen>> /\ Goto(k, "create")
        /\ \A c \in Charges : status'[c] \in {status[c], "pending"}
    BY <1>0, <1>8 DEF Insert
  <2>2. \A j \in Callers : phase'[j] = "apply" => phase[j] = "apply" /\ seen'[j] = seen[j]
    BY <1>2, <2>1
  <2>3. QED
    BY <2>1, <2>2, RowUnexpired
<1>9. ASSUME NEW k \in Callers, Create(k) PROVE Unexpired'
  <2>1. /\ UNCHANGED <<gateway, status, fetched, seen>> /\ Goto(k, "record")
        /\ cur[k] \in Charges
    BY <1>0, <1>9 DEF Create
  <2>2. \A j \in Callers : phase'[j] = "apply" => phase[j] = "apply" /\ seen'[j] = seen[j]
    BY <1>2, <2>1
  <2>3. CASE UNCHANGED <<remote, notices>>
    BY <1>1, <2>1, <2>2, <2>3
  <2>4. CASE \E result \in Creates(want[k]) : Becomes(cur[k], result[1])
    <3>1. PICK result \in Creates(want[k]) : Becomes(cur[k], result[1])
      BY <2>4
    <3>2. gateway = "stripe" => result[1] \notin {"open", "expired"}
      BY DEF Creates
    <3>3. QED
      BY <2>1, <2>2, <3>1, <3>2, BecomesUnexpired
  <2>5. QED
    BY <1>9, <2>3, <2>4 DEF Create
<1>10. ASSUME NEW k \in Callers, Record(k) PROVE Unexpired'
  <2>1. /\ UNCHANGED <<gateway, remote, notices, fetched>> /\ Ends(k) /\ Goto(k, "idle")
        /\ \A c \in Charges : status'[c] \in {status[c], RecordedStatus(answer[k])}
    BY <1>0, <1>10 DEF Record, Ends
  <2>2. \A j \in Callers : phase'[j] = "apply" => phase[j] = "apply" /\ seen'[j] = seen[j]
    BY <1>2, <2>1
  <2>3. RecordedStatus(answer[k]) # "expired"
    BY RecordedFacts
  <2>4. QED
    BY <2>1, <2>2, <2>3, RowUnexpired
<1>11. ASSUME NEW c \in Charges, Settle(c) PROVE Unexpired'
  <2>1. PICK r \in {"captured", "declined", "expired"} :
           /\ remote[c] = "open" \/ (remote[c] = "processing" /\ r # "expired")
           /\ Becomes(c, r)
    BY <1>11 DEF Settle
  <2>2. gateway = "stripe" => r \notin {"open", "expired"}
    BY <2>1 DEF Unexpired
  <2>3. UNCHANGED <<gateway, status, fetched, phase, seen>>
    BY <1>11 DEF Settle
  <2>4. QED
    BY <2>1, <2>2, <2>3, BecomesUnexpired
<1>12. ASSUME NEW n \in Notices, StripeEvent(n) PROVE Unexpired'
  <2>1. /\ UNCHANGED <<gateway, remote, notices, fetched, phase, seen>> /\ n \in notices
        /\ ApplyEvent(n[1], ProviderStatus(n[2]))
    BY <1>12 DEF StripeEvent
  <2>2. gateway = "stripe" => ProviderStatus(n[2]) # "expired"
    BY <2>1, ProviderUnexpired DEF Unexpired
  <2>3. QED
    BY <1>0, <2>1, <2>2, ApplyWrites, RowUnexpired
<1>13. ASSUME NEW n \in Notices, MercadoPagoNotice(n) PROVE Unexpired'
  BY <1>13 DEF MercadoPagoNotice, Unexpired
<1>14. ASSUME NEW f \in Notices \X RowStatuses, MercadoPagoApply(f) PROVE Unexpired'
  BY <1>14 DEF MercadoPagoApply, Unexpired
<1>15. CASE \/ \E s \in OperatorSets : OperatorReads(s) \/ OperatorWrites(s)
            \/ UNCHANGED vars
  BY <1>1, <1>15 DEF OperatorReads, OperatorWrites, vars
<1>16. QED
  BY <1>3, <1>4, <1>5, <1>6, <1>7, <1>8, <1>9, <1>10, <1>11, <1>12, <1>13, <1>14, <1>15
  DEF Next, CallerStep

\* So with Stripe it holds of requests that come one at a time, without more.
THEOREM StripeOneLiveRow ==
    Spec /\ []OneAtATime => [](gateway = "stripe" => NeverTwoLive)
<1> DEFINE Sole == gateway = "stripe" => OneLive
<1>1. Init => Unexpired /\ Sole
  BY DEF Init, Unexpired, OneLive, NeverTwoLive, SoleLive, Owning, Live
<1>2. /\ TypeOK /\ TypeOK' /\ IInv /\ SInv /\ OneAtATime /\ OneAtATime' /\ [Next]_vars
      /\ Unexpired /\ Sole
      => Unexpired' /\ Sole'
  <2> SUFFICES ASSUME TypeOK, TypeOK', IInv, SInv, OneAtATime, OneAtATime', [Next]_vars,
                      Unexpired, Sole
               PROVE  Unexpired' /\ Sole'
    OBVIOUS
  <2>1. gateway' = gateway
    BY DEF Next, CallerStep, PayByLink, PayByWhatsApp, Asks, Prepare, CancelUnnamed, Fetch,
           FetchFails, ApplySeen, CancelAtGateway, CancelFails, CloseCancelled, ReturnReused,
           Insert, Create, Record, Crash, Settle, StripeEvent, MercadoPagoNotice,
           MercadoPagoApply, OperatorReads, OperatorWrites, vars
  <2>2. gateway = "stripe" => ExpiredRest
    BY DEF Unexpired, ExpiredRest
  <2>3. QED
    BY <2>1, <2>2, UnexpiredStep, OneLiveStep
<1>3. Sole => (gateway = "stripe" => NeverTwoLive)
  BY DEF OneLive
<1> HIDE DEF Sole
<1>4. QED
  BY <1>1, <1>2, <1>3, ChargeTypes, ChargeInvariant, SequentialInvariant, PTL DEF Spec

-----------------------------------------------------------------------------
(* Payments and their notifications.                                       *)

\* What makes a notification pay the order: a row is paid with its order, what
\* was handled was sent, and Stripe's events are not fetched first.
Delivered ==
    /\ \A c \in Charges : status[c] = "paid" => payStatus = "paid"
    /\ gateway = "stripe" => handled \subseteq notices /\ fetched = {}

\* Applying an event pays the row and the order together,
LEMMA ApplyDelivers ==
    ASSUME TypeOK, Delivered, NEW c \in Charges, NEW s \in RowStatuses, ApplyEvent(c, s)
    PROVE  /\ \A d \in Charges : status'[d] = "paid" => payStatus' = "paid"
           /\ payStatus = "paid" => payStatus' = "paid"
           /\ s = "paid" /\ Applies(c) => payStatus' = "paid"
<1>1. CASE Applies(c)
  <2>1. /\ payStatus' = PayStatusAfter(s)
        /\ \A d \in Charges : status'[d] = "paid" => (d = c /\ s = "paid") \/ status[d] = "paid"
    BY <1>1 DEF ApplyEvent
  <2>2. QED
    BY <2>1 DEF PayStatusAfter, Delivered
<1>2. CASE ~ Applies(c)
  BY <1>2 DEF ApplyEvent, Delivered
<1>3. QED
  BY <1>1, <1>2

\* and every change at the gateway that captures a charge announces it.
LEMMA BecomesDelivers ==
    ASSUME TypeOK, Witnessed, Delivered, UNCHANGED <<gateway, payStatus, handled>>,
           CapturedIsKnown, NEW c \in Charges, NEW r \in RemoteStates \ {"none"},
           remote[c] # "captured", Becomes(c, r)
    PROVE  CapturedIsKnown' /\ (gateway = "stripe" => handled' \subseteq notices')
<1>1. /\ remote'[c] = r /\ \A d \in Charges : d # c => remote'[d] = remote[d]
      /\ notices \subseteq notices'
  BY BecomesEffect DEF Becomes
<1>2. gateway = "stripe" /\ r = "captured" => <<c, "captured">> \in notices' \ handled
  <2>1. <<c, "captured">> \notin notices
    BY DEF Witnessed
  <2>2. gateway = "stripe" /\ r = "captured" => <<c, "captured">> \in notices'
    BY DEF Becomes, Announced
  <2>3. QED
    BY <2>1, <2>2 DEF Delivered
<1>3. QED
  BY <1>1, <1>2 DEF CapturedIsKnown, Delivered

\* The two last facts carry over each step, and with them that every payment is
\* either in the order or on its way.
LEMMA KnownStep ==
    ASSUME TypeOK, TypeOK', IInv, SInv, Delivered, CapturedIsKnown, [Next]_vars
    PROVE  Delivered' /\ CapturedIsKnown'
<1>1. ASSUME NEW k \in Callers,
             \/ PayByLink(k) \/ PayByWhatsApp(k) \/ Prepare(k) \/ Fetch(k) \/ FetchFails(k)
             \/ ReturnReused(k) \/ Crash(k)
      PROVE  Delivered' /\ CapturedIsKnown'
  BY <1>1 DEF PayByLink, PayByWhatsApp, Asks, Prepare, Fetch, FetchFails, ReturnReused, Crash,
              Delivered, CapturedIsKnown
<1>2. ASSUME NEW k \in Callers, CancelUnnamed(k) \/ CloseCancelled(k)
      PROVE  Delivered' /\ CapturedIsKnown'
  <2>1. PICK c \in Charges : SetStatus(c, "cancelled")
    BY <1>2 DEF CancelUnnamed, CloseCancelled, TypeOK
  <2>2. \A d \in Charges : status'[d] = "paid" => status[d] = "paid"
    BY <2>1, SetStatusEffect DEF RowStatuses, Terminal
  <2>3. QED
    BY <1>2, <2>2 DEF CancelUnnamed, CloseCancelled, Delivered, CapturedIsKnown
<1>3. ASSUME NEW k \in Callers, ApplySeen(k) PROVE Delivered' /\ CapturedIsKnown'
  <2>1. cur[k] \in Charges /\ seen[k] \in RowStatuses /\ ApplyEvent(cur[k], seen[k])
    BY <1>3 DEF ApplySeen, TypeOK
  <2>2. /\ \A d \in Charges : status'[d] = "paid" => payStatus' = "paid"
        /\ payStatus = "paid" => payStatus' = "paid"
    BY <2>1, ApplyDelivers
  <2>3. QED
    BY <1>3, <2>2 DEF ApplySeen, Delivered, CapturedIsKnown
<1>4. ASSUME NEW k \in Callers, CancelAtGateway(k) \/ CancelFails(k)
      PROVE  Delivered' /\ CapturedIsKnown'
  <2>1. UNCHANGED <<gateway, payStatus, status, handled, fetched>>
    BY <1>4 DEF CancelAtGateway, CancelFails
  <2>2. CASE UNCHANGED <<remote, notices>>
    BY <2>1, <2>2 DEF Delivered, CapturedIsKnown
  <2>3. CASE Cancelable(remote[cur[k]]) /\ Becomes(cur[k], "cancelled")
    <3>1. cur[k] \in Charges /\ remote[cur[k]] # "captured"
          /\ "cancelled" \in RemoteStates \ {"none"}
      BY <1>4, <2>3 DEF CancelAtGateway, CancelFails, Cancelable, TypeOK, RemoteStates
    <3>2. CapturedIsKnown' /\ (gateway = "stripe" => handled' \subseteq notices')
      BY <2>1, <2>3, <3>1, BecomesDelivers DEF IInv
    <3>3. QED
      BY <2>1, <3>2 DEF Delivered
  <2>4. QED
    BY <1>4, <2>2, <2>3 DEF CancelAtGateway, CancelFails
<1>5. ASSUME NEW k \in Callers, Insert(k) PROVE Delivered' /\ CapturedIsKnown'
  BY <1>5 DEF Insert, Fresh, Delivered, CapturedIsKnown, TypeOK
<1>6. ASSUME NEW k \in Callers, Create(k) PROVE Delivered' /\ CapturedIsKnown'
  <2>1. UNCHANGED <<gateway, payStatus, status, handled, fetched>>
    BY <1>6 DEF Create
  <2>2. CASE UNCHANGED <<remote, notices>>
    BY <2>1, <2>2 DEF Delivered, CapturedIsKnown
  <2>3. CASE \E result \in Creates(want[k]) : Becomes(cur[k], result[1])
    <3>1. PICK result \in Creates(want[k]) : Becomes(cur[k], result[1])
      BY <2>3
    <3>2. result[1] \in RemoteStates \ {"none"}
      BY CreatesFacts
    <3>3. cur[k] \in Charges /\ remote[cur[k]] # "captured"
      BY <1>6 DEF Create, IInv, Existing, TypeOK
    <3>4. CapturedIsKnown' /\ (gateway = "stripe" => handled' \subseteq notices')
      BY <2>1, <3>1, <3>2, <3>3, BecomesDelivers DEF IInv
    <3>5. QED
      BY <2>1, <3>4 DEF Delivered
  <2>4. QED
    BY <1>6, <2>2, <2>3 DEF Create
<1>7. ASSUME NEW k \in Callers, Record(k) PROVE Delivered' /\ CapturedIsKnown'
  <2>1. PICK s \in {"authorized", "pending", "failed"} :
           status' = [status EXCEPT ![cur[k]] = s] /\ payStatus' = PayStatusAfter(s)
    BY <1>7, RecordedFacts DEF Record
  <2>2. /\ \A d \in Charges : status'[d] = "paid" => status[d] = "paid"
        /\ payStatus = "paid" => payStatus' = "paid"
    BY <2>1 DEF TypeOK, PayStatusAfter
  <2>3. QED
    BY <1>7, <2>2 DEF Record, Delivered, CapturedIsKnown
<1>8. ASSUME NEW c \in Charges, Settle(c) PROVE Delivered' /\ CapturedIsKnown'
  <2>1. PICK r \in {"captured", "declined", "expired"} :
           remote[c] # "captured" /\ Becomes(c, r)
    BY <1>8 DEF Settle
  <2>2. r \in RemoteStates \ {"none"} /\ UNCHANGED <<gateway, payStatus, status, handled, fetched>>
    BY <1>8 DEF Settle, RemoteStates
  <2>3. CapturedIsKnown' /\ (gateway = "stripe" => handled' \subseteq notices')
    BY <2>1, <2>2, BecomesDelivers DEF IInv
  <2>4. QED
    BY <2>2, <2>3 DEF Delivered
<1>9. ASSUME NEW n \in Notices, StripeEvent(n) PROVE Delivered' /\ CapturedIsKnown'
  <2>1. /\ n \in notices /\ n[1] \in Charges /\ ProviderStatus(n[2]) \in RowStatuses
        /\ ApplyEvent(n[1], ProviderStatus(n[2]))
    BY <1>9, ProviderStatusFacts DEF StripeEvent, Notices
  <2>2. /\ \A d \in Charges : status'[d] = "paid" => payStatus' = "paid"
        /\ payStatus = "paid" => payStatus' = "paid"
        /\ ProviderStatus(n[2]) = "paid" /\ Applies(n[1]) => payStatus' = "paid"
    BY <2>1, ApplyDelivers
  <2>3. UNCHANGED <<gateway, notices, fetched, remote>> /\ handled' = handled \cup {n}
    BY <1>9 DEF StripeEvent
  \* The event of a captured charge finds its row live or paid.
  <2>4. n[2] = "captured" => payStatus' = "paid"
    <3>1. SUFFICES ASSUME n[2] = "captured"
                   PROVE  payStatus' = "paid"
      OBVIOUS
    <3>2. ProviderStatus(n[2]) = "paid" /\ remote[n[1]] = "captured"
      BY <2>1, <3>1, ProviderStatusFacts DEF IInv, Witnessed, RemoteStates
    <3>3. status[n[1]] \in Live \cup {"paid"}
      BY <2>1, <3>2 DEF SInv, Charged, Money
    <3>4. CASE status[n[1]] \in Live
      BY <2>2, <3>2, <3>4 DEF Applies, Live, Terminal
    <3>5. CASE status[n[1]] = "paid"
      BY <2>1, <2>2, <3>5 DEF Delivered
    <3>6. QED
      BY <3>3, <3>4, <3>5
  <2>5. CapturedIsKnown'
    BY <2>2, <2>3, <2>4 DEF CapturedIsKnown
  <2>6. QED
    BY <2>1, <2>2, <2>3, <2>5 DEF Delivered
<1>10. ASSUME NEW n \in Notices, MercadoPagoNotice(n) PROVE Delivered' /\ CapturedIsKnown'
  BY <1>10 DEF MercadoPagoNotice, Delivered, CapturedIsKnown
<1>11. ASSUME NEW f \in Notices \X RowStatuses, MercadoPagoApply(f)
       PROVE  Delivered' /\ CapturedIsKnown'
  <2>1. f \in fetched /\ f[1][1] \in Charges /\ f[2] \in RowStatuses /\ ApplyEvent(f[1][1], f[2])
    BY <1>11 DEF MercadoPagoApply, Notices
  <2>2. \A d \in Charges : status'[d] = "paid" => payStatus' = "paid"
    BY <2>1, ApplyDelivers
  <2>3. gateway' = gateway /\ gateway # "stripe"
    BY <1>11, <2>1 DEF MercadoPagoApply, Delivered
  <2>4. QED
    BY <1>11, <2>2, <2>3 DEF MercadoPagoApply, Delivered, CapturedIsKnown
<1>12. ASSUME \/ \E s \in OperatorSets : OperatorReads(s) \/ OperatorWrites(s)
              \/ UNCHANGED vars
       PROVE  Delivered' /\ CapturedIsKnown'
  BY <1>12 DEF OperatorReads, OperatorWrites, vars, Delivered, CapturedIsKnown
<1>13. QED
  BY <1>1, <1>2, <1>3, <1>4, <1>5, <1>6, <1>7, <1>8, <1>9, <1>10, <1>11, <1>12
  DEF Next, CallerStep

\* With Stripe and requests one at a time, every captured payment is in the order
\* or its notification is still to be handled: the safety half of
\* CapturedIsSettled, which delivery then completes.
THEOREM CapturedKnown == Spec /\ []OneAtATime => []CapturedIsKnown
<1>1. Init => Delivered /\ CapturedIsKnown
  BY DEF Init, Delivered, CapturedIsKnown
<1>2. /\ TypeOK /\ TypeOK' /\ IInv /\ SInv /\ [Next]_vars
      /\ Delivered /\ CapturedIsKnown
      => Delivered' /\ CapturedIsKnown'
  BY KnownStep
<1>3. QED
  BY <1>1, <1>2, SequentialInvariant, ChargeTypes, ChargeInvariant, PTL DEF Spec

\* A deployment that serves one request at a time, in which none stops and every
\* creation and cancel is answered, is such a case.
LEMMA SingleCaller ==
    ASSUME \A j, k \in Callers : j = k, MaxCrashes = 0, MaxLost = 0
    PROVE  Spec => []OneAtATime
<1>1. Init => OneAtATime
  BY DEF Init, OneAtATime
<1>2. OneAtATime /\ [Next]_vars => OneAtATime'
  <2> SUFFICES ASSUME crashes = 0, lost = 0, [Next]_vars
               PROVE  crashes' = 0 /\ lost' = 0
    BY DEF OneAtATime
  <2>1. ASSUME NEW k \in Callers,
               PayByLink(k) \/ PayByWhatsApp(k) \/ CallerStep(k) \/ Crash(k)
        PROVE  crashes' = 0 /\ lost' = 0
    BY <2>1 DEF PayByLink, PayByWhatsApp, Asks, CallerStep, Prepare, CancelUnnamed, Fetch,
                FetchFails, ApplySeen, CancelAtGateway, CancelFails, CloseCancelled,
                ReturnReused, Insert, Create, Record, Crash
  <2>2. CASE \/ \E c \in Charges : Settle(c)
             \/ \E n \in Notices : StripeEvent(n) \/ MercadoPagoNotice(n)
             \/ \E f \in Notices \X RowStatuses : MercadoPagoApply(f)
             \/ \E s \in OperatorSets : OperatorReads(s) \/ OperatorWrites(s)
             \/ UNCHANGED vars
    BY <2>2 DEF Settle, StripeEvent, MercadoPagoNotice, MercadoPagoApply, OperatorReads,
                OperatorWrites, vars
  <2>3. QED
    BY <2>1, <2>2 DEF Next
<1>3. QED
  BY <1>1, <1>2, PTL DEF Spec

\* So in it the three properties hold of the specification itself.
THEOREM SingleCallerIsSafe ==
    ASSUME \A j, k \in Callers : j = k, MaxCrashes = 0, MaxLost = 0
    PROVE  Spec => [](OneOpenAtGateway /\ ClosedTakesNoMoney /\ CapturedIsKnown)
  BY SingleCaller, OneOpen, ClosedIsSafe, CapturedKnown, PTL
=============================================================================
