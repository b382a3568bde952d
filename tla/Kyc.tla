---------------------------------- MODULE Kyc ----------------------------------
(***************************************************************************)
(* kyc.service.ts for one user, with the services it calls: the virus      *)
(* scanner, the object storage, the government's records (MKS), and        *)
(* tc-kimlik-validator.ts.  A call is one submission being served; calls   *)
(* interleave at every await.  MKS is asked after the answer was sent: its *)
(* task outlives the call, and dies with the process.                      *)
(*                                                                         *)
(* Nothing in src/ approves or rejects a submission; Review stands for an  *)
(* administrator's write to the table.                                     *)
(***************************************************************************)
EXTENDS Integers, Sequences, FiniteSets

CONSTANTS Calls,    \* submissions that can be in progress at once
          Numbers,  \* identity numbers that are typed, right and wrong
          Scenarios \* how many submissions (a bound), how many at a time, and
                    \* whether the scanner is "on", "off" or "skipped"

VARIABLES
    scenario, started,
    rows,    \* kyc_submissions, in the order of insertion
    stored,  \* the objects in the bucket
    asking,  \* rows whose MKS answer is awaited
    pc, mem, \* the calls and what they remember
    reviewed \* history: an administrator has decided

vars == <<scenario, started, rows, stored, asking, pc, mem, reviewed>>

PC == {"idle", "findApproved", "scan", "upload", "insert"}
Status == {"PENDING", "IN_REVIEW", "APPROVED", "REJECTED"}

\* The files of a submission in the order they are scanned and uploaded; the
\* last one, addressProof, may be missing.
File == [of : Nat, n : 1..4, clean : BOOLEAN]
RequiredFiles == 3

-----------------------------------------------------------------------------
(* TcKimlikValidator, on sequences of digits                               *)

SumOdd(d) == d[1] + d[3] + d[5] + d[7] + d[9]
SumEven(d) == d[2] + d[4] + d[6] + d[8]

\* JavaScript's % takes the sign of the dividend.
Remainder(a, n) == IF a >= 0 THEN a % n ELSE -((-a) % n)

Tenth(d) ==
    LET e == Remainder(SumOdd(d) * 7 - SumEven(d), 10)
    IN IF e < 0 THEN Remainder(e + 10, 10) ELSE e

Validate(d) ==
    /\ Len(d) = 11 /\ d[1] # 0
    /\ Tenth(d) = d[10]
    /\ (SumOdd(d) + SumEven(d) + d[10]) % 10 = d[11]

\* Every mistyped digit is noticed.
NoticesOneDigit ==
    \A d \in Numbers, i \in 1..11, v \in 0..9 :
      Validate(d) /\ v # d[i] => ~Validate([d EXCEPT ![i] = v])

-----------------------------------------------------------------------------
Nothing == [n |-> 0, number |-> <<>>, files |-> {}, next |-> 1]

TypeOK ==
    /\ started \in 0..scenario.calls
    /\ \A i \in DOMAIN rows :
         rows[i].status \in Status /\ rows[i].verified \in BOOLEAN
           /\ rows[i].files \subseteq File
    /\ stored \subseteq File /\ asking \subseteq DOMAIN rows
    /\ pc \in [Calls -> PC]
    /\ \A c \in Calls : mem[c].files \subseteq File /\ mem[c].next \in 1..5

Init ==
    /\ scenario \in Scenarios
    /\ started = 0
    /\ rows = <<>> /\ stored = {} /\ asking = {}
    /\ pc = [c \in Calls |-> "idle"]
    /\ mem = [c \in Calls |-> Nothing]
    /\ reviewed = FALSE

Goto(c, l) == pc' = [pc EXCEPT ![c] = l]
Return(c) == Goto(c, "idle") /\ mem' = [mem EXCEPT ![c] = Nothing]
Has(status) == \E i \in DOMAIN rows : rows[i].status = status

Begin(c, number, dirty, proof) ==
    /\ pc[c] = "idle"
    /\ Cardinality({d \in Calls : pc[d] # "idle"}) < scenario.width
    /\ started < scenario.calls
    /\ started' = started + 1
    /\ Goto(c, "findApproved")
    /\ mem' = [mem EXCEPT ![c] =
                 [n |-> started', number |-> number, next |-> 1,
                  files |-> {[of |-> started', n |-> i, clean |-> i # dirty] :
                               i \in 1..(RequiredFiles + proof)}]]
    /\ UNCHANGED <<scenario, rows, stored, asking, reviewed>>

\* The first check: only PENDING and APPROVED stand in the way.
SubmitKyc(c, number, dirty, proof) ==
    /\ ~Has("PENDING")
    /\ Begin(c, number, dirty, proof)

\* The second check, the number and the form of the files; only scanned files
\* go on.
FindApproved(c) ==
    /\ pc[c] = "findApproved"
    /\ IF Has("APPROVED") \/ ~Validate(mem[c].number)
       THEN Return(c)
       ELSE Goto(c, "scan") /\ UNCHANGED mem
    /\ UNCHANGED <<scenario, started, rows, stored, asking, reviewed>>

TheFile(c) == CHOOSE f \in mem[c].files : f.n = mem[c].next
AtLast(c) == mem[c].next = Cardinality(mem[c].files)
NextFile(c, l) ==
    IF AtLast(c) THEN Goto(c, l) /\ mem' = [mem EXCEPT ![c].next = 1]
    ELSE mem' = [mem EXCEPT ![c].next = @ + 1] /\ UNCHANGED pc

\* Fault: only the files that must be there are scanned.
ScanRequired(c) ==
    /\ pc[c] = "scan"
    /\ CASE scenario.scanner = "off" -> Return(c)
         [] scenario.scanner = "on" /\ ~TheFile(c).clean -> Return(c)
         [] mem[c].next = RequiredFiles ->
              Goto(c, "upload") /\ mem' = [mem EXCEPT ![c].next = 1]
         [] OTHER -> NextFile(c, "upload")
    /\ UNCHANGED <<scenario, started, rows, stored, asking, reviewed>>

\* Every file is scanned before the first is uploaded.  Without a scanner the
\* submission is refused, unless SKIP_VIRUS_SCAN is set.
Scan(c) ==
    /\ pc[c] = "scan"
    /\ IF \/ scenario.scanner = "off"
          \/ scenario.scanner = "on" /\ ~TheFile(c).clean
       THEN Return(c)
       ELSE NextFile(c, "upload")
    /\ UNCHANGED <<scenario, started, rows, stored, asking, reviewed>>

\* One after the other; what was uploaded stays when a later step fails.
UploadFile(c) ==
    /\ pc[c] = "upload"
    /\ stored' = stored \cup {TheFile(c)}
    /\ NextFile(c, "insert")
    /\ UNCHANGED <<scenario, started, rows, asking, reviewed>>

Insert(c) ==
    /\ pc[c] = "insert"
    /\ rows' = Append(rows, [status |-> "PENDING", verified |-> FALSE,
                             number |-> mem[c].number, files |-> mem[c].files])
    /\ asking' = asking \cup {Len(rows')}
    /\ Return(c)
    /\ UNCHANGED <<scenario, started, stored, reviewed>>

\* Yes of a number that the mock knows, or the government has with this name and
\* year; no of any other, and when MKS cannot be reached.
MksAnswers == BOOLEAN

\* The status is written whatever it is by now.
VerifyWithMks(i, verified) ==
    /\ i \in asking
    /\ rows' = [rows EXCEPT ![i].verified = verified,
                            ![i].status = IF verified THEN "IN_REVIEW" ELSE "PENDING"]
    /\ asking' = asking \ {i}
    /\ UNCHANGED <<scenario, started, stored, pc, mem, reviewed>>

Review(i, status) ==
    /\ rows[i].status \in {"PENDING", "IN_REVIEW"}
    /\ rows' = [rows EXCEPT ![i].status = status]
    /\ reviewed' = TRUE
    /\ UNCHANGED <<scenario, started, stored, asking, pc, mem>>

\* A step of a submission throws.
Break(c) ==
    /\ pc[c] # "idle"
    /\ Return(c)
    /\ UNCHANGED <<scenario, started, rows, stored, asking, reviewed>>

\* The process stops: nobody asks MKS about its submissions again.
Restart ==
    /\ asking # {} \/ \E c \in Calls : pc[c] # "idle"
    /\ asking' = {}
    /\ pc' = [c \in Calls |-> "idle"] /\ mem' = [c \in Calls |-> Nothing]
    /\ UNCHANGED <<scenario, started, rows, stored, reviewed>>

Next ==
    \/ \E c \in Calls :
         \/ \E d \in Numbers, dirty \in {0, 1, 4}, proof \in {0, 1} :
              SubmitKyc(c, d, dirty, proof)
         \/ FindApproved(c) \/ Scan(c) \/ UploadFile(c) \/ Insert(c)
         \/ Break(c)
    \/ \E i \in DOMAIN rows :
         \/ \E verified \in MksAnswers : VerifyWithMks(i, verified)
         \/ \E status \in {"APPROVED", "REJECTED"} : Review(i, status)
    \/ Restart

Spec == Init /\ [][Next]_vars

-----------------------------------------------------------------------------
\* While no administrator has decided, submissions that run at the same time
\* leave at most one PENDING row each, although the check and the insert are
\* several awaits apart and a verified submission does not block a new one.
PendingBounded ==
    ~reviewed =>
        Cardinality({i \in DOMAIN rows : rows[i].status = "PENDING"}) <= scenario.width

\* A row has a valid number and all its files in the bucket; no file with a virus
\* gets there while the scanner works, also not of a submission that is refused.
\* A valid number with one digit mistyped is not valid.
SubmissionsAreChecked ==
    /\ \A i \in DOMAIN rows : rows[i].files \subseteq stored /\ Validate(rows[i].number)
    /\ scenario.scanner = "on" => \A f \in stored : f.clean
    /\ started = 0 => NoticesOneDigit
=============================================================================
