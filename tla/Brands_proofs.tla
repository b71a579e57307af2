---------------------------- MODULE Brands_proofs ----------------------------
(***************************************************************************)
(* Proofs about Brands, for any number of requests, brands, months and     *)
(* failures: what an answer shows, how campaigns are numbered, and why a   *)
(* request is refused.                                                     *)
(***************************************************************************)
EXTENDS Brands, FiniteSetTheorems, TLAPS

-----------------------------------------------------------------------------
(* The types *)

\* What a request has asked for, by where it is.
Asked(r) ==
  /\ request[r].pc \in {"code", "storeBrand", "readBrand"} =>
       request[r].op = "brand" /\ request[r].letter \in Letters
  /\ request[r].pc = "logo" =>
       /\ request[r].op \in {"brand", "logo"} /\ request[r].brand \in DOMAIN brands
       /\ request[r].op = "brand" => request[r].brand = r
  /\ request[r].pc \in {"year", "storeCampaign", "readCampaign"} =>
       request[r].op = "campaign" /\ request[r].brand \in DOMAIN brands
  /\ request[r].pc \in {"storeContact", "readContact"} =>
       request[r].op = "contact" /\ request[r].brand \in DOMAIN brands

\* The codes that are tried are codes.
LEMMA CandidateIsCode ==
  ASSUME NEW letter \in Letters, NEW try \in Nat
  PROVE  Candidate(letter, try) \in Codes
<1>1. Digits \in Nat \ {0} /\ Letters \subseteq Nat
  BY BrandsAssumption
<1>2. (try + 1) % Digits \in 0 .. Digits - 1
  BY <1>1
<1>. QED  BY <1>1, <1>2 DEF Candidate, Codes

LEMMA YearIsNat == \A m \in Nat : YearOf(m) \in Nat
<1>1. MonthsPerYear \in Nat \ {0}
  BY BrandsAssumption
<1>. QED  BY <1>1 DEF YearOf

LEMMA MonthIsNat == TypeOK => month \in Nat
  BY BrandsAssumption DEF TypeOK

LEMMA IdleTyped == Idle \in RequestRow
  BY BrandsAssumption DEF Idle, RequestRow, Answers

\* What the steps do to the row of their request.
LEMMA GotoKeeps ==
  ASSUME TypeOK, NEW r \in Requests,
         NEW pc \in {"storeBrand", "readBrand", "readCampaign", "readContact"}, Goto(r, pc)
  PROVE  /\ request' \in [Requests -> RequestRow]
         /\ \A q \in Requests \ {r} : request'[q] = request[q]
         /\ request'[r] = [request[r] EXCEPT !.pc = pc]
<1>1. [request[r] EXCEPT !.pc = pc] \in RequestRow
  BY DEF TypeOK, RequestRow
<1>. QED  BY <1>1 DEF Goto, TypeOK

Shown == OldBrands \cup Requests \cup {"none"}

LEMMA ReplyKeeps ==
  ASSUME TypeOK, NEW r \in Requests, NEW answer \in Answers, NEW shown \in Shown,
         Reply(r, answer, shown)
  PROVE  /\ request' \in [Requests -> RequestRow]
         /\ \A q \in Requests \ {r} : request'[q] = request[q]
         /\ request'[r].pc = "done" /\ request'[r].op = request[r].op
         /\ request'[r].answer = answer /\ request'[r].shown = shown
<1>1. request[r] \in RequestRow
  BY DEF TypeOK
<1>2. [request[r] EXCEPT !.pc = "done", !.answer = answer, !.shown = shown] \in RequestRow
  BY <1>1 DEF RequestRow, Shown
<1>3. request' = [request EXCEPT ![r] =
                    [request[r] EXCEPT !.pc = "done", !.answer = answer, !.shown = shown]]
  BY DEF Reply, TypeOK
<1>. QED  BY <1>1, <1>2, <1>3 DEF TypeOK, RequestRow

LEMMA FailsKeeps ==
  ASSUME TypeOK, NEW r \in Requests, Fails(r)
  PROVE  failures' \in 0 .. MaxFailures /\ Reply(r, "error", "none")
<1>1. MaxFailures \in Nat
  BY BrandsAssumption
<1>. QED  BY <1>1 DEF Fails, TypeOK

-----------------------------------------------------------------------------
(* Every request is served by its own row *)

\* When a request's own row is stored.
Stored(r) ==
  /\ r \in DOMAIN brands =>
       /\ request[r].op = "brand" /\ request[r].pc \in {"readBrand", "logo", "done"}
       /\ request[r].pc = "done" => request[r].answer \in {"ok", "error", "logo_upload_failed"}
  /\ r \in DOMAIN campaigns =>
       /\ request[r].op = "campaign" /\ request[r].pc \in {"readCampaign", "done"}
       /\ request[r].pc = "done" => request[r].answer \in {"ok", "error"}
  /\ r \in DOMAIN contacts =>
       /\ request[r].op = "contact" /\ request[r].pc \in {"readContact", "done"}
       /\ request[r].pc = "done" => request[r].answer \in {"ok", "error"}

\* The id it looks its row up by is the row's.
LooksUp(r) ==
  /\ request[r].pc = "readBrand" => r \in DOMAIN brands /\ brands[r] = CodeOf(r)
  /\ request[r].pc = "logo" /\ request[r].op = "brand" => r \in DOMAIN brands
  /\ request[r].pc = "readCampaign" => r \in DOMAIN campaigns /\ campaigns[r].id = HumanId(r)
  /\ request[r].pc = "readContact" => r \in DOMAIN contacts

\* An answer other than none is given at the end, and is true.
Answer(r) ==
  /\ request[r].pc # "done" => request[r].answer = "none"
  /\ request[r].answer \in {"ok", "logo_upload_failed"} /\ request[r].op = "brand" =>
       r \in DOMAIN brands
  /\ request[r].answer = "ok" /\ request[r].op = "campaign" => r \in DOMAIN campaigns
  /\ request[r].answer = "ok" /\ request[r].op = "contact" => r \in DOMAIN contacts
  /\ request[r].answer = "ok" /\ request[r].op \in {"brand", "campaign", "contact"} =>
       request[r].shown = r

Sound(r) == Asked(r) /\ Stored(r) /\ LooksUp(r) /\ Answer(r)

Unique ==
  /\ \A b, d \in DOMAIN brands : brands[b] = brands[d] => b = d
  /\ \A c, d \in DOMAIN campaigns : campaigns[c].id = campaigns[d].id => c = d

Inv == TypeOK /\ Unique /\ \A r \in Requests : Sound(r)

LEMMA InvInit == Init => Inv
<1>. SUFFICES ASSUME Init PROVE Inv
  OBVIOUS
<1>1. DOMAIN campaigns = {} /\ DOMAIN contacts = {} /\ DOMAIN brands = OldBrands
  BY DEF Init
<1>2. brands \in [OldBrands -> Codes]
  BY DEF Init, Codes
<1>3. TypeOK
  BY <1>1, <1>2, IdleTyped, BrandsAssumption DEF Init, TypeOK
<1>4. Unique
  BY <1>1 DEF Init, Unique
<1>5. ASSUME NEW r \in Requests PROVE Sound(r)
  <2>1. request[r] = Idle /\ r \notin OldBrands
    BY BrandsAssumption DEF Init
  <2>. QED  BY <1>1, <2>1 DEF Sound, Asked, Stored, LooksUp, Answer, Idle
<1>. QED  BY <1>3, <1>4, <1>5 DEF Inv

\* What a step of r leaves of the tables and of the other requests.
Grows(r) ==
  /\ DOMAIN brands \subseteq DOMAIN brands' /\ DOMAIN brands' \subseteq DOMAIN brands \cup {r}
  /\ \A b \in DOMAIN brands : brands'[b] = brands[b]
  /\ DOMAIN campaigns \subseteq DOMAIN campaigns' /\ DOMAIN campaigns' \subseteq DOMAIN campaigns \cup {r}
  /\ \A c \in DOMAIN campaigns : campaigns'[c] = campaigns[c]
  /\ DOMAIN contacts \subseteq DOMAIN contacts' /\ DOMAIN contacts' \subseteq DOMAIN contacts \cup {r}
  /\ \A q \in Requests \ {r} : request'[q] = request[q]

LEMMA OthersSound ==
  ASSUME NEW r \in Requests, Grows(r), NEW q \in Requests \ {r}, Sound(q)
  PROVE  Sound(q)'
<1>1. request'[q] = request[q]
  BY DEF Grows
<1>2. Asked(q)' /\ Stored(q)' /\ Answer(q)'
  BY <1>1 DEF Grows, Sound, Asked, Stored, Answer
<1>3. CodeOf(q)' = CodeOf(q)
  BY <1>1 DEF CodeOf
<1>4. request[q].pc = "readCampaign" => HumanId(q)' = HumanId(q)
  BY <1>1 DEF HumanId, Sound, Asked, Grows
<1>5. LooksUp(q)'
  BY <1>1, <1>3, <1>4 DEF Sound, LooksUp, Grows
<1>. QED  BY <1>2, <1>5 DEF Sound

\* The steps that only change where their request is.
LEMMA TablesKept ==
  ASSUME NEW r \in Requests, UNCHANGED tables, \A q \in Requests \ {r} : request'[q] = request[q]
  PROVE  Grows(r) /\ (Unique => Unique')
  BY DEF Grows, tables, Unique

LEMMA KeptTyped ==
  ASSUME TypeOK, UNCHANGED <<tables, month>>, request' \in [Requests -> RequestRow],
         failures' \in 0 .. MaxFailures
  PROVE  TypeOK'
  BY DEF TypeOK, tables

\* What every step of a request is shown to do.
Keeps(r) == TypeOK' /\ Unique' /\ Grows(r) /\ Sound(r)'

\* A request that ends without touching a table or a row of its own.
LEMMA ReplyRefused ==
  ASSUME Inv, NEW r \in Requests, UNCHANGED <<tables, month>>, failures' \in 0 .. MaxFailures,
         NEW answer \in Answers \ {"ok", "logo_upload_failed", "none"}, Reply(r, answer, "none"),
         answer # "error" => r \notin DOMAIN brands \cup DOMAIN campaigns \cup DOMAIN contacts
  PROVE  Keeps(r)
<1>1. TypeOK /\ Unique /\ Sound(r)
  BY DEF Inv
<1>2. /\ request' \in [Requests -> RequestRow]
      /\ \A q \in Requests \ {r} : request'[q] = request[q]
      /\ request'[r].pc = "done" /\ request'[r].op = request[r].op /\ request'[r].answer = answer
  BY <1>1, ReplyKeeps DEF Shown
<1>3. TypeOK' /\ Unique' /\ Grows(r)
  BY <1>1, <1>2, KeptTyped, TablesKept DEF tables
<1>4. Sound(r)'
  BY <1>1, <1>2 DEF Sound, Asked, Stored, LooksUp, Answer, tables
<1>. QED  BY <1>3, <1>4 DEF Keeps

\* Any failed call.
LEMMA FailsRefused ==
  ASSUME Inv, NEW r \in Requests, UNCHANGED <<tables, month>>, Fails(r)
  PROVE  Keeps(r)
<1>1. failures' \in 0 .. MaxFailures /\ Reply(r, "error", "none")
  BY FailsKeeps DEF Inv
<1>. QED  BY <1>1, ReplyRefused DEF Answers

\* A step that only gives its request another row.
LEMMA RowKeeps ==
  ASSUME Inv, NEW r \in Requests, UNCHANGED <<tables, month, failures>>,
         NEW row \in RequestRow, request' = [request EXCEPT ![r] = row]
  PROVE  TypeOK' /\ Unique' /\ Grows(r) /\ request'[r] = row
<1>1. TypeOK /\ Unique
  BY DEF Inv
<1>2. request' \in [Requests -> RequestRow] /\ request'[r] = row
      /\ \A q \in Requests \ {r} : request'[q] = request[q]
  BY <1>1 DEF TypeOK
<1>. QED  BY <1>1, <1>2, KeptTyped, TablesKept DEF TypeOK

\* What makes the new row sound.
LEMMA RowSound ==
  ASSUME Inv, NEW r \in Requests, UNCHANGED tables, NEW row \in RequestRow, request'[r] = row,
         r \notin DOMAIN brands \cup DOMAIN campaigns \cup DOMAIN contacts,
         row.answer = "none",
         \/ row.pc \in {"code", "storeBrand"} /\ row.op = "brand" /\ row.letter \in Letters
         \/ row.pc = "logo" /\ row.op = "logo" /\ row.brand \in DOMAIN brands
         \/ row.pc \in {"year", "storeCampaign"} /\ row.op = "campaign" /\ row.brand \in DOMAIN brands
         \/ row.pc = "storeContact" /\ row.op = "contact" /\ row.brand \in DOMAIN brands
  PROVE  Sound(r)'
  BY DEF Sound, Asked, Stored, LooksUp, Answer, tables

\* A request that is about to choose or to store has stored nothing.
LEMMA NothingStored ==
  ASSUME Inv, NEW r \in Requests,
         request[r].pc \in {"idle", "code", "storeBrand", "year", "storeCampaign", "storeContact"}
  PROVE  r \notin DOMAIN brands \cup DOMAIN campaigns \cup DOMAIN contacts
  BY DEF Inv, Sound, Stored

LEMMA AskBrandKeeps ==
  ASSUME Inv, NEW r \in Requests, NEW letter \in Letters, NEW logo \in BOOLEAN,
         AskBrand(r, letter, logo)
  PROVE  Keeps(r)
<1>. DEFINE row == [Idle EXCEPT !.pc = "code", !.op = "brand", !.letter = letter, !.logo = logo]
<1>1. row \in RequestRow
  <2>1. letter \in Nat
    BY BrandsAssumption
  <2>. QED  BY <2>1, IdleTyped DEF RequestRow
<1>2. row.pc = "code" /\ row.op = "brand" /\ row.letter = letter /\ row.answer = "none"
  BY DEF Idle
<1>3. request[r].pc = "idle" /\ request' = [request EXCEPT ![r] = row]
      /\ UNCHANGED <<tables, month, failures>>
  BY DEF AskBrand
<1>. HIDE DEF row
<1>. QED  BY <1>1, <1>2, <1>3, RowKeeps, RowSound, NothingStored DEF Keeps

LEMMA AskLogoKeeps ==
  ASSUME Inv, NEW r \in Requests, NEW b \in DOMAIN brands, AskLogo(r, b)
  PROVE  Keeps(r)
<1>. DEFINE row == [Idle EXCEPT !.pc = "logo", !.op = "logo", !.brand = b]
<1>1. row \in RequestRow
  BY IdleTyped DEF RequestRow, Inv, TypeOK
<1>2. row.pc = "logo" /\ row.op = "logo" /\ row.brand = b /\ row.answer = "none"
  BY DEF Idle
<1>3. request[r].pc = "idle" /\ request' = [request EXCEPT ![r] = row]
      /\ UNCHANGED <<tables, month, failures>>
  BY DEF AskLogo
<1>. HIDE DEF row
<1>. QED  BY <1>1, <1>2, <1>3, RowKeeps, RowSound, NothingStored DEF Keeps

LEMMA CountCampaignsKeeps ==
  ASSUME Inv, NEW r \in Requests, NEW b \in DOMAIN brands, CountCampaigns(r, b),
         IsFiniteSet(DOMAIN campaigns)
  PROVE  Keeps(r)
<1>. DEFINE row == [Idle EXCEPT !.pc = "year", !.op = "campaign", !.brand = b,
                      !.number = Cardinality(OfMonth(b)) + 1, !.counted = month,
                      !.known = DOMAIN campaigns]
<1>1. row \in RequestRow
  <2>1. Cardinality(OfMonth(b)) \in Nat
    BY FS_Subset, FS_CardinalityType DEF OfMonth
  <2>2. month \in Nat /\ DOMAIN campaigns \subseteq Requests
        /\ b \in OldBrands \cup Requests
    BY MonthIsNat DEF Inv, TypeOK
  <2>. DEFINE asked == [Idle EXCEPT !.pc = "year", !.op = "campaign", !.brand = b]
  <2>3. asked \in RequestRow
    BY <2>2, IdleTyped DEF RequestRow
  <2>4. row = [asked EXCEPT !.number = Cardinality(OfMonth(b)) + 1, !.counted = month,
                            !.known = DOMAIN campaigns]
    BY DEF Idle
  <2>. HIDE DEF row, asked
  <2>5. [asked EXCEPT !.number = Cardinality(OfMonth(b)) + 1] \in RequestRow
    BY <2>1, <2>3 DEF RequestRow
  <2>6. [asked EXCEPT !.number = Cardinality(OfMonth(b)) + 1, !.counted = month] \in RequestRow
    BY <2>2, <2>5 DEF RequestRow
  <2>. QED  BY <2>2, <2>4, <2>6 DEF RequestRow
<1>2. row.pc = "year" /\ row.op = "campaign" /\ row.brand = b /\ row.answer = "none"
  BY DEF Idle
<1>3. request[r].pc = "idle" /\ request' = [request EXCEPT ![r] = row]
      /\ UNCHANGED <<tables, month, failures>>
  BY DEF CountCampaigns
<1>. HIDE DEF row
<1>. QED  BY <1>1, <1>2, <1>3, RowKeeps, RowSound, NothingStored DEF Keeps

LEMMA TakeYearKeeps ==
  ASSUME Inv, NEW r \in Requests, TakeYear(r)
  PROVE  Keeps(r)
<1>. DEFINE row == [request[r] EXCEPT !.pc = "storeCampaign", !.year = YearOf(month)]
<1>1. Sound(r) /\ request[r].pc = "year" /\ request[r] \in RequestRow /\ YearOf(month) \in Nat
  BY MonthIsNat, YearIsNat DEF Inv, TakeYear, TypeOK
<1>2. row \in RequestRow /\ row.pc = "storeCampaign" /\ row.op = request[r].op
      /\ row.brand = request[r].brand /\ row.answer = request[r].answer
  BY <1>1 DEF RequestRow
<1>3. request' = [request EXCEPT ![r] = row] /\ UNCHANGED <<tables, month, failures>>
  BY DEF TakeYear, Inv, TypeOK
<1>4. row.op = "campaign" /\ row.brand \in DOMAIN brands /\ row.answer = "none"
  BY <1>1, <1>2 DEF Sound, Asked, Answer
<1>. HIDE DEF row
<1>. QED  BY <1>1, <1>2, <1>3, <1>4, RowKeeps, RowSound, NothingStored DEF Keeps

LEMMA CountContactsKeeps ==
  ASSUME Inv, NEW r \in Requests, NEW b \in DOMAIN brands, CountContacts(r, b)
  PROVE  Keeps(r)
<1>. DEFINE full == [Idle EXCEPT !.pc = "done", !.op = "contact", !.brand = b,
                                 !.answer = "max_contacts_reached"]
            room == [Idle EXCEPT !.pc = "storeContact", !.op = "contact", !.brand = b,
                                 !.known = DOMAIN contacts]
<1>1. full \in RequestRow /\ room \in RequestRow
  <2>1. b \in OldBrands \cup Requests /\ DOMAIN contacts \subseteq Requests
    BY DEF Inv, TypeOK
  <2>2. full \in RequestRow
    BY <2>1, IdleTyped DEF RequestRow, Answers
  <2>3. room \in RequestRow
    BY <2>1, IdleTyped DEF RequestRow
  <2>. QED  BY <2>2, <2>3
<1>2. full.pc = "done" /\ full.op = "contact" /\ full.answer = "max_contacts_reached"
  BY DEF Idle
<1>3. room.pc = "storeContact" /\ room.op = "contact" /\ room.brand = b /\ room.answer = "none"
  BY DEF Idle
<1>4. request[r].pc = "idle" /\ UNCHANGED <<tables, month, failures>>
      /\ (request' = [request EXCEPT ![r] = full] \/ request' = [request EXCEPT ![r] = room])
  BY DEF CountContacts
<1>. HIDE DEF full, room
<1>5. CASE request' = [request EXCEPT ![r] = room]
  BY <1>1, <1>3, <1>4, <1>5, RowKeeps, RowSound, NothingStored DEF Keeps
<1>6. CASE request' = [request EXCEPT ![r] = full]
  <2>1. TypeOK' /\ Unique' /\ Grows(r) /\ request'[r] = full
    BY <1>1, <1>4, <1>6, RowKeeps
  <2>2. r \notin DOMAIN brands \cup DOMAIN campaigns \cup DOMAIN contacts
    BY <1>4, NothingStored
  <2>3. Sound(r)'
    BY <1>2, <1>4, <2>1, <2>2 DEF Sound, Asked, Stored, LooksUp, Answer, tables
  <2>. QED  BY <2>1, <2>3 DEF Keeps
<1>. QED  BY <1>4, <1>5, <1>6

LEMMA TryCodeKeeps ==
  ASSUME Inv, NEW r \in Requests, TryCode(r)
  PROVE  Keeps(r)
<1>. DEFINE found == [request[r] EXCEPT !.pc = "storeBrand", !.known = DOMAIN brands]
            again == [request[r] EXCEPT !.try = @ + 1]
<1>1. /\ TypeOK /\ Sound(r) /\ request[r].pc = "code" /\ request[r] \in RequestRow
      /\ request[r].op = "brand" /\ request[r].letter \in Letters /\ request[r].answer = "none"
  BY DEF Inv, TryCode, TypeOK, Sound, Asked, Answer
<1>2. r \notin DOMAIN brands \cup DOMAIN campaigns \cup DOMAIN contacts
  BY <1>1, NothingStored
<1>3. CASE Unbroken /\ request' = [request EXCEPT ![r] = found]
  <2>1. found \in RequestRow /\ found.pc = "storeBrand" /\ found.op = request[r].op
        /\ found.letter = request[r].letter /\ found.answer = request[r].answer
    BY <1>1 DEF RequestRow, TypeOK
  <2>. HIDE DEF found
  <2>. QED  BY <1>1, <1>2, <1>3, <2>1, RowKeeps, RowSound DEF TryCode, Unbroken, Keeps
<1>4. CASE Unbroken /\ request[r].try + 1 < Tries /\ request' = [request EXCEPT ![r] = again]
  <2>1. again \in RequestRow /\ again.pc = "code" /\ again.op = request[r].op
        /\ again.letter = request[r].letter /\ again.answer = request[r].answer
    BY <1>1, <1>4, BrandsAssumption DEF RequestRow
  <2>. HIDE DEF again
  <2>. QED  BY <1>1, <1>2, <1>4, <2>1, RowKeeps, RowSound DEF TryCode, Unbroken, Keeps
<1>5. CASE Unbroken /\ Reply(r, "exhausted", "none")
  BY <1>1, <1>2, <1>5, ReplyRefused DEF TryCode, Unbroken, TypeOK, Answers
<1>6. CASE Fails(r)
  BY <1>6, FailsRefused DEF TryCode
<1>7. \/ Unbroken /\ request' = [request EXCEPT ![r] = found]
      \/ Unbroken /\ request[r].try + 1 < Tries /\ request' = [request EXCEPT ![r] = again]
      \/ Unbroken /\ Reply(r, "exhausted", "none")
      \/ Fails(r)
  BY <1>1 DEF TryCode, TypeOK
<1>. QED  BY <1>3, <1>4, <1>5, <1>6, <1>7

\* Requests that store or find their row.
LEMMA StoreBrandKeeps ==
  ASSUME Inv, NEW r \in Requests, StoreBrand(r)
  PROVE  Keeps(r)
<1>1. /\ TypeOK /\ Unique /\ Sound(r) /\ request[r].pc = "storeBrand" /\ request[r] \in RequestRow
      /\ request[r].op = "brand" /\ request[r].letter \in Letters /\ request[r].answer = "none"
  BY DEF Inv, StoreBrand, TypeOK, Sound, Asked, Answer
<1>2. r \notin DOMAIN brands \cup DOMAIN campaigns \cup DOMAIN contacts
  BY <1>1, NothingStored
<1>3. UNCHANGED <<logos, campaigns, contacts, month>>
  BY DEF StoreBrand
<1>4. CASE /\ ~CodeTaken(CodeOf(r)) /\ brands' = Row(brands, r, CodeOf(r))
           /\ Goto(r, "readBrand") /\ Unbroken
  <2>1. CodeOf(r) \in Codes
    BY <1>1, CandidateIsCode DEF CodeOf, RequestRow
  <2>2. brands' = [b \in DOMAIN brands \cup {r} |-> IF b = r THEN CodeOf(r) ELSE brands[b]]
    BY <1>4 DEF Row
  <2>3. DOMAIN brands' = DOMAIN brands \cup {r} /\ brands'[r] = CodeOf(r)
        /\ \A b \in DOMAIN brands : brands'[b] = brands[b]
    BY <1>2, <2>2
  <2>4. /\ request' \in [Requests -> RequestRow]
        /\ \A q \in Requests \ {r} : request'[q] = request[q]
        /\ request'[r] = [request[r] EXCEPT !.pc = "readBrand"]
    BY <1>1, <1>4, GotoKeeps
  <2>5. TypeOK'
    <3>1. brands' \in [DOMAIN brands' -> Codes]
      BY <1>1, <2>1, <2>2, <2>3 DEF TypeOK
    <3>2. contacts' \in [DOMAIN contacts' -> DOMAIN brands'] /\ logos' \subseteq DOMAIN brands'
      BY <1>1, <1>3, <2>3 DEF TypeOK
    <3>. QED  BY <1>1, <1>3, <1>4, <2>3, <2>4, <3>1, <3>2 DEF TypeOK, Unbroken
  <2>6. Unique'
    BY <1>1, <1>3, <1>4, <2>3 DEF Unique, CodeTaken
  <2>7. Grows(r)
    BY <1>3, <2>3, <2>4 DEF Grows
  <2>8. /\ request'[r].pc = "readBrand" /\ request'[r].op = "brand" /\ request'[r].answer = "none"
        /\ request'[r].letter = request[r].letter /\ request'[r].try = request[r].try
    BY <1>1, <2>4 DEF RequestRow
  <2>9. CodeOf(r)' = CodeOf(r)
    BY <2>8 DEF CodeOf
  <2>10. Sound(r)'
    BY <1>1, <1>2, <1>3, <2>3, <2>8, <2>9 DEF Sound, Asked, Stored, LooksUp, Answer
  <2>. QED  BY <2>5, <2>6, <2>7, <2>10 DEF Keeps
<1>5. CASE Reply(r, "conflict", "none") /\ UNCHANGED <<brands, failures>>
  BY <1>1, <1>2, <1>3, <1>5, ReplyRefused DEF tables, TypeOK, Answers
<1>6. CASE Fails(r) /\ UNCHANGED brands
  BY <1>3, <1>6, FailsRefused DEF tables
<1>. QED  BY <1>4, <1>5, <1>6 DEF StoreBrand

\* A request that is answered with a row of its own.
LEMMA ReplyServed ==
  ASSUME Inv, NEW r \in Requests, UNCHANGED <<brands, campaigns, contacts, month>>,
         failures' \in 0 .. MaxFailures, logos' \subseteq DOMAIN brands,
         NEW answer \in {"ok", "logo_upload_failed", "error"}, NEW shown \in Shown,
         Reply(r, answer, shown),
         answer = "logo_upload_failed" => request[r].op \in {"brand", "logo"},
         answer \in {"ok", "logo_upload_failed"} =>
           /\ request[r].op = "brand" => r \in DOMAIN brands
           /\ request[r].op = "campaign" => r \in DOMAIN campaigns
           /\ request[r].op = "contact" => r \in DOMAIN contacts,
         answer = "ok" /\ request[r].op \in {"brand", "campaign", "contact"} => shown = r
  PROVE  Keeps(r)
<1>1. TypeOK /\ Unique /\ Sound(r) /\ request[r] \in RequestRow
  BY DEF Inv, TypeOK
<1>2. /\ request' \in [Requests -> RequestRow]
      /\ \A q \in Requests \ {r} : request'[q] = request[q]
      /\ request'[r].pc = "done" /\ request'[r].op = request[r].op
      /\ request'[r].answer = answer /\ request'[r].shown = shown
  BY <1>1, ReplyKeeps DEF Answers
<1>3. TypeOK'
  BY <1>1, <1>2 DEF TypeOK
<1>4. Unique' /\ Grows(r)
  BY <1>1, <1>2 DEF Unique, Grows
<1>5. Sound(r)'
  BY <1>1, <1>2 DEF Sound, Asked, Stored, LooksUp, Answer
<1>. QED  BY <1>3, <1>4, <1>5 DEF Keeps

LEMMA ReadBrandKeeps ==
  ASSUME Inv, NEW r \in Requests, ReadBrand(r)
  PROVE  Keeps(r)
<1>1. /\ TypeOK /\ Unique /\ Sound(r) /\ request[r].pc = "readBrand" /\ request[r] \in RequestRow
      /\ request[r].op = "brand" /\ request[r].answer = "none"
      /\ r \in DOMAIN brands /\ brands[r] = CodeOf(r) /\ UNCHANGED <<tables, month>>
  BY DEF Inv, ReadBrand, TypeOK, Sound, Asked, Answer, LooksUp
<1>2. CASE Fails(r)
  BY <1>1, <1>2, FailsRefused
<1>3. ASSUME NEW b \in DOMAIN brands, brands[b] = CodeOf(r), Unbroken, Reply(r, "ok", b)
      PROVE  Keeps(r)
  <2>1. b = r
    BY <1>1, <1>3 DEF Unique
  <2>. QED  BY <1>1, <1>3, <2>1, ReplyServed DEF Shown, tables, Unbroken, TypeOK
<1>4. ASSUME NEW b \in DOMAIN brands, brands[b] = CodeOf(r), Unbroken,
             request' = [request EXCEPT ![r].pc = "logo", ![r].brand = b]
      PROVE  Keeps(r)
  <2>. DEFINE row == [request[r] EXCEPT !.pc = "logo", !.brand = b]
  <2>1. b = r
    BY <1>1, <1>4 DEF Unique
  <2>2. row \in RequestRow /\ row.pc = "logo" /\ row.op = "brand" /\ row.brand = r
        /\ row.answer = "none"
    BY <1>1, <2>1 DEF RequestRow
  <2>3. request' = [request EXCEPT ![r] = row]
    BY <1>1, <1>4 DEF TypeOK
  <2>. HIDE DEF row
  <2>4. TypeOK' /\ Unique' /\ Grows(r) /\ request'[r] = row
    BY <1>1, <1>4, <2>2, <2>3, RowKeeps DEF Unbroken
  <2>5. Sound(r)'
    BY <1>1, <2>2, <2>4 DEF Sound, Asked, Stored, LooksUp, Answer, tables
  <2>. QED  BY <2>4, <2>5 DEF Keeps
<1>. QED  BY <1>2, <1>3, <1>4 DEF ReadBrand

LEMMA UploadLogoKeeps ==
  ASSUME Inv, NEW r \in Requests, UploadLogo(r)
  PROVE  Keeps(r)
<1>1. /\ TypeOK /\ Sound(r) /\ request[r].pc = "logo" /\ request[r] \in RequestRow
      /\ request[r].op \in {"brand", "logo"} /\ request[r].brand \in DOMAIN brands
      /\ request[r].op = "brand" => request[r].brand = r /\ r \in DOMAIN brands
      /\ UNCHANGED <<brands, campaigns, contacts, month>>
  BY DEF Inv, UploadLogo, TypeOK, Sound, Asked, LooksUp
<1>2. request[r].brand \in Shown
  BY <1>1 DEF TypeOK, Shown
<1>3. CASE logos' = logos \cup {request[r].brand}
  <2>1. logos' \subseteq DOMAIN brands
    BY <1>1, <1>3 DEF TypeOK
  <2>2. CASE Reply(r, "ok", request[r].brand) /\ Unbroken
    BY <1>1, <1>2, <2>1, <2>2, ReplyServed DEF Unbroken, TypeOK
  <2>3. CASE Fails(r)
    BY <1>1, <2>1, <2>3, FailsKeeps, ReplyServed DEF Shown
  <2>4. CASE Reply(r, "logo_upload_failed", request[r].brand) /\ UNCHANGED <<logos, failures>>
    BY <1>1, <1>2, <2>1, <2>4, ReplyServed DEF TypeOK
  <2>. QED  BY <2>2, <2>3, <2>4 DEF UploadLogo
<1>4. CASE Reply(r, "logo_upload_failed", request[r].brand) /\ UNCHANGED <<logos, failures>>
  BY <1>1, <1>2, <1>4, ReplyServed DEF TypeOK
<1>. QED  BY <1>3, <1>4 DEF UploadLogo

\* What storing a campaign adds.
LEMMA StoreCampaignAdds ==
  ASSUME Inv, NEW r \in Requests, request[r].pc = "storeCampaign", ~HumanIdTaken(HumanId(r)),
         campaigns' = Row(campaigns, r, [brand |-> request[r].brand, id |-> HumanId(r),
                                         month |-> month, counted |-> request[r].counted])
  PROVE  /\ r \notin DOMAIN campaigns /\ DOMAIN campaigns' = DOMAIN campaigns \cup {r}
         /\ \A c \in DOMAIN campaigns : campaigns'[c] = campaigns[c]
         /\ campaigns'[r] = [brand |-> request[r].brand, id |-> HumanId(r),
                             month |-> month, counted |-> request[r].counted]
         /\ campaigns'[r] \in CampaignRow
         /\ campaigns' \in [DOMAIN campaigns' -> CampaignRow]
<1>. DEFINE row == [brand |-> request[r].brand, id |-> HumanId(r),
                    month |-> month, counted |-> request[r].counted]
<1>1. TypeOK /\ Sound(r) /\ request[r] \in RequestRow /\ request[r].brand \in DOMAIN brands
  BY DEF Inv, TypeOK, Sound, Asked
<1>2. r \notin DOMAIN campaigns
  BY NothingStored
<1>3. HumanId(r) \in HumanIds
  BY <1>1 DEF HumanId, HumanIds, RequestRow, TypeOK
<1>4. row \in CampaignRow
  BY <1>1, <1>3, MonthIsNat DEF CampaignRow, RequestRow, TypeOK
<1>. HIDE DEF row
<1>5. campaigns' = [c \in DOMAIN campaigns \cup {r} |-> IF c = r THEN row ELSE campaigns[c]]
  BY DEF Row, row
<1>6. campaigns'[r] = row /\ DOMAIN campaigns' = DOMAIN campaigns \cup {r}
      /\ \A c \in DOMAIN campaigns : campaigns'[c] = campaigns[c]
  BY <1>2, <1>5
<1>7. campaigns' \in [DOMAIN campaigns' -> CampaignRow]
  BY <1>1, <1>4, <1>5, <1>6 DEF TypeOK
<1>. QED  BY <1>2, <1>4, <1>6, <1>7 DEF row

LEMMA StoreCampaignKeeps ==
  ASSUME Inv, NEW r \in Requests, StoreCampaign(r)
  PROVE  Keeps(r)
<1>1. /\ TypeOK /\ Unique /\ Sound(r) /\ request[r].pc = "storeCampaign"
      /\ request[r] \in RequestRow /\ request[r].op = "campaign"
      /\ request[r].brand \in DOMAIN brands /\ request[r].answer = "none"
  BY DEF Inv, StoreCampaign, TypeOK, Sound, Asked, Answer
<1>2. r \notin DOMAIN brands \cup DOMAIN campaigns \cup DOMAIN contacts
  BY <1>1, NothingStored
<1>3. UNCHANGED <<brands, logos, contacts, month>>
  BY DEF StoreCampaign
<1>4. CASE /\ ~HumanIdTaken(HumanId(r))
           /\ campaigns' = Row(campaigns, r, [brand |-> request[r].brand, id |-> HumanId(r),
                                              month |-> month, counted |-> request[r].counted])
           /\ Goto(r, "readCampaign") /\ Unbroken
  <2>1. /\ DOMAIN campaigns' = DOMAIN campaigns \cup {r} /\ campaigns'[r].id = HumanId(r)
        /\ \A c \in DOMAIN campaigns : campaigns'[c] = campaigns[c]
        /\ campaigns' \in [DOMAIN campaigns' -> CampaignRow]
    BY <1>1, <1>4, StoreCampaignAdds
  <2>2. /\ request' \in [Requests -> RequestRow]
        /\ \A q \in Requests \ {r} : request'[q] = request[q]
        /\ request'[r] = [request[r] EXCEPT !.pc = "readCampaign"]
    BY <1>1, <1>4, GotoKeeps
  <2>3. TypeOK'
    BY <1>1, <1>3, <1>4, <2>1, <2>2 DEF TypeOK, Unbroken
  <2>4. Unique'
    BY <1>1, <1>3, <1>4, <2>1 DEF Unique, HumanIdTaken
  <2>5. Grows(r)
    BY <1>3, <2>1, <2>2 DEF Grows
  <2>6. /\ request'[r].pc = "readCampaign" /\ request'[r].op = "campaign"
        /\ request'[r].answer = "none" /\ request'[r].brand = request[r].brand
        /\ request'[r].year = request[r].year /\ request'[r].number = request[r].number
    BY <1>1, <2>2 DEF RequestRow
  <2>7. HumanId(r)' = HumanId(r)
    BY <1>3, <2>6 DEF HumanId
  <2>8. Sound(r)'
    BY <1>1, <1>2, <1>3, <2>1, <2>6, <2>7 DEF Sound, Asked, Stored, LooksUp, Answer
  <2>. QED  BY <2>3, <2>4, <2>5, <2>8 DEF Keeps
<1>5. CASE Reply(r, "conflict", "none") /\ UNCHANGED <<campaigns, failures>>
  BY <1>1, <1>2, <1>3, <1>5, ReplyRefused DEF tables, TypeOK, Answers
<1>6. CASE Fails(r) /\ UNCHANGED campaigns
  BY <1>3, <1>6, FailsRefused DEF tables
<1>. QED  BY <1>4, <1>5, <1>6 DEF StoreCampaign

LEMMA ReadCampaignKeeps ==
  ASSUME Inv, NEW r \in Requests, ReadCampaign(r)
  PROVE  Keeps(r)
<1>1. /\ TypeOK /\ Unique /\ Sound(r) /\ request[r].op = "campaign"
      /\ r \in DOMAIN campaigns /\ campaigns[r].id = HumanId(r) /\ UNCHANGED <<tables, month>>
  BY DEF Inv, ReadCampaign, Sound, Asked, LooksUp
<1>2. CASE Fails(r)
  BY <1>1, <1>2, FailsRefused
<1>3. ASSUME NEW c \in DOMAIN campaigns, campaigns[c].id = HumanId(r), Unbroken, Reply(r, "ok", c)
      PROVE  Keeps(r)
  <2>1. c = r
    BY <1>1, <1>3 DEF Unique
  <2>. QED  BY <1>1, <1>3, <2>1, ReplyServed DEF Shown, tables, Unbroken, TypeOK
<1>. QED  BY <1>2, <1>3 DEF ReadCampaign

LEMMA StoreContactKeeps ==
  ASSUME Inv, NEW r \in Requests, StoreContact(r)
  PROVE  Keeps(r)
<1>1. /\ TypeOK /\ Unique /\ Sound(r) /\ request[r].pc = "storeContact"
      /\ request[r] \in RequestRow /\ request[r].op = "contact"
      /\ request[r].brand \in DOMAIN brands /\ request[r].answer = "none"
  BY DEF Inv, StoreContact, TypeOK, Sound, Asked, Answer
<1>2. r \notin DOMAIN brands \cup DOMAIN campaigns \cup DOMAIN contacts
  BY <1>1, NothingStored
<1>3. UNCHANGED <<brands, logos, campaigns, month>>
  BY DEF StoreContact
<1>4. CASE /\ contacts' = Row(contacts, r, request[r].brand)
           /\ Goto(r, "readContact") /\ Unbroken
  <2>1. contacts' = [c \in DOMAIN contacts \cup {r} |-> IF c = r THEN request[r].brand ELSE contacts[c]]
    BY <1>4 DEF Row
  <2>2. DOMAIN contacts' = DOMAIN contacts \cup {r}
        /\ contacts' \in [DOMAIN contacts' -> DOMAIN brands']
    BY <1>1, <1>3, <2>1 DEF TypeOK
  <2>3. /\ request' \in [Requests -> RequestRow]
        /\ \A q \in Requests \ {r} : request'[q] = request[q]
        /\ request'[r] = [request[r] EXCEPT !.pc = "readContact"]
    BY <1>1, <1>4, GotoKeeps
  <2>4. TypeOK' /\ Unique'
    BY <1>1, <1>3, <1>4, <2>2, <2>3 DEF TypeOK, Unique, Unbroken
  <2>5. Grows(r)
    BY <1>3, <2>2, <2>3 DEF Grows
  <2>6. /\ request'[r].pc = "readContact" /\ request'[r].op = "contact"
        /\ request'[r].answer = "none" /\ request'[r].brand = request[r].brand
    BY <1>1, <2>3 DEF RequestRow
  <2>7. Sound(r)'
    BY <1>1, <1>2, <1>3, <2>2, <2>6 DEF Sound, Asked, Stored, LooksUp, Answer
  <2>. QED  BY <2>4, <2>5, <2>7 DEF Keeps
<1>5. CASE Reply(r, "conflict", "none") /\ UNCHANGED <<contacts, failures>>
  BY <1>1, <1>2, <1>3, <1>5, ReplyRefused DEF tables, TypeOK, Answers
<1>6. CASE Fails(r) /\ UNCHANGED contacts
  BY <1>3, <1>6, FailsRefused DEF tables
<1>. QED  BY <1>4, <1>5, <1>6 DEF StoreContact

LEMMA ReadContactKeeps ==
  ASSUME Inv, NEW r \in Requests, ReadContact(r)
  PROVE  Keeps(r)
<1>1. /\ TypeOK /\ Sound(r) /\ request[r].op = "contact" /\ r \in DOMAIN contacts
      /\ UNCHANGED <<tables, month>>
  BY DEF Inv, ReadContact, Sound, Asked, LooksUp
<1>2. CASE Fails(r)
  BY <1>1, <1>2, FailsRefused
<1>3. CASE Reply(r, "ok", r) /\ Unbroken
  BY <1>1, <1>3, ReplyServed DEF Shown, tables, Unbroken, TypeOK
<1>. QED  BY <1>2, <1>3 DEF ReadContact

\* The steps of Next.
LEMMA NextCases ==
  ASSUME [Next]_vars
  PROVE  \/ UNCHANGED vars \/ MonthEnds
         \/ \E r \in Requests :
              \/ Step(r)
              \/ \E letter \in Letters, logo \in BOOLEAN : AskBrand(r, letter, logo)
              \/ \E b \in DOMAIN brands : AskOf(r, b)
  BY DEF Next

LEMMA StepKeeps ==
  ASSUME Inv, IsFiniteSet(DOMAIN campaigns), NEW r \in Requests,
         \/ Step(r)
         \/ \E letter \in Letters, logo \in BOOLEAN : AskBrand(r, letter, logo)
         \/ \E b \in DOMAIN brands : AskOf(r, b)
  PROVE  Keeps(r)
<1>1. CASE Step(r)
  BY <1>1, TryCodeKeeps, StoreBrandKeeps, ReadBrandKeeps, UploadLogoKeeps, TakeYearKeeps,
     StoreCampaignKeeps, ReadCampaignKeeps, StoreContactKeeps, ReadContactKeeps DEF Step
<1>2. CASE \E letter \in Letters, logo \in BOOLEAN : AskBrand(r, letter, logo)
  BY <1>2, AskBrandKeeps
<1>3. CASE \E b \in DOMAIN brands : AskOf(r, b)
  BY <1>3, AskLogoKeeps, CountCampaignsKeeps, CountContactsKeeps DEF AskOf
<1>. QED  BY <1>1, <1>2, <1>3

LEMMA InvStep == Inv /\ IsFiniteSet(DOMAIN campaigns) /\ [Next]_vars => Inv'
<1>. SUFFICES ASSUME Inv, IsFiniteSet(DOMAIN campaigns), [Next]_vars PROVE Inv'
  OBVIOUS
<1>1. CASE UNCHANGED vars
  BY <1>1 DEF vars, tables, Inv, TypeOK, Unique, Sound, Asked, Stored, LooksUp, Answer, CodeOf, HumanId
<1>2. CASE MonthEnds
  <2>1. TypeOK'
    BY <1>2, BrandsAssumption DEF MonthEnds, Inv, TypeOK, tables
  <2>2. Unique' /\ \A r \in Requests : Sound(r)'
    BY <1>2 DEF MonthEnds, tables, Inv, Unique, Sound, Asked, Stored, LooksUp, Answer, CodeOf, HumanId
  <2>. QED  BY <2>1, <2>2 DEF Inv
<1>3. ASSUME NEW r \in Requests,
             \/ Step(r)
             \/ \E letter \in Letters, logo \in BOOLEAN : AskBrand(r, letter, logo)
             \/ \E b \in DOMAIN brands : AskOf(r, b)
      PROVE  Inv'
  <2>1. Keeps(r)
    BY <1>3, StepKeeps
  <2>2. ASSUME NEW q \in Requests PROVE Sound(q)'
    BY <2>1, OthersSound DEF Keeps, Inv
  <2>. QED  BY <2>1, <2>2 DEF Keeps, Inv
<1>. QED  BY <1>1, <1>2, <1>3, NextCases

-----------------------------------------------------------------------------
(* The numbers of campaigns *)

NoStraddle(b) == \A c \in CampaignsOf(b) : ~Straddles(campaigns[c])

Numbered(b, y) ==
  {campaigns[c].id.number : c \in OfYear(b, y)} = 1 .. Cardinality(OfYear(b, y))

\* A human id carries the code of the campaign's brand.
Named ==
  \A c \in DOMAIN campaigns :
    campaigns[c].brand \in DOMAIN brands /\ campaigns[c].id.code = brands[campaigns[c].brand]

\* What a request has counted, and for which brand and month.
Holds(r, b, m, n) ==
  /\ request[r].pc \in {"year", "storeCampaign"}
  /\ request[r].brand = b /\ request[r].counted = m /\ request[r].number = n

\* It found at most the campaigns that the year has now.
CountedOf(r) ==
  \A b \in OldBrands \cup Requests, m \in Nat, n \in Nat :
    Holds(r, b, m, n) /\ NoStraddle(b) => n \in 1 .. Cardinality(OfYear(b, YearOf(m))) + 1

NumberInv ==
  /\ IsFiniteSet(DOMAIN campaigns)
  /\ Named
  /\ \A r \in Requests : CountedOf(r)
  /\ \A b \in DOMAIN brands, y \in Nat : NoStraddle(b) => Numbered(b, y)

LEMMA NumberInit == Init => NumberInv
<1>. SUFFICES ASSUME Init PROVE NumberInv
  OBVIOUS
<1>1. DOMAIN campaigns = {} /\ \A r \in Requests : request[r].pc = "idle"
  BY DEF Init, Idle
<1>2. IsFiniteSet(DOMAIN campaigns)
  BY <1>1, FS_EmptySet
<1>3. ASSUME NEW b, NEW y PROVE Numbered(b, y)
  <2>1. OfYear(b, y) = {}
    BY <1>1 DEF OfYear, CampaignsOf
  <2>. QED  BY <2>1, FS_EmptySet DEF Numbered
<1>. QED  BY <1>1, <1>2, <1>3 DEF NumberInv, Named, CountedOf, Holds

LEMMA YearsFinite ==
  ASSUME IsFiniteSet(DOMAIN campaigns), NEW b, NEW y
  PROVE  IsFiniteSet(OfYear(b, y)) /\ Cardinality(OfYear(b, y)) \in Nat
<1>1. OfYear(b, y) \subseteq DOMAIN campaigns
  BY DEF OfYear, CampaignsOf
<1>2. IsFiniteSet(OfYear(b, y))
  BY <1>1, FS_Subset
<1>. QED  BY <1>2, FS_CardinalityType

\* As long as campaigns are only added, a year has no fewer of them, and what
\* straddled still does.
LEMMA YearsGrow ==
  ASSUME IsFiniteSet(DOMAIN campaigns'), DOMAIN campaigns \subseteq DOMAIN campaigns',
         \A c \in DOMAIN campaigns : campaigns'[c] = campaigns[c],
         NEW b, NEW y
  PROVE  /\ NoStraddle(b)' => NoStraddle(b)
         /\ Cardinality(OfYear(b, y)) \in Nat /\ Cardinality(OfYear(b, y)') \in Nat
         /\ Cardinality(OfYear(b, y)) <= Cardinality(OfYear(b, y)')
<1>1. OfYear(b, y) \subseteq OfYear(b, y)'
  BY DEF OfYear, CampaignsOf
<1>2. OfYear(b, y)' \subseteq DOMAIN campaigns'
  BY DEF OfYear, CampaignsOf
<1>3. IsFiniteSet(OfYear(b, y)')
  BY <1>2, FS_Subset
<1>4. IsFiniteSet(OfYear(b, y)) /\ Cardinality(OfYear(b, y)) <= Cardinality(OfYear(b, y)')
  BY <1>1, <1>3, FS_Subset
<1>5. NoStraddle(b)' => NoStraddle(b)
  BY DEF NoStraddle, CampaignsOf, Straddles
<1>. QED  BY <1>3, <1>4, <1>5, FS_CardinalityType

\* A request that had counted before keeps its bound.
LEMMA CountedKept ==
  ASSUME NumberInv, NEW r \in Requests, IsFiniteSet(DOMAIN campaigns'),
         DOMAIN campaigns \subseteq DOMAIN campaigns',
         \A c \in DOMAIN campaigns : campaigns'[c] = campaigns[c],
         \A b \in OldBrands \cup Requests, m \in Nat, n \in Nat :
           Holds(r, b, m, n)' => Holds(r, b, m, n)
  PROVE  CountedOf(r)'
<1>. SUFFICES ASSUME NEW b \in OldBrands \cup Requests, NEW m \in Nat, NEW n \in Nat,
                     Holds(r, b, m, n)', NoStraddle(b)'
              PROVE  n \in 1 .. Cardinality(OfYear(b, YearOf(m))') + 1
  BY DEF CountedOf, YearOf
<1>1. /\ NoStraddle(b)
      /\ Cardinality(OfYear(b, YearOf(m))) \in Nat /\ Cardinality(OfYear(b, YearOf(m))') \in Nat
      /\ Cardinality(OfYear(b, YearOf(m))) <= Cardinality(OfYear(b, YearOf(m))')
  BY YearsGrow
<1>2. n \in 1 .. Cardinality(OfYear(b, YearOf(m))) + 1
  BY <1>1 DEF NumberInv, CountedOf
<1>. QED  BY <1>1, <1>2

\* What is counted is a part of the year, if nothing straddles.
LEMMA CountBounded ==
  ASSUME Inv, NumberInv, NEW r \in Requests, NEW b \in DOMAIN brands, CountCampaigns(r, b)
  PROVE  CountedOf(r)'
<1>. SUFFICES ASSUME NEW d \in OldBrands \cup Requests, NEW m \in Nat, NEW n \in Nat,
                     Holds(r, d, m, n)', NoStraddle(d)'
              PROVE  n \in 1 .. Cardinality(OfYear(d, YearOf(m))') + 1
  BY DEF CountedOf, YearOf
<1>1. d = b /\ m = month /\ n = Cardinality(OfMonth(b)) + 1 /\ UNCHANGED campaigns
  <2>1. request'[r] = [Idle EXCEPT !.pc = "year", !.op = "campaign", !.brand = b,
                         !.number = Cardinality(OfMonth(b)) + 1, !.counted = month,
                         !.known = DOMAIN campaigns]
    BY DEF CountCampaigns, Inv, TypeOK
  <2>. QED  BY <2>1 DEF CountCampaigns, Holds, Idle, tables
<1>2. NoStraddle(b) /\ OfYear(d, YearOf(m))' = OfYear(b, YearOf(m))
  BY <1>1 DEF NoStraddle, CampaignsOf, Straddles, OfYear, YearOf
<1>3. OfMonth(b) \subseteq OfYear(b, YearOf(m))
  BY <1>1, <1>2 DEF OfMonth, OfYear, NoStraddle, CampaignsOf, Straddles
<1>4. IsFiniteSet(OfYear(b, YearOf(m))) /\ Cardinality(OfYear(b, YearOf(m))) \in Nat
  BY YearsFinite DEF NumberInv
<1>5. Cardinality(OfMonth(b)) \in Nat
      /\ Cardinality(OfMonth(b)) <= Cardinality(OfYear(b, YearOf(m)))
  BY <1>3, <1>4, FS_Subset, FS_CardinalityType
<1>. QED  BY <1>1, <1>2, <1>4, <1>5

\* Only counting gives a request a number.
LEMMA HoldsKept ==
  ASSUME Inv, NEW r \in Requests,
         \/ Step(r)
         \/ \E letter \in Letters, logo \in BOOLEAN : AskBrand(r, letter, logo)
         \/ \E b \in DOMAIN brands : AskLogo(r, b) \/ CountContacts(r, b),
         NEW b, NEW m, NEW n, Holds(r, b, m, n)'
  PROVE  Holds(r, b, m, n)
<1>1. r \in DOMAIN request /\ request \in [Requests -> RequestRow] /\ request[r] \in RequestRow
  BY DEF Inv, TypeOK
<1>2. request'[r].pc \in {"year", "storeCampaign"}
  BY DEF Holds
<1>3. CASE TakeYear(r)
  <2>1. request'[r] = [request[r] EXCEPT !.pc = "storeCampaign", !.year = YearOf(month)]
    BY <1>1, <1>3 DEF TakeYear
  <2>2. request'[r].brand = request[r].brand /\ request'[r].counted = request[r].counted
        /\ request'[r].number = request[r].number
    BY <1>1, <2>1 DEF RequestRow
  <2>. QED  BY <1>3, <2>2 DEF TakeYear, Holds
<1>4. ASSUME NEW answer, NEW shown, Reply(r, answer, shown)
      PROVE  FALSE
  BY <1>1, <1>2, <1>4 DEF Reply, RequestRow
<1>5. ASSUME NEW pc \in {"storeBrand", "readBrand", "readCampaign", "readContact"}, Goto(r, pc)
      PROVE  FALSE
  BY <1>1, <1>2, <1>5 DEF Goto, RequestRow
<1>6. ~Fails(r)
  BY <1>4 DEF Fails
<1>7. CASE TryCode(r)
  <2>1. CASE request' = [request EXCEPT ![r].pc = "storeBrand", ![r].known = DOMAIN brands]
    BY <1>1, <1>2, <2>1 DEF RequestRow
  <2>2. CASE request' = [request EXCEPT ![r].try = @ + 1]
    BY <1>1, <1>2, <1>7, <2>2 DEF TryCode, RequestRow
  <2>. QED  BY <1>4, <1>6, <1>7, <2>1, <2>2 DEF TryCode
<1>8. CASE StoreBrand(r) \/ StoreCampaign(r) \/ StoreContact(r)
  BY <1>4, <1>5, <1>6, <1>8 DEF StoreBrand, StoreCampaign, StoreContact
<1>9. CASE ReadBrand(r)
  <2>1. ASSUME NEW d, request' = [request EXCEPT ![r].pc = "logo", ![r].brand = d]
        PROVE  FALSE
    BY <1>1, <1>2, <2>1 DEF RequestRow
  <2>. QED  BY <1>4, <1>6, <1>9, <2>1 DEF ReadBrand
<1>10. CASE UploadLogo(r) \/ ReadCampaign(r) \/ ReadContact(r)
  BY <1>4, <1>6, <1>10 DEF UploadLogo, ReadCampaign, ReadContact
<1>11. CASE \/ \E letter \in Letters, logo \in BOOLEAN : AskBrand(r, letter, logo)
            \/ \E d \in DOMAIN brands : AskLogo(r, d) \/ CountContacts(r, d)
  <2>1. ASSUME NEW letter, NEW logo, AskBrand(r, letter, logo) PROVE FALSE
    <3>1. request'[r].pc = "code"
      BY <1>1, <2>1 DEF AskBrand, Idle
    <3>. QED  BY <1>2, <3>1
  <2>2. ASSUME NEW d, AskLogo(r, d) PROVE FALSE
    BY <1>1, <1>2, <2>2 DEF AskLogo, Idle
  <2>3. ASSUME NEW d, CountContacts(r, d) PROVE FALSE
    <3>. DEFINE full == [Idle EXCEPT !.pc = "done", !.op = "contact", !.brand = d,
                                     !.answer = "max_contacts_reached"]
                room == [Idle EXCEPT !.pc = "storeContact", !.op = "contact", !.brand = d,
                                     !.known = DOMAIN contacts]
    <3>1. full.pc = "done" /\ room.pc = "storeContact"
      BY DEF Idle
    <3>2. request' = [request EXCEPT ![r] = full] \/ request' = [request EXCEPT ![r] = room]
      BY <2>3 DEF CountContacts
    <3>. HIDE DEF full, room
    <3>. QED  BY <1>1, <1>2, <3>1, <3>2
  <2>. QED  BY <1>11, <2>1, <2>2, <2>3
<1>. QED  BY <1>3, <1>7, <1>8, <1>9, <1>10, <1>11 DEF Step

\* Without a new campaign the numbers stay; a new brand has no campaign yet.
LEMMA NumbersKept ==
  ASSUME Inv, NumberInv, UNCHANGED campaigns,
         DOMAIN brands \subseteq DOMAIN brands',
         \A b \in DOMAIN brands : brands'[b] = brands[b]
  PROVE  /\ Named'
         /\ \A b \in DOMAIN brands', y \in Nat : NoStraddle(b)' => Numbered(b, y)'
<1>1. Named'
  BY DEF NumberInv, Named
<1>2. ASSUME NEW b \in DOMAIN brands', NEW y \in Nat, NoStraddle(b)'
      PROVE  Numbered(b, y)'
  <2>1. NoStraddle(b)
    BY <1>2 DEF NoStraddle, CampaignsOf, Straddles
  <2>2. Numbered(b, y)
    <3>1. CASE b \in DOMAIN brands
      BY <2>1, <3>1 DEF NumberInv
    <3>2. CASE b \notin DOMAIN brands
      <4>1. OfYear(b, y) = {}
        BY <3>2 DEF NumberInv, Named, OfYear, CampaignsOf
      <4>. QED  BY <4>1, FS_EmptySet DEF Numbered
    <3>. QED  BY <3>1, <3>2
  <2>. QED  BY <2>2 DEF Numbered, OfYear, CampaignsOf
<1>. QED  BY <1>1, <1>2

\* The number of a campaign that is stored, if nothing straddles, is the next:
\* the smaller ones are taken.
LEMMA NextNumber ==
  ASSUME Inv, NumberInv, NEW r \in Requests, NEW b, NEW y \in Nat, NEW m \in Nat, NEW n \in Nat,
         request[r].pc = "storeCampaign", Holds(r, b, m, n), request[r].year = y,
         YearOf(m) = y, NoStraddle(b), ~HumanIdTaken(HumanId(r))
  PROVE  n = Cardinality(OfYear(b, y)) + 1
<1>1. b \in DOMAIN brands /\ b \in OldBrands \cup Requests
  BY DEF Inv, TypeOK, Sound, Asked, Holds
<1>2. n \in 1 .. Cardinality(OfYear(b, y)) + 1
  BY <1>1 DEF NumberInv, CountedOf
<1>3. Numbered(b, y) /\ Cardinality(OfYear(b, y)) \in Nat
  BY <1>1, YearsFinite DEF NumberInv
<1>4. ASSUME n \in 1 .. Cardinality(OfYear(b, y)) PROVE FALSE
  <2>1. PICK c \in OfYear(b, y) : campaigns[c].id.number = n
    BY <1>3, <1>4 DEF Numbered
  <2>2. c \in DOMAIN campaigns /\ campaigns[c].brand = b /\ campaigns[c].id.year = y
        /\ campaigns[c].id.code = brands[b]
    BY <2>1 DEF OfYear, CampaignsOf, NumberInv, Named
  <2>3. campaigns[c].id \in HumanIds
    BY <2>2 DEF Inv, TypeOK, CampaignRow
  <2>4. campaigns[c].id = [code |-> brands[b], year |-> y, number |-> n]
    BY <2>1, <2>2, <2>3 DEF HumanIds
  <2>5. campaigns[c].id = HumanId(r)
    BY <2>4 DEF HumanId, Holds
  <2>. QED  BY <2>2, <2>5 DEF HumanIdTaken
<1>. QED  BY <1>2, <1>3, <1>4

\* The campaign that is stored continues its year, and touches no other.
LEMMA NumbersExtended ==
  ASSUME Inv, NumberInv, NEW r \in Requests, request[r].pc = "storeCampaign", UNCHANGED brands,
         ~HumanIdTaken(HumanId(r)),
         campaigns' = Row(campaigns, r, [brand |-> request[r].brand, id |-> HumanId(r),
                                         month |-> month, counted |-> request[r].counted])
  PROVE  /\ IsFiniteSet(DOMAIN campaigns') /\ Named'
         /\ \A b \in DOMAIN brands', y \in Nat : NoStraddle(b)' => Numbered(b, y)'
<1>1. /\ r \notin DOMAIN campaigns /\ DOMAIN campaigns' = DOMAIN campaigns \cup {r}
      /\ \A c \in DOMAIN campaigns : campaigns'[c] = campaigns[c]
      /\ campaigns'[r] = [brand |-> request[r].brand, id |-> HumanId(r),
                          month |-> month, counted |-> request[r].counted]
  BY StoreCampaignAdds
<1>2. /\ request[r].brand \in DOMAIN brands /\ request[r].counted \in Nat
      /\ request[r].number \in Nat /\ request[r].year \in Nat
  BY DEF Inv, TypeOK, RequestRow, Sound, Asked
<1>3. IsFiniteSet(DOMAIN campaigns')
  BY <1>1, FS_AddElement DEF NumberInv
<1>4. Named'
  BY <1>1, <1>2 DEF NumberInv, Named, HumanId
<1>5. ASSUME NEW b \in DOMAIN brands', NEW y \in Nat, NoStraddle(b)'
      PROVE  Numbered(b, y)'
  <2>1. NoStraddle(b) /\ b \in DOMAIN brands
    BY <1>1, <1>3, <1>5, YearsGrow
  <2>2. Numbered(b, y) /\ IsFiniteSet(OfYear(b, y)) /\ Cardinality(OfYear(b, y)) \in Nat
    BY <2>1, YearsFinite DEF NumberInv
  <2>3. CASE request[r].brand # b \/ request[r].year # y
    <3>1. OfYear(b, y)' = OfYear(b, y)
      BY <1>1, <2>3 DEF OfYear, CampaignsOf, HumanId
    <3>2. \A c \in OfYear(b, y) : campaigns'[c] = campaigns[c]
      BY <1>1 DEF OfYear, CampaignsOf
    <3>. QED  BY <2>2, <3>1, <3>2 DEF Numbered
  <2>4. CASE request[r].brand = b /\ request[r].year = y
    <3>. DEFINE n == request[r].number
                m == request[r].counted
    <3>1. YearOf(m) = y
      BY <1>1, <1>5, <2>4 DEF NoStraddle, CampaignsOf, Straddles, HumanId
    <3>2. Holds(r, b, m, n)
      BY <2>4 DEF Holds
    <3>3. n = Cardinality(OfYear(b, y)) + 1
      BY <1>2, <2>1, <2>4, <3>1, <3>2, NextNumber
    <3>4. OfYear(b, y)' = OfYear(b, y) \cup {r} /\ r \notin OfYear(b, y)
      BY <1>1, <2>4 DEF OfYear, CampaignsOf, HumanId
    <3>5. Cardinality(OfYear(b, y)') = Cardinality(OfYear(b, y)) + 1
      BY <2>2, <3>4, FS_AddElement
    <3>6. \A c \in OfYear(b, y) : campaigns'[c].id.number = campaigns[c].id.number
      BY <1>1 DEF OfYear, CampaignsOf
    <3>7. campaigns'[r].id.number = n
      BY <1>1 DEF HumanId
    <3>8. {campaigns'[c].id.number : c \in OfYear(b, y)'} =
            {campaigns[c].id.number : c \in OfYear(b, y)} \cup {n}
      BY <3>4, <3>6, <3>7
    <3>9. {campaigns'[c].id.number : c \in OfYear(b, y)'} =
            1 .. Cardinality(OfYear(b, y)) \cup {Cardinality(OfYear(b, y)) + 1}
      BY <2>2, <3>3, <3>8 DEF Numbered
    <3>10. 1 .. Cardinality(OfYear(b, y)) \cup {Cardinality(OfYear(b, y)) + 1} =
             1 .. Cardinality(OfYear(b, y)) + 1
      BY <2>2
    <3>. QED  BY <3>5, <3>9, <3>10 DEF Numbered
  <2>. QED  BY <2>3, <2>4
<1>. QED  BY <1>3, <1>4, <1>5

LEMMA NumberStep == Inv /\ NumberInv /\ [Next]_vars => NumberInv'
<1>. SUFFICES ASSUME Inv, NumberInv, [Next]_vars PROVE NumberInv'
  OBVIOUS
<1>. USE DEF NumberInv
<1>1. CASE UNCHANGED vars \/ MonthEnds
  <2>1. UNCHANGED <<brands, campaigns, request>>
    BY <1>1 DEF vars, tables, MonthEnds
  <2>2. ASSUME NEW q \in Requests PROVE CountedOf(q)'
    BY <2>1, CountedKept DEF Holds
  <2>. QED  BY <2>1, <2>2, NumbersKept
<1>2. ASSUME NEW r \in Requests,
             \/ Step(r)
             \/ \E letter \in Letters, logo \in BOOLEAN : AskBrand(r, letter, logo)
             \/ \E b \in DOMAIN brands : AskOf(r, b)
      PROVE  NumberInv'
  <2>1. Keeps(r)
    BY <1>2, StepKeeps
  <2>2. Grows(r)
    BY <2>1 DEF Keeps
  <2>3. /\ IsFiniteSet(DOMAIN campaigns') /\ Named'
        /\ \A b \in DOMAIN brands', y \in Nat : NoStraddle(b)' => Numbered(b, y)'
    <3>1. CASE UNCHANGED campaigns
      BY <2>2, <3>1, NumbersKept DEF Grows
    <3>2. CASE StoreCampaign(r) /\ ~UNCHANGED campaigns
      <4>1. /\ request[r].pc = "storeCampaign" /\ ~HumanIdTaken(HumanId(r)) /\ UNCHANGED brands
            /\ campaigns' = Row(campaigns, r, [brand |-> request[r].brand, id |-> HumanId(r),
                                               month |-> month, counted |-> request[r].counted])
        BY <3>2 DEF StoreCampaign
      <4>. QED  BY <4>1, NumbersExtended
    <3>3. CASE ~StoreCampaign(r)
      <4>1. UNCHANGED campaigns
        BY <1>2, <3>3 DEF Step, AskOf, TryCode, StoreBrand, ReadBrand, UploadLogo, TakeYear,
           ReadCampaign, StoreContact, ReadContact, AskBrand, AskLogo, CountCampaigns,
           CountContacts, tables
      <4>. QED  BY <3>1, <4>1
    <3>. QED  BY <3>1, <3>2, <3>3
  <2>4. ASSUME NEW q \in Requests PROVE CountedOf(q)'
    <3>1. CASE \E b \in DOMAIN brands : q = r /\ CountCampaigns(r, b)
      BY <3>1, CountBounded
    <3>2. CASE ~\E b \in DOMAIN brands : q = r /\ CountCampaigns(r, b)
      <4>1. ASSUME NEW b, NEW m, NEW n, Holds(q, b, m, n)' PROVE Holds(q, b, m, n)
        <5>1. CASE q # r
          BY <2>2, <4>1, <5>1 DEF Holds, Grows
        <5>2. CASE q = r
          BY <1>2, <3>2, <4>1, <5>2, HoldsKept DEF AskOf
        <5>. QED  BY <5>1, <5>2
      <4>. QED  BY <2>2, <2>3, <4>1, CountedKept DEF Grows
    <3>. QED  BY <3>1, <3>2
  <2>. QED  BY <2>3, <2>4
<1>. QED  BY <1>1, <1>2, NextCases

-----------------------------------------------------------------------------
(* Why a request is refused *)

StoredIn(b, m) == {c \in DOMAIN campaigns : campaigns[c].brand = b /\ campaigns[c].month = m}
ContactsOf(b) == {c \in DOMAIN contacts : contacts[c] = b}

\* What a request has found.  While it is about to store a campaign, those of
\* its brand that it knew and that were numbered and stored in the month of its
\* count have smaller numbers.
Found(r) ==
  /\ request[r].pc = "code" =>
       \A try \in 0 .. request[r].try - 1 : CodeTaken(Candidate(request[r].letter, try))
  /\ request[r].pc = "storeBrand" =>
       \A b \in request[r].known : b \in DOMAIN brands /\ brands[b] # CodeOf(r)
  /\ request[r].pc \in {"year", "storeCampaign"} =>
       \A c \in request[r].known :
         /\ c \in DOMAIN campaigns
         /\ /\ campaigns[c].brand = request[r].brand
            /\ campaigns[c].month = request[r].counted
            /\ campaigns[c].counted = request[r].counted
            => campaigns[c].id.number < request[r].number
  /\ request[r].op = "campaign" => request[r].brand \in DOMAIN brands

\* The count of a month bounds the numbers it gives: those still held, and those
\* of the campaigns it stores.
HeldInMonth(r) ==
  request[r].pc \in {"year", "storeCampaign"} =>
    request[r].number <= Cardinality(StoredIn(request[r].brand, request[r].counted)) + 1
NumberInMonth(c) ==
  campaigns[c].month = campaigns[c].counted =>
    campaigns[c].id.number <= Cardinality(StoredIn(campaigns[c].brand, campaigns[c].month))

CauseInv ==
  /\ IsFiniteSet(DOMAIN contacts)
  /\ \A r \in Requests : Found(r) /\ HeldInMonth(r) /\ HasCause(r)
  /\ \A c \in DOMAIN campaigns : NumberInMonth(c)

LEMMA CauseInit == Init => CauseInv
<1>. SUFFICES ASSUME Init PROVE CauseInv
  OBVIOUS
<1>1. DOMAIN campaigns = {} /\ DOMAIN contacts = {}
  BY DEF Init
<1>2. IsFiniteSet(DOMAIN contacts)
  BY <1>1, FS_EmptySet
<1>3. ASSUME NEW r \in Requests PROVE Found(r) /\ HeldInMonth(r) /\ HasCause(r)
  <2>1. request[r] = Idle
    BY DEF Init
  <2>. QED  BY <2>1 DEF Found, HeldInMonth, HasCause, Answered, Idle
<1>. QED  BY <1>1, <1>2, <1>3 DEF CauseInv

\* No step takes a row away or changes what makes its id.
TablesGrow ==
  /\ IsFiniteSet(DOMAIN campaigns') /\ IsFiniteSet(DOMAIN contacts')
  /\ DOMAIN brands \subseteq DOMAIN brands' /\ \A b \in DOMAIN brands : brands'[b] = brands[b]
  /\ DOMAIN campaigns \subseteq DOMAIN campaigns'
  /\ \A c \in DOMAIN campaigns : campaigns'[c] = campaigns[c]
  /\ DOMAIN contacts \subseteq DOMAIN contacts'
  /\ \A c \in DOMAIN contacts : contacts'[c] = contacts[c]

LEMMA SetsGrow ==
  ASSUME TablesGrow, NEW b, NEW m
  PROVE  /\ Cardinality(StoredIn(b, m)) \in Nat /\ Cardinality(StoredIn(b, m)') \in Nat
         /\ Cardinality(StoredIn(b, m)) <= Cardinality(StoredIn(b, m)')
         /\ Cardinality(ContactsOf(b)) \in Nat /\ Cardinality(ContactsOf(b)') \in Nat
         /\ Cardinality(ContactsOf(b)) <= Cardinality(ContactsOf(b)')
<1>1. /\ StoredIn(b, m) \subseteq StoredIn(b, m)' /\ StoredIn(b, m)' \subseteq DOMAIN campaigns'
      /\ ContactsOf(b) \subseteq ContactsOf(b)' /\ ContactsOf(b)' \subseteq DOMAIN contacts'
  BY DEF TablesGrow, StoredIn, ContactsOf
<1>2. IsFiniteSet(StoredIn(b, m)') /\ IsFiniteSet(ContactsOf(b)')
  BY <1>1, FS_Subset DEF TablesGrow
<1>3. /\ IsFiniteSet(StoredIn(b, m)) /\ IsFiniteSet(ContactsOf(b))
      /\ Cardinality(StoredIn(b, m)) <= Cardinality(StoredIn(b, m)')
      /\ Cardinality(ContactsOf(b)) <= Cardinality(ContactsOf(b)')
  BY <1>1, <1>2, FS_Subset
<1>. QED  BY <1>2, <1>3, FS_CardinalityType

LEMMA TakenStays ==
  ASSUME TablesGrow, NEW code, CodeTaken(code)
  PROVE  CodeTaken(code)'
  BY DEF TablesGrow, CodeTaken

\* The cause of a refusal stays: nothing that was stored is taken back.
LEMMA CauseStays ==
  ASSUME TablesGrow, NEW r \in Requests, request'[r] = request[r], Found(r), HasCause(r)
  PROVE  HasCause(r)'
<1>1. \A op, answer : Answered(r, op, answer)' <=> Answered(r, op, answer)
  BY DEF Answered
<1>2. CodeOf(r)' = CodeOf(r)
  BY DEF CodeOf
<1>3. Answered(r, "brand", "conflict") =>
        \E b \in DOMAIN brands' \ request'[r].known : brands'[b] = CodeOf(r)'
  BY <1>2 DEF HasCause, TablesGrow
<1>4. Answered(r, "brand", "exhausted") =>
        \A try \in 0 .. Tries - 1 : CodeTaken(Candidate(request[r].letter, try))'
  BY TakenStays DEF HasCause
<1>5. Answered(r, "campaign", "conflict") =>
        \E c \in DOMAIN campaigns' :
          /\ SameId(c, r)'
          /\ \/ c \notin request'[r].known
             \/ campaigns'[c].month # request'[r].counted
             \/ campaigns'[c].counted # request'[r].counted
  <2>. SUFFICES ASSUME Answered(r, "campaign", "conflict")
                PROVE  \E c \in DOMAIN campaigns' :
                         /\ SameId(c, r)'
                         /\ \/ c \notin request'[r].known
                            \/ campaigns'[c].month # request'[r].counted
                            \/ campaigns'[c].counted # request'[r].counted
    OBVIOUS
  <2>1. HumanId(r)' = HumanId(r)
    BY DEF HumanId, Found, TablesGrow, Answered
  <2>. QED  BY <2>1 DEF HasCause, TablesGrow, SameId
<1>6. Answered(r, "contact", "conflict") => ContactTaken'
  BY DEF HasCause, ContactTaken, TablesGrow
<1>7. Answered(r, "contact", "max_contacts_reached") =>
        Cardinality(ContactsOf(request[r].brand)') >= MaxContacts
  <2>1. PICK b : b = request[r].brand
    OBVIOUS
  <2>2. /\ Cardinality(ContactsOf(b)) \in Nat /\ Cardinality(ContactsOf(b)') \in Nat
        /\ Cardinality(ContactsOf(b)) <= Cardinality(ContactsOf(b)')
    BY SetsGrow
  <2>3. MaxContacts \in Nat
    BY BrandsAssumption
  <2>4. Answered(r, "contact", "max_contacts_reached") =>
          Cardinality(ContactsOf(b)) >= MaxContacts
    BY <2>1 DEF HasCause, ContactsOf
  <2>5. Answered(r, "contact", "max_contacts_reached") =>
          Cardinality(ContactsOf(b)') >= MaxContacts
    BY <2>2, <2>3, <2>4
  <2>. QED  BY <2>1, <2>5 DEF ContactsOf
<1>. QED  BY <1>1, <1>3, <1>4, <1>5, <1>6, <1>7 DEF HasCause, ContactsOf

LEMMA HeldStays ==
  ASSUME TypeOK, TablesGrow, NEW r \in Requests, HeldInMonth(r),
         request'[r].pc \in {"year", "storeCampaign"} =>
           /\ request[r].pc \in {"year", "storeCampaign"}
           /\ request'[r].brand = request[r].brand /\ request'[r].counted = request[r].counted
           /\ request'[r].number = request[r].number
  PROVE  HeldInMonth(r)'
<1>1. request[r].number \in Nat
  BY DEF TypeOK, RequestRow
<1>2. PICK b, m : b = request[r].brand /\ m = request[r].counted
  OBVIOUS
<1>3. /\ Cardinality(StoredIn(b, m)) \in Nat /\ Cardinality(StoredIn(b, m)') \in Nat
      /\ Cardinality(StoredIn(b, m)) <= Cardinality(StoredIn(b, m)')
  BY SetsGrow
<1>. SUFFICES ASSUME request'[r].pc \in {"year", "storeCampaign"}
              PROVE  request'[r].number <=
                       Cardinality(StoredIn(request[r].brand, request[r].counted)') + 1
  BY DEF HeldInMonth
<1>4. request[r].number <= Cardinality(StoredIn(b, m)) + 1
  BY <1>2 DEF HeldInMonth
<1>5. request'[r].number <= Cardinality(StoredIn(b, m)') + 1
  BY <1>1, <1>3, <1>4
<1>. QED  BY <1>2, <1>5 DEF StoredIn

LEMMA FoundStays ==
  ASSUME TablesGrow, NEW r \in Requests, request'[r] = request[r], Found(r)
  PROVE  Found(r)'
<1>1. CodeOf(r)' = CodeOf(r)
  BY DEF CodeOf
<1>2. request[r].pc = "code" =>
        \A try \in 0 .. request[r].try - 1 : CodeTaken(Candidate(request[r].letter, try))'
  BY TakenStays DEF Found
<1>. QED  BY <1>1, <1>2 DEF Found, TablesGrow

\* What is shown of the request that takes a step.
Explained(r) == Found(r) /\ HeldInMonth(r) /\ HasCause(r)

Refusals == {"conflict", "exhausted", "max_contacts_reached"}

\* A request that is neither choosing nor refused.
LEMMA PlainExplained ==
  ASSUME NEW r \in Requests,
         request'[r].pc \notin {"code", "storeBrand", "year", "storeCampaign"},
         request'[r].op = "campaign" => request'[r].brand \in DOMAIN brands'
  PROVE  /\ Found(r)' /\ HeldInMonth(r)'
         /\ request'[r].answer \notin Refusals => HasCause(r)'
<1>1. Found(r)' /\ HeldInMonth(r)'
  BY DEF Found, HeldInMonth
<1>2. request'[r].answer \notin Refusals => HasCause(r)'
  BY DEF HasCause, Answered, Refusals
<1>. QED  BY <1>1, <1>2

LEMMA ReplyExplained ==
  ASSUME TypeOK, TablesGrow, NEW r \in Requests, Found(r), NEW answer, NEW shown,
         Reply(r, answer, shown)
  PROVE  /\ Found(r)' /\ HeldInMonth(r)' /\ request'[r].answer = answer
         /\ answer \notin Refusals => HasCause(r)'
<1>1. request[r] \in RequestRow /\ r \in DOMAIN request
  BY DEF TypeOK
<1>2. request'[r] = [request[r] EXCEPT !.pc = "done", !.answer = answer, !.shown = shown]
  BY <1>1 DEF Reply
<1>3. request'[r].pc = "done" /\ request'[r].op = request[r].op /\ request'[r].answer = answer
      /\ request'[r].brand = request[r].brand
  BY <1>1, <1>2 DEF RequestRow
<1>. QED  BY <1>3, PlainExplained DEF Found, TablesGrow

LEMMA GotoExplained ==
  ASSUME Inv, TablesGrow, NEW r \in Requests, Found(r), request[r].pc # "done",
         NEW pc \in {"readBrand", "readCampaign", "readContact"}, Goto(r, pc)
  PROVE  Explained(r)'
<1>1. request[r] \in RequestRow /\ r \in DOMAIN request
  BY DEF Inv, TypeOK
<1>2. request'[r].pc = pc /\ request'[r].op = request[r].op
      /\ request'[r].answer = request[r].answer /\ request'[r].brand = request[r].brand
  BY <1>1 DEF Goto, RequestRow
<1>3. request[r].answer = "none"
  BY DEF Inv, Sound, Answer
<1>. QED  BY <1>2, <1>3, PlainExplained DEF Found, TablesGrow, Refusals, Explained

LEMMA FailsExplained ==
  ASSUME TypeOK, TablesGrow, NEW r \in Requests, Found(r), Fails(r)
  PROVE  Explained(r)'
  BY ReplyExplained DEF Fails, Refusals, Explained

\* A code is tried when all before it were taken.
LEMMA TryCodeExplained ==
  ASSUME Inv, TablesGrow, NEW r \in Requests, Explained(r), TryCode(r)
  PROVE  Explained(r)'
<1>1. request[r] \in RequestRow /\ r \in DOMAIN request /\ request[r].pc = "code" /\ TypeOK
  BY DEF Inv, TypeOK, TryCode
<1>2. /\ request[r].answer = "none" /\ request[r].op = "brand" /\ request[r].try \in Nat
      /\ \A try \in 0 .. request[r].try - 1 : CodeTaken(Candidate(request[r].letter, try))
  BY <1>1, BrandsAssumption DEF Inv, Sound, Answer, Asked, RequestRow, Explained, Found
<1>3. \A code : CodeTaken(code)' <=> CodeTaken(code)
  BY DEF TryCode, tables, CodeTaken
<1>4. CASE /\ ~CodeTaken(CodeOf(r))
           /\ request' = [request EXCEPT ![r].pc = "storeBrand", ![r].known = DOMAIN brands]
  <2>1. request'[r] = [request[r] EXCEPT !.pc = "storeBrand", !.known = DOMAIN brands]
    BY <1>1, <1>4
  <2>2. /\ request'[r].pc = "storeBrand" /\ request'[r].known = DOMAIN brands
        /\ request'[r].op = "brand" /\ request'[r].answer = "none"
        /\ request'[r].letter = request[r].letter /\ request'[r].try = request[r].try
    BY <1>1, <1>2, <2>1 DEF RequestRow
  <2>3. CodeOf(r)' = CodeOf(r) /\ brands' = brands
    BY <2>2 DEF CodeOf, TryCode, tables
  <2>4. \A b \in DOMAIN brands : brands[b] # CodeOf(r)
    BY <1>4 DEF CodeTaken
  <2>5. Found(r)'
    BY <2>2, <2>3, <2>4 DEF Found
  <2>6. HeldInMonth(r)' /\ HasCause(r)'
    BY <2>2 DEF HeldInMonth, HasCause, Answered
  <2>. QED  BY <2>5, <2>6 DEF Explained
<1>5. CASE CodeTaken(CodeOf(r)) /\ request' = [request EXCEPT ![r].try = @ + 1]
  <2>1. request'[r] = [request[r] EXCEPT !.try = request[r].try + 1]
    BY <1>1, <1>5
  <2>2. /\ request'[r].pc = "code" /\ request'[r].try = request[r].try + 1
        /\ request'[r].op = "brand" /\ request'[r].answer = "none"
        /\ request'[r].letter = request[r].letter
    BY <1>1, <1>2, <2>1 DEF RequestRow
  <2>3. \A try \in 0 .. request'[r].try - 1 : CodeTaken(Candidate(request[r].letter, try))
    BY <1>2, <1>5, <2>2 DEF CodeOf
  <2>4. Found(r)'
    BY <1>3, <2>2, <2>3 DEF Found
  <2>5. HeldInMonth(r)' /\ HasCause(r)'
    BY <2>2 DEF HeldInMonth, HasCause, Answered
  <2>. QED  BY <2>4, <2>5 DEF Explained
<1>6. CASE /\ CodeTaken(CodeOf(r)) /\ request[r].try + 1 = Tries
           /\ Reply(r, "exhausted", "none")
  <2>1. \A try \in 0 .. Tries - 1 : CodeTaken(Candidate(request[r].letter, try))
    BY <1>2, <1>6 DEF CodeOf
  <2>2. request'[r] = [request[r] EXCEPT !.pc = "done", !.answer = "exhausted", !.shown = "none"]
    BY <1>1, <1>6 DEF Reply
  <2>3. request'[r].op = "brand" /\ request'[r].answer = "exhausted"
        /\ request'[r].letter = request[r].letter
    BY <1>1, <1>2, <2>2 DEF RequestRow
  <2>4. HasCause(r)'
    BY <1>3, <2>1, <2>3 DEF HasCause, Answered
  <2>5. Found(r)' /\ HeldInMonth(r)'
    BY <1>1, <1>6, ReplyExplained DEF Explained
  <2>. QED  BY <2>4, <2>5 DEF Explained
<1>7. CASE Fails(r)
  BY <1>1, <1>7, FailsExplained DEF Explained
<1>. QED  BY <1>4, <1>5, <1>6, <1>7 DEF TryCode

\* The code was free when the request looked, so that the row that has it now
\* came later.
LEMMA StoreBrandExplained ==
  ASSUME Inv, TablesGrow, NEW r \in Requests, Explained(r), StoreBrand(r)
  PROVE  Explained(r)'
<1>1. /\ request[r] \in RequestRow /\ r \in DOMAIN request /\ request[r].pc = "storeBrand"
      /\ TypeOK /\ request[r].op = "brand" /\ Found(r)
  BY DEF Inv, TypeOK, StoreBrand, Sound, Asked, Explained
<1>2. CASE Goto(r, "readBrand")
  BY <1>1, <1>2, GotoExplained
<1>3. CASE CodeTaken(CodeOf(r)) /\ Reply(r, "conflict", "none") /\ UNCHANGED brands
  <2>1. request'[r] = [request[r] EXCEPT !.pc = "done", !.answer = "conflict", !.shown = "none"]
    BY <1>1, <1>3 DEF Reply
  <2>2. /\ request'[r].op = "brand" /\ request'[r].answer = "conflict"
        /\ request'[r].letter = request[r].letter /\ request'[r].try = request[r].try
        /\ request'[r].known = request[r].known
    BY <1>1, <2>1 DEF RequestRow
  <2>3. CodeOf(r)' = CodeOf(r)
    BY <2>2 DEF CodeOf
  <2>4. \E b \in DOMAIN brands \ request[r].known : brands[b] = CodeOf(r)
    BY <1>1, <1>3 DEF CodeTaken, Found
  <2>5. HasCause(r)'
    BY <1>3, <2>2, <2>3, <2>4 DEF HasCause, Answered
  <2>6. Found(r)' /\ HeldInMonth(r)'
    BY <1>1, <1>3, ReplyExplained
  <2>. QED  BY <2>5, <2>6 DEF Explained
<1>4. CASE Fails(r)
  BY <1>1, <1>4, FailsExplained
<1>. QED  BY <1>2, <1>3, <1>4 DEF StoreBrand

\* The number is larger than those of the brand that were given and stored in
\* the month of the count.
LEMMA CountCampaignsExplained ==
  ASSUME Inv, NumberInv, CauseInv, TablesGrow, NEW r \in Requests, NEW b \in DOMAIN brands,
         CountCampaigns(r, b)
  PROVE  Explained(r)'
<1>1. r \in DOMAIN request /\ UNCHANGED <<brands, campaigns>>
  BY DEF Inv, TypeOK, CountCampaigns, tables
<1>2. request'[r] = [Idle EXCEPT !.pc = "year", !.op = "campaign", !.brand = b,
                       !.number = Cardinality(OfMonth(b)) + 1, !.counted = month,
                       !.known = DOMAIN campaigns]
  BY <1>1 DEF CountCampaigns
<1>3. /\ request'[r].pc = "year" /\ request'[r].op = "campaign" /\ request'[r].brand = b
      /\ request'[r].number = Cardinality(OfMonth(b)) + 1 /\ request'[r].counted = month
      /\ request'[r].known = DOMAIN campaigns /\ request'[r].answer = "none"
  BY <1>2 DEF Idle
<1>4. OfMonth(b) = StoredIn(b, month) /\ Cardinality(StoredIn(b, month)) \in Nat
  <2>1. PICK m : m = month
    OBVIOUS
  <2>2. Cardinality(StoredIn(b, m)) \in Nat
    BY SetsGrow
  <2>. QED  BY <2>1, <2>2 DEF OfMonth, StoredIn
<1>5. ASSUME NEW c \in DOMAIN campaigns, campaigns[c].brand = b, campaigns[c].month = month,
             campaigns[c].counted = month
      PROVE  campaigns[c].id.number < Cardinality(StoredIn(b, month)) + 1
  <2>1. campaigns[c].id.number <= Cardinality(StoredIn(b, month))
    BY <1>5 DEF CauseInv, NumberInMonth
  <2>2. campaigns[c].id.number \in Nat
    BY DEF Inv, TypeOK, CampaignRow, HumanIds
  <2>. QED  BY <1>4, <2>1, <2>2
<1>6. Found(r)'
  BY <1>1, <1>3, <1>4, <1>5 DEF Found
<1>7. HeldInMonth(r)'
  <2>1. request'[r].number <= Cardinality(StoredIn(b, month)) + 1
    BY <1>3, <1>4
  <2>. QED  BY <1>1, <1>3, <2>1 DEF HeldInMonth, StoredIn
<1>8. HasCause(r)'
  BY <1>3 DEF HasCause, Answered
<1>. QED  BY <1>6, <1>7, <1>8 DEF Explained

LEMMA TakeYearExplained ==
  ASSUME Inv, TablesGrow, NEW r \in Requests, Explained(r), TakeYear(r)
  PROVE  Explained(r)'
<1>1. /\ request[r] \in RequestRow /\ r \in DOMAIN request /\ request[r].pc = "year"
      /\ request[r].answer = "none" /\ UNCHANGED <<brands, campaigns>> /\ TypeOK
  BY DEF Inv, TypeOK, TakeYear, Sound, Answer, tables
<1>2. request'[r] = [request[r] EXCEPT !.pc = "storeCampaign", !.year = YearOf(month)]
  BY <1>1 DEF TakeYear
<1>3. /\ request'[r].pc = "storeCampaign" /\ request'[r].op = request[r].op
      /\ request'[r].brand = request[r].brand /\ request'[r].number = request[r].number
      /\ request'[r].counted = request[r].counted /\ request'[r].known = request[r].known
      /\ request'[r].answer = "none"
  BY <1>1, <1>2 DEF RequestRow
<1>4. Found(r)'
  BY <1>1, <1>3 DEF Explained, Found
<1>5. HeldInMonth(r)'
  BY <1>1, <1>3, HeldStays DEF Explained
<1>6. HasCause(r)'
  BY <1>3 DEF HasCause, Answered
<1>. QED  BY <1>4, <1>5, <1>6 DEF Explained

\* The campaign that has the id is of the same brand, because codes are unique;
\* if the request knew it, it belongs to another month.
LEMMA StoreCampaignExplained ==
  ASSUME Inv, NumberInv, TablesGrow, NEW r \in Requests, Explained(r), StoreCampaign(r)
  PROVE  Explained(r)'
<1>1. /\ request[r] \in RequestRow /\ r \in DOMAIN request /\ request[r].pc = "storeCampaign"
      /\ TypeOK /\ request[r].op = "campaign" /\ request[r].brand \in DOMAIN brands /\ Found(r)
  BY DEF Inv, TypeOK, StoreCampaign, Sound, Asked, Explained
<1>2. CASE Goto(r, "readCampaign")
  BY <1>1, <1>2, GotoExplained
<1>3. CASE HumanIdTaken(HumanId(r)) /\ Reply(r, "conflict", "none") /\ UNCHANGED campaigns
  <2>1. request'[r] = [request[r] EXCEPT !.pc = "done", !.answer = "conflict", !.shown = "none"]
    BY <1>1, <1>3 DEF Reply
  <2>2. /\ request'[r].op = "campaign" /\ request'[r].answer = "conflict"
        /\ request'[r].brand = request[r].brand /\ request'[r].year = request[r].year
        /\ request'[r].number = request[r].number /\ request'[r].counted = request[r].counted
        /\ request'[r].known = request[r].known
    BY <1>1, <2>1 DEF RequestRow
  <2>3. HumanId(r)' = HumanId(r)
    BY <2>2 DEF HumanId, StoreCampaign
  <2>4. PICK c \in DOMAIN campaigns : campaigns[c].id = HumanId(r)
    BY <1>3 DEF HumanIdTaken
  <2>5. campaigns[c].id.code = brands[request[r].brand]
        /\ campaigns[c].id.number = request[r].number
    BY <2>4 DEF HumanId
  <2>6. campaigns[c].brand = request[r].brand
    BY <1>1, <2>5 DEF NumberInv, Named, Inv, Unique
  <2>7. ~(campaigns[c].id.number < request[r].number)
    BY <1>1, <2>5 DEF RequestRow
  <2>8. \/ c \notin request[r].known
        \/ campaigns[c].month # request[r].counted
        \/ campaigns[c].counted # request[r].counted
    BY <1>1, <2>6, <2>7 DEF Found
  <2>9. HasCause(r)'
    BY <1>3, <2>2, <2>3, <2>4, <2>8 DEF HasCause, Answered, SameId
  <2>10. Found(r)' /\ HeldInMonth(r)'
    BY <1>1, <1>3, ReplyExplained
  <2>. QED  BY <2>9, <2>10 DEF Explained
<1>4. CASE Fails(r)
  BY <1>1, <1>4, FailsExplained
<1>. QED  BY <1>2, <1>3, <1>4 DEF StoreCampaign

LEMMA ContactsExplained ==
  ASSUME Inv, TablesGrow, NEW r \in Requests, Explained(r),
         StoreContact(r) \/ \E b \in DOMAIN brands : CountContacts(r, b)
  PROVE  Explained(r)'
<1>1. request[r] \in RequestRow /\ r \in DOMAIN request /\ TypeOK /\ Found(r)
  BY DEF Inv, TypeOK, Explained
<1>2. CASE StoreContact(r)
  <2>1. request[r].pc = "storeContact" /\ request[r].op = "contact"
    BY <1>2 DEF StoreContact, Inv, Sound, Asked
  <2>2. CASE Goto(r, "readContact")
    BY <1>1, <2>1, <2>2, GotoExplained
  <2>3. CASE ContactTaken /\ Reply(r, "conflict", "none") /\ UNCHANGED contacts
    <3>1. request'[r] = [request[r] EXCEPT !.pc = "done", !.answer = "conflict", !.shown = "none"]
      BY <1>1, <2>3 DEF Reply
    <3>2. request'[r].op = "contact" /\ request'[r].answer = "conflict"
      BY <1>1, <2>1, <3>1 DEF RequestRow
    <3>3. HasCause(r)'
      BY <2>3, <3>2 DEF HasCause, Answered, ContactTaken
    <3>4. Found(r)' /\ HeldInMonth(r)'
      BY <1>1, <2>3, ReplyExplained
    <3>. QED  BY <3>3, <3>4 DEF Explained
  <2>4. CASE Fails(r)
    BY <1>1, <2>4, FailsExplained
  <2>. QED  BY <1>2, <2>2, <2>3, <2>4 DEF StoreContact
<1>3. CASE \E b \in DOMAIN brands : CountContacts(r, b)
  <2>1. PICK b \in DOMAIN brands : CountContacts(r, b)
    BY <1>3
  <2>. DEFINE full == [Idle EXCEPT !.pc = "done", !.op = "contact", !.brand = b,
                                   !.answer = "max_contacts_reached"]
              room == [Idle EXCEPT !.pc = "storeContact", !.op = "contact", !.brand = b,
                                   !.known = DOMAIN contacts]
  <2>2. full.pc = "done" /\ full.op = "contact" /\ full.brand = b
        /\ full.answer = "max_contacts_reached"
    BY DEF Idle
  <2>3. room.pc = "storeContact" /\ room.op = "contact" /\ room.answer = "none"
    BY DEF Idle
  <2>4. UNCHANGED contacts
        /\ \/ Cardinality(ContactsOf(b)) >= MaxContacts /\ request' = [request EXCEPT ![r] = full]
           \/ request' = [request EXCEPT ![r] = room]
    BY <2>1 DEF CountContacts, tables, ContactsOf
  <2>. HIDE DEF full, room
  <2>5. CASE request' = [request EXCEPT ![r] = room]
    BY <1>1, <2>3, <2>5, PlainExplained DEF Explained, Refusals
  <2>6. CASE Cardinality(ContactsOf(b)) >= MaxContacts /\ request' = [request EXCEPT ![r] = full]
    <3>1. request'[r] = full
      BY <1>1, <2>6
    <3>2. Cardinality(ContactsOf(b)') >= MaxContacts
      BY <2>4, <2>6 DEF ContactsOf
    <3>3. HasCause(r)'
      BY <2>2, <3>1, <3>2 DEF HasCause, Answered, ContactsOf
    <3>4. Found(r)' /\ HeldInMonth(r)'
      BY <2>2, <3>1, PlainExplained
    <3>. QED  BY <3>3, <3>4 DEF Explained
  <2>. QED  BY <2>4, <2>5, <2>6
<1>. QED  BY <1>2, <1>3

\* The look-ups, the upload and the other beginnings refuse nobody.
LEMMA OthersExplained ==
  ASSUME Inv, TablesGrow, NEW r \in Requests, Explained(r),
         \/ ReadBrand(r) \/ UploadLogo(r) \/ ReadCampaign(r) \/ ReadContact(r)
         \/ \E letter \in Letters, logo \in BOOLEAN : AskBrand(r, letter, logo)
         \/ \E b \in DOMAIN brands : AskLogo(r, b)
  PROVE  Explained(r)'
<1>1. request[r] \in RequestRow /\ r \in DOMAIN request /\ TypeOK /\ Found(r)
  BY DEF Inv, TypeOK, Explained
<1>2. ASSUME NEW answer \in {"ok", "logo_upload_failed"}, NEW shown, Reply(r, answer, shown)
      PROVE  Explained(r)'
  BY <1>1, <1>2, ReplyExplained DEF Refusals, Explained
<1>3. Fails(r) => Explained(r)'
  BY <1>1, FailsExplained
<1>4. CASE ReadBrand(r)
  <2>1. request[r].pc = "readBrand" /\ request[r].op = "brand" /\ request[r].answer = "none"
    BY <1>4 DEF ReadBrand, Inv, Sound, Asked, Answer
  <2>2. ASSUME NEW b, request' = [request EXCEPT ![r].pc = "logo", ![r].brand = b]
        PROVE  Explained(r)'
    <3>1. request'[r].pc = "logo" /\ request'[r].op = "brand" /\ request'[r].answer = "none"
      BY <1>1, <2>1, <2>2 DEF RequestRow
    <3>. QED  BY <3>1, PlainExplained DEF Explained, Refusals
  <2>. QED  BY <1>2, <1>3, <1>4, <2>2 DEF ReadBrand
<1>5. CASE UploadLogo(r) \/ ReadCampaign(r) \/ ReadContact(r)
  BY <1>2, <1>3, <1>5 DEF UploadLogo, ReadCampaign, ReadContact
<1>6. ASSUME NEW letter, NEW logo, AskBrand(r, letter, logo) PROVE Explained(r)'
  <2>1. request'[r].pc = "code" /\ request'[r].try = 0 /\ request'[r].op = "brand"
        /\ request'[r].answer = "none"
    BY <1>1, <1>6 DEF AskBrand, Idle
  <2>. QED  BY <2>1 DEF Explained, Found, HeldInMonth, HasCause, Answered
<1>7. ASSUME NEW b, AskLogo(r, b) PROVE Explained(r)'
  <2>1. request'[r].pc = "logo" /\ request'[r].op = "logo" /\ request'[r].answer = "none"
    BY <1>1, <1>7 DEF AskLogo, Idle
  <2>. QED  BY <2>1, PlainExplained DEF Explained, Refusals
<1>. QED  BY <1>4, <1>5, <1>6, <1>7

\* A stored campaign is itself one of its month.
LEMMA MonthsKept ==
  ASSUME Inv, CauseInv, TablesGrow, NEW r \in Requests,
         UNCHANGED campaigns \/ StoreCampaign(r)
  PROVE  \A c \in DOMAIN campaigns' : NumberInMonth(c)'
<1>1. ASSUME NEW c \in DOMAIN campaigns PROVE NumberInMonth(c)'
  <2>1. NumberInMonth(c) /\ campaigns'[c] = campaigns[c] /\ campaigns[c].id.number \in Nat
    BY DEF CauseInv, TablesGrow, Inv, TypeOK, CampaignRow, HumanIds
  <2>2. PICK b, m : b = campaigns[c].brand /\ m = campaigns[c].month
    OBVIOUS
  <2>3. /\ Cardinality(StoredIn(b, m)) \in Nat /\ Cardinality(StoredIn(b, m)') \in Nat
        /\ Cardinality(StoredIn(b, m)) <= Cardinality(StoredIn(b, m)')
    BY SetsGrow
  <2>4. campaigns[c].month = campaigns[c].counted =>
          campaigns[c].id.number <= Cardinality(StoredIn(b, m)')
    BY <2>1, <2>2, <2>3 DEF NumberInMonth
  <2>. QED  BY <2>1, <2>2, <2>4 DEF NumberInMonth, StoredIn
<1>2. CASE UNCHANGED campaigns
  BY <1>1, <1>2
<1>3. CASE /\ request[r].pc = "storeCampaign" /\ ~HumanIdTaken(HumanId(r))
           /\ campaigns' = Row(campaigns, r, [brand |-> request[r].brand, id |-> HumanId(r),
                                              month |-> month, counted |-> request[r].counted])
  <2>1. /\ r \notin DOMAIN campaigns /\ DOMAIN campaigns' = DOMAIN campaigns \cup {r}
        /\ \A c \in DOMAIN campaigns : campaigns'[c] = campaigns[c]
        /\ campaigns'[r] = [brand |-> request[r].brand, id |-> HumanId(r),
                            month |-> month, counted |-> request[r].counted]
    BY <1>3, StoreCampaignAdds
  <2>2. ASSUME month = request[r].counted
        PROVE  request[r].number <=
                 Cardinality({c \in DOMAIN campaigns' : campaigns'[c].brand = request[r].brand
                                                        /\ campaigns'[c].month = month})
    <3>. DEFINE old == StoredIn(request[r].brand, month)
    <3>1. {c \in DOMAIN campaigns' : campaigns'[c].brand = request[r].brand
                                     /\ campaigns'[c].month = month} = old \cup {r}
          /\ r \notin old
      BY <2>1 DEF StoredIn
    <3>2. IsFiniteSet(old) /\ Cardinality(old) \in Nat
      BY <2>1, FS_Subset, FS_CardinalityType DEF StoredIn, TablesGrow
    <3>3. Cardinality(old \cup {r}) = Cardinality(old) + 1
      BY <3>1, <3>2, FS_AddElement
    <3>4. request[r].number <= Cardinality(old) + 1
      BY <1>3, <2>2 DEF CauseInv, HeldInMonth
    <3>. HIDE DEF old
    <3>5. Cardinality({c \in DOMAIN campaigns' : campaigns'[c].brand = request[r].brand
                                     /\ campaigns'[c].month = month}) = Cardinality(old) + 1
      BY <3>1, <3>3
    <3>. QED  BY <3>4, <3>5
  <2>3. NumberInMonth(r)'
    <3>1. /\ campaigns'[r].brand = request[r].brand /\ campaigns'[r].month = month
          /\ campaigns'[r].counted = request[r].counted
          /\ campaigns'[r].id.number = request[r].number
      BY <2>1 DEF HumanId
    <3>. QED  BY <2>2, <3>1 DEF NumberInMonth, StoredIn
  <2>. QED  BY <1>1, <2>1, <2>3
<1>. QED  BY <1>2, <1>3 DEF StoreCampaign

\* Every step of a request only adds rows, and finitely many.
LEMMA StepGrows ==
  ASSUME Inv, NumberInv, CauseInv, NEW r \in Requests,
         \/ Step(r)
         \/ \E letter \in Letters, logo \in BOOLEAN : AskBrand(r, letter, logo)
         \/ \E b \in DOMAIN brands : AskOf(r, b)
  PROVE  TablesGrow /\ \A q \in Requests \ {r} : request'[q] = request[q]
<1>1. Grows(r)
  BY StepKeeps DEF Keeps, NumberInv
<1>2. IsFiniteSet(DOMAIN campaigns \cup {r}) /\ IsFiniteSet(DOMAIN contacts \cup {r})
  BY FS_AddElement DEF NumberInv, CauseInv
<1>3. IsFiniteSet(DOMAIN campaigns') /\ IsFiniteSet(DOMAIN contacts')
  BY <1>1, <1>2, FS_Subset DEF Grows
<1>4. \A c \in DOMAIN contacts : contacts'[c] = contacts[c]
  <2>1. CASE UNCHANGED contacts
    BY <2>1
  <2>2. CASE /\ request[r].pc = "storeContact"
             /\ contacts' = Row(contacts, r, request[r].brand)
    <3>1. r \notin DOMAIN contacts
      BY <2>2, NothingStored
    <3>. QED  BY <2>2, <3>1 DEF Row
  <2>3. UNCHANGED contacts \/ StoreContact(r)
    BY DEF Step, AskOf, TryCode, StoreBrand, ReadBrand, UploadLogo, TakeYear,
       StoreCampaign, ReadCampaign, ReadContact, AskBrand, AskLogo, CountCampaigns,
       CountContacts, tables
  <2>. QED  BY <2>1, <2>2, <2>3 DEF StoreContact
<1>5. TablesGrow
  BY <1>1, <1>3, <1>4 DEF Grows, TablesGrow
<1>6. \A q \in Requests \ {r} : request'[q] = request[q]
  BY <1>1 DEF Grows
<1>. QED  BY <1>5, <1>6

LEMMA CauseStep == Inv /\ NumberInv /\ CauseInv /\ [Next]_vars => CauseInv'
<1>. SUFFICES ASSUME Inv, NumberInv, CauseInv, [Next]_vars PROVE CauseInv'
  OBVIOUS
<1>1. \A r \in Requests : Explained(r)
  BY DEF CauseInv, Explained
<1>2. ASSUME NEW r \in Requests, TablesGrow, request'[r] = request[r] PROVE Explained(r)'
  BY <1>1, <1>2, FoundStays, HeldStays, CauseStays DEF Explained, Inv
<1>3. CASE UNCHANGED vars \/ MonthEnds
  <2>1. UNCHANGED <<brands, campaigns, contacts, request>>
    BY <1>3 DEF vars, tables, MonthEnds
  <2>2. TablesGrow
    BY <2>1 DEF TablesGrow, NumberInv, CauseInv
  <2>3. \A c \in DOMAIN campaigns' : NumberInMonth(c)'
    BY <2>1 DEF CauseInv, NumberInMonth, StoredIn
  <2>. QED  BY <1>2, <2>1, <2>2, <2>3 DEF CauseInv, Explained, TablesGrow
<1>4. ASSUME NEW r \in Requests,
             \/ Step(r)
             \/ \E letter \in Letters, logo \in BOOLEAN : AskBrand(r, letter, logo)
             \/ \E b \in DOMAIN brands : AskOf(r, b)
      PROVE  CauseInv'
  <2>1. TablesGrow /\ \A q \in Requests \ {r} : request'[q] = request[q]
    BY <1>4, StepGrows
  <2>2. Explained(r)'
    BY <1>1, <1>4, <2>1, TryCodeExplained, StoreBrandExplained, CountCampaignsExplained,
       TakeYearExplained, StoreCampaignExplained, ContactsExplained, OthersExplained
       DEF Step, AskOf
  <2>3. UNCHANGED campaigns \/ StoreCampaign(r)
    BY <1>4 DEF Step, AskOf, TryCode, StoreBrand, ReadBrand, UploadLogo, TakeYear,
       ReadCampaign, StoreContact, ReadContact, AskBrand, AskLogo, CountCampaigns,
       CountContacts, tables
  <2>4. \A c \in DOMAIN campaigns' : NumberInMonth(c)'
    BY <2>1, <2>3, MonthsKept
  <2>5. \A q \in Requests : Explained(q)'
    BY <1>2, <2>1, <2>2
  <2>. QED  BY <2>1, <2>4, <2>5 DEF CauseInv, Explained, TablesGrow
<1>. QED  BY <1>3, <1>4, NextCases

-----------------------------------------------------------------------------
LEMMA InvAlways == Spec => [](Inv /\ NumberInv)
<1>1. Init => Inv /\ NumberInv
  BY InvInit, NumberInit
<1>2. Inv /\ NumberInv /\ [Next]_vars => (Inv /\ NumberInv)'
  BY InvStep, NumberStep DEF NumberInv
<1>. QED  BY <1>1, <1>2, PTL DEF Spec

\* The tables and the requests keep their types (Brands), whatever fails and
\* however the requests overlap.
THEOREM TypeCorrect == Spec => []TypeOK
<1>1. Inv => TypeOK
  BY DEF Inv
<1>. QED  BY <1>1, InvAlways, PTL

-----------------------------------------------------------------------------
(* Logos *)

\* No other step stores a logo or answers that one was.
NoLogo(r) ==
  /\ logos' = logos
  /\ request'[r].answer = "ok" =>
       request'[r].op \in {"campaign", "contact"} \/ (request'[r].op = "brand" /\ ~request'[r].logo)

\* A request is at work when it takes a step.
LEMMA AtWork ==
  ASSUME Inv, NEW r \in Requests,
         \/ Step(r)
         \/ \E letter \in Letters, logo \in BOOLEAN : AskBrand(r, letter, logo)
         \/ \E b \in DOMAIN brands : AskOf(r, b)
  PROVE  request[r].pc # "done" /\ request[r].answer = "none"
<1>1. request[r].pc # "done"
  BY DEF Step, AskOf, TryCode, StoreBrand, ReadBrand, UploadLogo, TakeYear, StoreCampaign,
     ReadCampaign, StoreContact, ReadContact, AskBrand, AskLogo, CountCampaigns, CountContacts
<1>. QED  BY <1>1 DEF Inv, Sound, Answer

LEMMA OthersStoreNoLogo ==
  ASSUME Inv, NEW r \in Requests, request[r].answer = "none",
         \/ TryCode(r) \/ StoreBrand(r) \/ ReadBrand(r) \/ TakeYear(r) \/ StoreCampaign(r)
         \/ ReadCampaign(r) \/ StoreContact(r) \/ ReadContact(r)
         \/ \E letter \in Letters, logo \in BOOLEAN : AskBrand(r, letter, logo)
         \/ \E b \in DOMAIN brands : AskOf(r, b)
  PROVE  NoLogo(r)
<1>1. request \in [Requests -> RequestRow] /\ request[r] \in RequestRow /\ Asked(r)
  BY DEF Inv, TypeOK, Sound
<1>2. ASSUME NEW answer, NEW shown, Reply(r, answer, shown)
      PROVE  /\ request'[r].answer = answer /\ request'[r].op = request[r].op
             /\ request'[r].logo = request[r].logo
  BY <1>1, <1>2 DEF Reply, RequestRow
<1>3. ASSUME NEW pc, Goto(r, pc) PROVE request'[r].answer = "none"
  BY <1>1, <1>3 DEF Goto, RequestRow
<1>4. ASSUME Fails(r) PROVE request'[r].answer = "error"
  BY <1>2, <1>4 DEF Fails
<1>5. CASE TryCode(r)
  <2>1. request'[r].answer \in {"none", "exhausted", "error"}
    BY <1>1, <1>2, <1>4, <1>5 DEF TryCode, RequestRow
  <2>. QED  BY <1>5, <2>1 DEF NoLogo, TryCode, tables
<1>6. CASE StoreBrand(r)
  <2>1. request'[r].answer \in {"none", "conflict", "error"}
    BY <1>2, <1>3, <1>4, <1>6 DEF StoreBrand
  <2>. QED  BY <1>6, <2>1 DEF NoLogo, StoreBrand
<1>7. CASE ReadBrand(r)
  <2>1. request[r].op = "brand"
    BY <1>1, <1>7 DEF ReadBrand, Asked
  <2>2. CASE Fails(r)
    BY <1>4, <1>7, <2>2 DEF NoLogo, ReadBrand, tables
  <2>3. ASSUME NEW b, ~request[r].logo, Reply(r, "ok", b) PROVE NoLogo(r)
    BY <1>2, <1>7, <2>1, <2>3 DEF NoLogo, ReadBrand, tables
  <2>4. ASSUME NEW b, request' = [request EXCEPT ![r].pc = "logo", ![r].brand = b]
        PROVE  NoLogo(r)
    <3>1. request'[r].answer = "none"
      BY <1>1, <2>4 DEF RequestRow
    <3>. QED  BY <1>7, <3>1 DEF NoLogo, ReadBrand, tables
  <2>. QED  BY <1>7, <2>2, <2>3, <2>4 DEF ReadBrand
<1>8. CASE TakeYear(r)
  <2>1. request'[r].answer = "none"
    BY <1>1, <1>8 DEF TakeYear, RequestRow
  <2>. QED  BY <1>8, <2>1 DEF NoLogo, TakeYear, tables
<1>9. CASE StoreCampaign(r)
  <2>1. request'[r].answer \in {"none", "conflict", "error"}
    BY <1>2, <1>3, <1>4, <1>9 DEF StoreCampaign
  <2>. QED  BY <1>9, <2>1 DEF NoLogo, StoreCampaign
<1>10. CASE ReadCampaign(r)
  <2>1. request[r].op = "campaign"
    BY <1>1, <1>10 DEF ReadCampaign, Asked
  <2>2. request'[r].op = "campaign" \/ request'[r].answer = "error"
    BY <1>2, <1>4, <1>10, <2>1 DEF ReadCampaign
  <2>. QED  BY <1>10, <2>2 DEF NoLogo, ReadCampaign, tables
<1>11. CASE StoreContact(r)
  <2>1. request'[r].answer \in {"none", "conflict", "error"}
    BY <1>2, <1>3, <1>4, <1>11 DEF StoreContact
  <2>. QED  BY <1>11, <2>1 DEF NoLogo, StoreContact
<1>12. CASE ReadContact(r)
  <2>1. request[r].op = "contact"
    BY <1>1, <1>12 DEF ReadContact, Asked
  <2>2. request'[r].op = "contact" \/ request'[r].answer = "error"
    BY <1>2, <1>4, <1>12, <2>1 DEF ReadContact
  <2>. QED  BY <1>12, <2>2 DEF NoLogo, ReadContact, tables
<1>13. ASSUME NEW letter \in Letters, NEW logo \in BOOLEAN, AskBrand(r, letter, logo)
       PROVE  NoLogo(r)
  <2>1. request'[r].answer = "none"
    BY <1>1, <1>13 DEF AskBrand, Idle
  <2>. QED  BY <1>13, <2>1 DEF NoLogo, AskBrand, tables
<1>14. ASSUME NEW b \in DOMAIN brands, AskOf(r, b) PROVE NoLogo(r)
  <2>1. request'[r].answer \in {"none", "max_contacts_reached"}
    <3>1. CASE AskLogo(r, b) \/ CountCampaigns(r, b)
      BY <1>1, <3>1 DEF AskLogo, CountCampaigns, Idle
    <3>2. CASE CountContacts(r, b)
      BY <1>1, <3>2 DEF CountContacts, Idle
    <3>. QED  BY <1>14, <3>1, <3>2 DEF AskOf
  <2>. QED  BY <1>14, <2>1 DEF NoLogo, AskOf, AskLogo, CountCampaigns, CountContacts, tables
<1>. QED  BY <1>5, <1>6, <1>7, <1>8, <1>9, <1>10, <1>11, <1>12, <1>13, <1>14

LEMMA RequestsKept ==
  ASSUME Inv, IsFiniteSet(DOMAIN campaigns), NEW r \in Requests,
         \/ Step(r)
         \/ \E letter \in Letters, logo \in BOOLEAN : AskBrand(r, letter, logo)
         \/ \E b \in DOMAIN brands : AskOf(r, b)
  PROVE  \A q \in Requests \ {r} : request'[q] = request[q]
  BY StepKeeps DEF Keeps, Grows

\* An upload that does not fail stores the logo of the request's brand.
LEMMA UploadStores ==
  ASSUME Inv, NEW r \in Requests, UploadLogo(r)
  PROVE  /\ logos \subseteq logos' /\ \A b \in logos' \ logos : Uploaded(r, b)'
         /\ request'[r].answer = "ok" => request'[r].brand \in logos'
<1>1. request \in [Requests -> RequestRow] /\ request[r].op \in {"brand", "logo"}
  BY DEF Inv, TypeOK, Sound, Asked, UploadLogo
<1>2. ASSUME NEW answer, NEW shown, Reply(r, answer, shown)
      PROVE  /\ request'[r].answer = answer /\ request'[r].op = request[r].op
             /\ request'[r].brand = request[r].brand
  BY <1>1, <1>2 DEF Reply, RequestRow
<1>3. CASE logos' = logos \cup {request[r].brand} /\ (Reply(r, "ok", request[r].brand) \/ Fails(r))
  <2>1. request'[r].answer \in {"ok", "error"} /\ request'[r].op = request[r].op
        /\ request'[r].brand = request[r].brand
    BY <1>2, <1>3 DEF Fails
  <2>. QED  BY <1>1, <1>3, <2>1 DEF Uploaded
<1>4. CASE logos' = logos /\ Reply(r, "logo_upload_failed", request[r].brand)
  BY <1>2, <1>4
<1>. QED  BY <1>3, <1>4 DEF UploadLogo

\* A request that is at work has not uploaded, and one that is answered stays so.
LEMMA LogosStep ==
  Inv /\ IsFiniteSet(DOMAIN campaigns) /\ LogosMatchUploads /\ [Next]_vars => LogosMatchUploads'
<1>. SUFFICES ASSUME Inv, IsFiniteSet(DOMAIN campaigns), LogosMatchUploads, [Next]_vars
              PROVE  LogosMatchUploads'
  OBVIOUS
<1>1. CASE UNCHANGED vars \/ MonthEnds
  <2>1. UNCHANGED <<logos, request>>
    BY <1>1 DEF vars, tables, MonthEnds
  <2>. QED  BY <2>1 DEF LogosMatchUploads, Uploaded, Answered
<1>2. ASSUME NEW r \in Requests,
             \/ Step(r)
             \/ \E letter \in Letters, logo \in BOOLEAN : AskBrand(r, letter, logo)
             \/ \E b \in DOMAIN brands : AskOf(r, b)
      PROVE  LogosMatchUploads'
  <2>1. request[r].pc # "done" /\ request[r].answer = "none"
    BY <1>2, AtWork
  <2>2. \A q \in Requests \ {r} : request'[q] = request[q]
    BY <1>2, RequestsKept
  <2>3. logos \subseteq logos' /\ \A b \in logos' \ logos : Uploaded(r, b)'
    <3>1. CASE UploadLogo(r)
      BY <3>1, UploadStores
    <3>2. CASE ~UploadLogo(r)
      BY <1>2, <2>1, <3>2, OthersStoreNoLogo DEF Step, NoLogo
    <3>. QED  BY <3>1, <3>2
  <2>4. Answered(r, "logo", "ok")' \/ (Answered(r, "brand", "ok")' /\ request'[r].logo) =>
          request'[r].brand \in logos'
    <3>1. CASE UploadLogo(r)
      BY <3>1, UploadStores DEF Answered
    <3>2. CASE ~UploadLogo(r)
      BY <1>2, <2>1, <3>2, OthersStoreNoLogo DEF Step, NoLogo, Answered
    <3>. QED  BY <3>1, <3>2
  <2>5. ASSUME NEW b \in logos' PROVE \E q \in Requests : Uploaded(q, b)'
    <3>1. CASE b \in logos
      <4>1. PICK q \in Requests : Uploaded(q, b)
        BY <3>1 DEF LogosMatchUploads
      <4>2. q # r
        BY <2>1, <4>1 DEF Uploaded
      <4>. QED  BY <2>2, <4>1, <4>2 DEF Uploaded
    <3>2. CASE b \notin logos
      BY <2>3, <2>5, <3>2
    <3>. QED  BY <3>1, <3>2
  <2>6. ASSUME NEW q \in Requests,
               Answered(q, "logo", "ok")' \/ (Answered(q, "brand", "ok")' /\ request'[q].logo)
        PROVE  request'[q].brand \in logos'
    <3>1. CASE q = r
      BY <2>4, <2>6, <3>1
    <3>2. CASE q # r
      BY <2>2, <2>3, <2>6, <3>2 DEF LogosMatchUploads, Answered
    <3>. QED  BY <3>1, <3>2
  <2>. QED  BY <2>5, <2>6 DEF LogosMatchUploads
<1>. QED  BY <1>1, <1>2, NextCases

\* What an answer says is what was stored, for any number of admins: because
\* the ids are unique, the look-up by an id finds the row that was stored with
\* it, and a logo is there only by an upload that did not fail
\* (internal/src/brand/service.go:62-111, internal/src/campaign/service.go:142-145).
THEOREM AnswersCorrect == Spec => []AnswersMatchRows
<1>1. Init => Inv /\ NumberInv /\ LogosMatchUploads
  BY InvInit, NumberInit DEF Init, LogosMatchUploads, Answered, Idle
<1>2. Inv /\ NumberInv /\ LogosMatchUploads /\ [Next]_vars => (Inv /\ NumberInv /\ LogosMatchUploads)'
  BY InvStep, NumberStep, LogosStep DEF NumberInv
<1>3. Inv /\ LogosMatchUploads => AnswersMatchRows
  <2>. SUFFICES ASSUME Inv, LogosMatchUploads, NEW r \in Requests
                PROVE  RowsMatch(r)
    BY DEF AnswersMatchRows
  <2>1. Stored(r) /\ Answer(r)
    BY DEF Inv, Sound
  <2>2. request[r].answer \in {"conflict", "exhausted", "max_contacts_reached"} =>
          r \notin DOMAIN brands \cup DOMAIN campaigns \cup DOMAIN contacts
    BY <2>1 DEF Stored, Answer
  <2>. QED  BY <2>1, <2>2 DEF Answer, Answered, RowsMatch
<1>. QED  BY <1>1, <1>2, <1>3, PTL DEF Spec

\* The campaigns of a brand in a year are numbered without gaps, for any number
\* of admins and of months, as long as no creation straddles the turn of a year
\* (internal/store/postgres/store.go:998-1003).
THEOREM NumbersCorrect == Spec => []NumbersContiguous
<1>1. Inv /\ NumberInv => NumbersContiguous
  <2>1. YearOf(LastMonth) \in Nat
    BY BrandsAssumption, YearIsNat
  <2>. QED  BY <2>1 DEF NumberInv, NumbersContiguous, NoStraddle, Numbered
<1>. QED  BY <1>1, InvAlways, PTL

\* A refused request finds its cause in the tables, for any number of admins,
\* of codes and of contacts: an id is free when it is chosen, so that only a row
\* that came later can have taken it, or one of another month
\* (internal/src/brand/service.go:242, 124, 149, internal/store/postgres/store.go:998).
THEOREM RefusalsCorrect == Spec => []RefusalNeedsCause
<1>1. Init => Inv /\ NumberInv /\ CauseInv
  BY InvInit, NumberInit, CauseInit
<1>2. Inv /\ NumberInv /\ CauseInv /\ [Next]_vars => (Inv /\ NumberInv /\ CauseInv)'
  BY InvStep, NumberStep, CauseStep DEF NumberInv
<1>3. Inv /\ NumberInv /\ CauseInv => RefusalNeedsCause
  BY DEF CauseInv, RefusalNeedsCause
<1>. QED  BY <1>1, <1>2, <1>3, PTL DEF Spec
=============================================================================
