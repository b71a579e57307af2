------------------------------- MODULE Brands -------------------------------
(***************************************************************************)
(* Brands, their contacts and the ids of their campaigns (internal/src/    *)
(* brand and CampaignService.Create of internal/src/campaign/service.go).  *)
(*                                                                         *)
(* Three kinds of row get an id that is chosen by looking at the rows that *)
(* are there: a brand the first free of some short codes, a campaign its   *)
(* brand's code, the year and one more than the campaigns its brand got    *)
(* this month, a contact the empty string.  Each is looked for, stored and *)
(* read back in separate statements; only the UNIQUE constraints make the  *)
(* requests wait for each other.                                           *)
(*                                                                         *)
(* Short codes that can meet differ in their last character: 0..9 are the  *)
(* digits, the larger numbers stand for the letters.                       *)
(***************************************************************************)
EXTENDS Naturals, FiniteSets

CONSTANTS OldBrands,     \* brands that are there from the start
          Requests,      \* the admins' requests; a row is named by the one that stored it
          Letters,       \* last characters of the brands' names
          Digits,        \* how many digits there are (10)
          Tries,         \* how many codes are tried (99)
          MaxContacts,   \* max_contacts_per_brand (3)
          MonthsPerYear, \* 12
          LastMonth,     \* bound: the months of a behaviour
          MaxFailures    \* bound: failed database calls of one behaviour

ASSUME BrandsAssumption ==
  /\ OldBrands \cap Requests = {}
  /\ {Digits, Tries, MonthsPerYear} \subseteq Nat \ {0}
  /\ {MaxContacts, LastMonth, MaxFailures} \subseteq Nat
  /\ Letters \subseteq Nat

VARIABLES brands,    \* table brands: the short codes, by id
          logos,     \* the brands with a logo_url
          campaigns, \* table campaigns: the part of a row that makes its id
          contacts,  \* table brand_contacts: the brand, by viewer_token
          month,     \* months since the start of the first year
          request,   \* where each request is
          failures   \* not in the code: how many calls have failed

tables == <<brands, logos, campaigns, contacts>>
vars == <<tables, month, request, failures>>

-----------------------------------------------------------------------------
Codes == Letters \cup 0 .. Digits - 1
YearOf(m) == m \div MonthsPerYear

HumanIds == [code : Codes, year : Nat, number : Nat]

\* month is when the row was stored; counted is not in the row: when its number
\* was counted.
CampaignRow == [brand : OldBrands \cup Requests, id : HumanIds, month : Nat, counted : Nat]

Answers == {"none", "ok", "conflict", "exhausted", "max_contacts_reached", "logo_upload_failed",
            "error"}

\* brand is the brand asked for or read back, letter the name's, try the number
\* of codes found taken, number, year and counted the parts of a human id.
\* Not in the code: known, the rows there were when the id was chosen; shown is
\* the row of the answer.
Idle == [pc |-> "idle", op |-> "none", brand |-> "none", letter |-> 0, logo |-> FALSE,
         try |-> 0, number |-> 0, year |-> 0, counted |-> 0, known |-> {},
         shown |-> "none", answer |-> "none"]

RequestRow ==
  [pc : {"idle", "code", "storeBrand", "readBrand", "logo", "year", "storeCampaign",
    "readCampaign", "storeContact", "readContact", "done"},
   op : {"none", "brand", "logo", "campaign", "contact"},
   brand : OldBrands \cup Requests \cup {"none"},
   letter : Nat, logo : BOOLEAN, try : 0 .. Tries,
   number : Nat, year : Nat, counted : Nat,
   known : SUBSET (OldBrands \cup Requests),
   shown : OldBrands \cup Requests \cup {"none"},
   answer : Answers]

TypeOK ==
  /\ DOMAIN brands \subseteq OldBrands \cup Requests
  /\ OldBrands \subseteq DOMAIN brands
  /\ brands \in [DOMAIN brands -> Codes]
  /\ logos \subseteq DOMAIN brands
  /\ DOMAIN campaigns \subseteq Requests
  /\ campaigns \in [DOMAIN campaigns -> CampaignRow]
  /\ DOMAIN contacts \subseteq Requests
  /\ contacts \in [DOMAIN contacts -> DOMAIN brands]
  /\ month \in 0 .. LastMonth
  /\ request \in [Requests -> RequestRow]
  /\ failures \in 0 .. MaxFailures

Init ==
  /\ brands \in [OldBrands -> Letters]
  /\ \A b, d \in OldBrands : brands[b] = brands[d] => b = d
  /\ logos = {} /\ campaigns = <<>> /\ contacts = <<>>
  /\ month = 0
  /\ request = [r \in Requests |-> Idle]
  /\ failures = 0

-----------------------------------------------------------------------------
Row(table, r, value) ==
  [i \in DOMAIN table \cup {r} |-> IF i = r THEN value ELSE table[i]]

Goto(r, pc) == request' = [request EXCEPT ![r].pc = pc]
Reply(r, answer, shown) ==
  request' = [request EXCEPT ![r].pc = "done", ![r].answer = answer, ![r].shown = shown]

Unbroken == UNCHANGED failures
Fails(r) ==
  /\ failures < MaxFailures
  /\ failures' = failures + 1
  /\ Reply(r, "error", "none")

-----------------------------------------------------------------------------
(* POST /admin/brands: BrandService.Create *)

AskBrand(r, letter, logo) ==
  /\ request[r].pc = "idle"
  /\ request' = [request EXCEPT ![r] =
       [Idle EXCEPT !.pc = "code", !.op = "brand", !.letter = letter, !.logo = logo]]
  /\ UNCHANGED <<tables, month, failures>>

\* A deviation: the number is not reduced to a digit.
CandidateUnwrapped(letter, try) == IF try = 0 THEN letter ELSE try + 1

\* The code of the name, and then its first two characters and a digit: the
\* loop begins at 2 and comes round to 0 and 1.
Candidate(letter, try) == IF try = 0 THEN letter ELSE (try + 1) % Digits

CodeOf(r) == Candidate(request[r].letter, request[r].try)
CodeTaken(code) == \E b \in DOMAIN brands : brands[b] = code

\* ShortcodeExists, once around the loop of generateShortcode.
TryCode(r) ==
  /\ request[r].pc = "code"
  /\ \/ /\ ~CodeTaken(CodeOf(r))
        /\ request' = [request EXCEPT ![r].pc = "storeBrand", ![r].known = DOMAIN brands]
        /\ Unbroken
     \/ /\ CodeTaken(CodeOf(r)) /\ request[r].try + 1 < Tries
        /\ request' = [request EXCEPT ![r].try = @ + 1]
        /\ Unbroken
     \/ /\ CodeTaken(CodeOf(r)) /\ request[r].try + 1 = Tries
        /\ Reply(r, "exhausted", "none")
        /\ Unbroken
     \/ Fails(r)
  /\ UNCHANGED <<tables, month>>

\* shortcode is UNIQUE.
StoreBrand(r) ==
  /\ request[r].pc = "storeBrand"
  /\ \/ /\ ~CodeTaken(CodeOf(r))
        /\ brands' = Row(brands, r, CodeOf(r))
        /\ Goto(r, "readBrand")
        /\ Unbroken
     \/ /\ CodeTaken(CodeOf(r))
        /\ Reply(r, "conflict", "none")
        /\ UNCHANGED <<brands, failures>>
     \/ Fails(r) /\ UNCHANGED brands
  /\ UNCHANGED <<logos, campaigns, contacts, month>>

\* GetBrandByShortcode.  A logo that came along is still to be uploaded.
ReadBrand(r) ==
  /\ request[r].pc = "readBrand"
  /\ \/ /\ \E b \in DOMAIN brands :
             /\ brands[b] = CodeOf(r)
             /\ \/ /\ request[r].logo
                   /\ request' = [request EXCEPT ![r].pc = "logo", ![r].brand = b]
                \/ ~request[r].logo /\ Reply(r, "ok", b)
        /\ Unbroken
     \/ Fails(r)
  /\ UNCHANGED <<tables, month>>

\* PATCH /admin/brands/{id} and POST /admin/brands/{id}/logo with a file.
AskLogo(r, b) ==
  /\ request[r].pc = "idle"
  /\ request' = [request EXCEPT ![r] =
       [Idle EXCEPT !.pc = "logo", !.op = "logo", !.brand = b]]
  /\ UNCHANGED <<tables, month, failures>>

\* A deviation: the address is stored before the file is sent.
UploadLogoLater(r) ==
  /\ request[r].pc = "logo"
  /\ logos' = logos \cup {request[r].brand}
  /\ \/ (Reply(r, "ok", request[r].brand) /\ Unbroken) \/ Fails(r)
     \/ Reply(r, "logo_upload_failed", request[r].brand) /\ Unbroken
  /\ UNCHANGED <<brands, campaigns, contacts, month>>

\* UpdateLogo: the file is sent to the media service, which may refuse it, and
\* its address stored; then the brand is read again.  A brand that was just
\* stored stays.
UploadLogo(r) ==
  /\ request[r].pc = "logo"
  /\ \/ /\ logos' = logos \cup {request[r].brand}
        /\ (Reply(r, "ok", request[r].brand) /\ Unbroken) \/ Fails(r)
     \/ /\ Reply(r, "logo_upload_failed", request[r].brand)
        /\ UNCHANGED <<logos, failures>>
  /\ UNCHANGED <<brands, campaigns, contacts, month>>

-----------------------------------------------------------------------------
(* POST /admin/campaigns: CampaignService.Create *)

OfMonth(b) == {c \in DOMAIN campaigns : campaigns[c].brand = b /\ campaigns[c].month = month}

\* A deviation: the campaign to come is not counted.
CountCampaignsOnly(r, b) ==
  /\ request[r].pc = "idle"
  /\ request' = [request EXCEPT ![r] =
       [Idle EXCEPT !.pc = "year", !.op = "campaign", !.brand = b,
                    !.number = Cardinality(OfMonth(b)), !.counted = month, !.known = DOMAIN campaigns]]
  /\ UNCHANGED <<tables, month, failures>>

\* A deviation: drafts are not counted, and every campaign begins as one.
CountCampaignsLaunched(r, b) ==
  /\ request[r].pc = "idle"
  /\ request' = [request EXCEPT ![r] =
       [Idle EXCEPT !.pc = "year", !.op = "campaign", !.brand = b, !.number = 1,
                    !.counted = month, !.known = DOMAIN campaigns]]
  /\ UNCHANGED <<tables, month, failures>>

\* NextCampaignHumanID: CountCampaignsByBrandMonth.
CountCampaigns(r, b) ==
  /\ request[r].pc = "idle"
  /\ request' = [request EXCEPT ![r] =
       [Idle EXCEPT !.pc = "year", !.op = "campaign", !.brand = b,
                    !.number = Cardinality(OfMonth(b)) + 1, !.counted = month, !.known = DOMAIN campaigns]]
  /\ UNCHANGED <<tables, month, failures>>

\* The year is taken from the program's clock, after the count.
TakeYear(r) ==
  /\ request[r].pc = "year"
  /\ request' = [request EXCEPT ![r].pc = "storeCampaign", ![r].year = YearOf(month)]
  /\ UNCHANGED <<tables, month, failures>>

HumanId(r) == [code |-> brands[request[r].brand], year |-> request[r].year,
               number |-> request[r].number]

\* A deviation: human_id is not UNIQUE.
HumanIdFree(id) == FALSE

HumanIdTaken(id) == \E c \in DOMAIN campaigns : campaigns[c].id = id

\* human_id is UNIQUE; created_at is the time of this statement.
StoreCampaign(r) ==
  /\ request[r].pc = "storeCampaign"
  /\ \/ /\ ~HumanIdTaken(HumanId(r))
        /\ campaigns' = Row(campaigns, r, [brand |-> request[r].brand, id |-> HumanId(r),
                                           month |-> month, counted |-> request[r].counted])
        /\ Goto(r, "readCampaign")
        /\ Unbroken
     \/ /\ HumanIdTaken(HumanId(r))
        /\ Reply(r, "conflict", "none")
        /\ UNCHANGED <<campaigns, failures>>
     \/ Fails(r) /\ UNCHANGED campaigns
  /\ UNCHANGED <<brands, logos, contacts, month>>

\* GetCampaignByHumanID.
ReadCampaign(r) ==
  /\ request[r].pc = "readCampaign"
  /\ \/ /\ \E c \in DOMAIN campaigns : campaigns[c].id = HumanId(r) /\ Reply(r, "ok", c)
        /\ Unbroken
     \/ Fails(r)
  /\ UNCHANGED <<tables, month>>

-----------------------------------------------------------------------------
(* POST /admin/brands/{id}/contacts: BrandService.AddContact *)

\* Nobody deactivates a contact, see ContactTaken: all of them are active.
CountContacts(r, b) ==
  /\ request[r].pc = "idle"
  /\ IF Cardinality({c \in DOMAIN contacts : contacts[c] = b}) >= MaxContacts
     THEN request' = [request EXCEPT ![r] =
            [Idle EXCEPT !.pc = "done", !.op = "contact", !.brand = b,
                         !.answer = "max_contacts_reached"]]
     ELSE request' = [request EXCEPT ![r] =
            [Idle EXCEPT !.pc = "storeContact", !.op = "contact", !.brand = b,
                         !.known = DOMAIN contacts]]
  /\ UNCHANGED <<tables, month, failures>>

\* The contact is stored without an id, and CreateBrandContact passes the empty
\* string on in place of the column's default.  No path names that id, so that
\* the routes that patch or deactivate a contact find none.
ContactTaken == DOMAIN contacts # {}

StoreContact(r) ==
  /\ request[r].pc = "storeContact"
  /\ \/ /\ ~ContactTaken
        /\ contacts' = Row(contacts, r, request[r].brand)
        /\ Goto(r, "readContact")
        /\ Unbroken
     \/ /\ ContactTaken
        /\ Reply(r, "conflict", "none")
        /\ UNCHANGED <<contacts, failures>>
     \/ Fails(r) /\ UNCHANGED contacts
  /\ UNCHANGED <<brands, logos, campaigns, month>>

\* GetBrandContactByViewerToken.
ReadContact(r) ==
  /\ request[r].pc = "readContact"
  /\ (Reply(r, "ok", r) /\ Unbroken) \/ Fails(r)
  /\ UNCHANGED <<tables, month>>

-----------------------------------------------------------------------------
MonthEnds ==
  /\ month < LastMonth
  /\ month' = month + 1
  /\ UNCHANGED <<tables, request, failures>>

Step(r) ==
  \/ TryCode(r) \/ StoreBrand(r) \/ ReadBrand(r) \/ UploadLogo(r)
  \/ TakeYear(r) \/ StoreCampaign(r) \/ ReadCampaign(r)
  \/ StoreContact(r) \/ ReadContact(r)

AskOf(r, b) == AskLogo(r, b) \/ CountCampaigns(r, b) \/ CountContacts(r, b)

Next ==
  \/ \E r \in Requests :
       \/ Step(r)
       \/ \E letter \in Letters, logo \in BOOLEAN : AskBrand(r, letter, logo)
       \/ \E b \in DOMAIN brands : AskOf(r, b)
  \/ MonthEnds

Spec == Init /\ [][Next]_vars

-----------------------------------------------------------------------------
Answered(r, op, answer) == request[r].op = op /\ request[r].answer = answer

\* The request has a logo of b, and did not fail to upload it.
Uploaded(r, b) ==
  /\ request[r].op \in {"brand", "logo"} /\ request[r].brand = b
  /\ request[r].answer \in {"ok", "error"}

LogosMatchUploads ==
  /\ \A b \in logos : \E r \in Requests : Uploaded(r, b)
  /\ \A r \in Requests :
       Answered(r, "logo", "ok") \/ (Answered(r, "brand", "ok") /\ request[r].logo) =>
         request[r].brand \in logos

RowsMatch(r) ==
  /\ Answered(r, "brand", "ok") => r \in DOMAIN brands /\ request[r].shown = r
  /\ Answered(r, "campaign", "ok") => r \in DOMAIN campaigns /\ request[r].shown = r
  /\ Answered(r, "contact", "ok") => r \in DOMAIN contacts /\ request[r].shown = r
  /\ request[r].answer \in {"conflict", "exhausted", "max_contacts_reached"} =>
       r \notin DOMAIN brands \cup DOMAIN campaigns \cup DOMAIN contacts
  /\ Answered(r, "brand", "logo_upload_failed") => r \in DOMAIN brands

\* What an answer says is what was stored: the row a request is shown as its
\* creation is its own, although it is looked up by an id that others may have
\* chosen too; a refused request has left no row; a brand whose logo could not be
\* uploaded is there, although the answer is a failure, and without a logo unless
\* another request uploaded one; and whoever is told that a logo was uploaded
\* finds it (internal/src/brand/service.go:62-111,
\* internal/src/campaign/service.go:142-145).
AnswersMatchRows == LogosMatchUploads /\ \A r \in Requests : RowsMatch(r)

\* The number of a campaign was counted, its year taken and its row stored in
\* the same year, or not.
Straddles(row) ==
  ~ (YearOf(row.counted) = row.id.year /\ YearOf(row.month) = row.id.year)

CampaignsOf(b) == {c \in DOMAIN campaigns : campaigns[c].brand = b}
OfYear(b, y) == {c \in CampaignsOf(b) : campaigns[c].id.year = y}

\* The campaigns of a brand in a year are numbered 1, 2, 3, ... without gaps,
\* however the creations overlap, as long as none of them straddles the turn
\* of a year: it carries a count from one year into the other
\* (internal/store/postgres/store.go:998-1003).
NumbersContiguous ==
  \A b \in DOMAIN brands, y \in 0 .. YearOf(LastMonth) :
    (\A c \in CampaignsOf(b) : ~Straddles(campaigns[c])) =>
      {campaigns[c].id.number : c \in OfYear(b, y)} = 1 .. Cardinality(OfYear(b, y))

SameId(c, r) == campaigns[c].id = HumanId(r)

HasCause(r) ==
  /\ Answered(r, "brand", "conflict") =>
       \E b \in DOMAIN brands \ request[r].known : brands[b] = CodeOf(r)
  /\ Answered(r, "brand", "exhausted") =>
       \A try \in 0 .. Tries - 1 : CodeTaken(Candidate(request[r].letter, try))
  /\ Answered(r, "campaign", "conflict") =>
       \E c \in DOMAIN campaigns :
         /\ SameId(c, r)
         /\ \/ c \notin request[r].known
            \/ campaigns[c].month # request[r].counted
            \/ campaigns[c].counted # request[r].counted
  /\ Answered(r, "contact", "conflict") => ContactTaken
  /\ Answered(r, "contact", "max_contacts_reached") =>
       Cardinality({c \in DOMAIN contacts : contacts[c] = request[r].brand}) >= MaxContacts

\* A conflict is answered only if another row took the id after it was looked
\* for or, for a campaign, if the one that has it was numbered or stored in
\* another month, of which the count knows nothing; for a contact, if there is
\* any.  Codes run out only if all are taken, and a brand
\* is full only with MaxContacts contacts (internal/src/brand/service.go:242,
\* 124, 149, internal/store/postgres/store.go:998).
RefusalNeedsCause == \A r \in Requests : HasCause(r)
=============================================================================
