------------------------------- MODULE Accounts -------------------------------
(***************************************************************************)
(* The accounts in osc's configuration file (src/account.ts): several      *)
(* calls read it, add one account each and write the whole file back, osc  *)
(* or an editor changes it as well, two calls may write it at once,        *)
(* reading may fail, and the process may die.                              *)
(***************************************************************************)
EXTENDS Naturals, Sequences, FiniteSets

CONSTANTS
  Urls,       \* API URLs, normalised
  Adders,     \* calls of addAccountToOscrc() that may be in progress
  MaxEdits,   \* bound on what others do to the file
  MaxMixes    \* bound on how often a call writes over what others have written

ASSUME AccountAssumption == MaxEdits \in Nat /\ MaxMixes \in Nat

VARIABLES
  file,       \* the configuration file
  edits,      \* how often others have changed it
  adder,      \* what each caller is doing
  before,     \* history: what the file had when a call began on its own
  overlap,    \* history: callers whose call has met another one or an edit
  mixes       \* history: how often a text was written over another one

vars == <<file, edits, adder, before, overlap, mixes>>

\* An account's section is headed by a URL, spelled with the slash at its end that
\* normalizeUrl() adds, or without.  users are the values of `user` in it.
Section(url, slash, users) == [url |-> url, slash |-> slash, users |-> users]

\* The sections of the file after [general], and does it end with a newline?
Contents(sections, newline) == [sections |-> sections, newline |-> newline]
Nothing == Contents(<<>>, TRUE)

Idle == [pc |-> "idle", url |-> "none", text |-> Nothing]

Init ==
  /\ file = Nothing
  /\ edits = 0
  /\ adder = [c \in Adders |-> Idle]
  /\ before = [c \in Adders |-> Nothing]
  /\ overlap = {}
  /\ mixes = 0

Working == {c \in Adders : adder[c].pc \notin {"idle", "added"}}

\* addAccountToOscrc(): the file is read first.
AddAccountToOscrc(c, url) ==
  /\ adder[c].pc \in {"idle", "added"}
  /\ adder' = [adder EXCEPT ![c] = [Idle EXCEPT !.pc = "read", !.url = url]]
  /\ before' = [before EXCEPT ![c] = file]
  /\ overlap' = IF Working = {} THEN overlap \ {c} ELSE overlap \cup Working \cup {c}
  /\ UNCHANGED <<file, edits, mixes>>

\* Faulty: the URLs are compared as they are spelled.
PresentAsSpelled(contents, url) ==
  \E i \in DOMAIN contents.sections :
    contents.sections[i].url = url /\ contents.sections[i].slash
\* Is there an account for the URL, however it is spelled?
Present(contents, url) ==
  \E i \in DOMAIN contents.sections : contents.sections[i].url = url

\* Faulty: the file is written anew with the one account.
WithOnly(contents, c) == Contents(<<Section(adder[c].url, TRUE, {c})>>, TRUE)
\* The section is appended to the text.  Without a newline at its end the header
\* becomes a part of the last line, and the account one of that section's.
With(contents, c) ==
  LET old == contents.sections
      last == old[Len(old)]
  IN
  IF contents.newline THEN Contents(Append(old, Section(adder[c].url, TRUE, {c})), TRUE)
  ELSE IF old = <<>> THEN Contents(old, TRUE)
  ELSE Contents([old EXCEPT ![Len(old)] = [last EXCEPT !.users = @ \cup {c}]], TRUE)

\* readOsrc(), and all that is computed from it.  A file that cannot be read
\* counts as one without any section.
ReadOsrc(c) ==
  /\ adder[c].pc = "read"
  /\ \E unreadable \in BOOLEAN :
       LET read == IF unreadable THEN Nothing ELSE file IN
       /\ overlap' = IF unreadable THEN overlap \cup {c} ELSE overlap
       /\ adder' = [adder EXCEPT ![c] =
                      IF Present(read, adder[c].url) THEN Idle
                      ELSE [@ EXCEPT !.pc = "open", !.text = With(read, c)]]
  /\ UNCHANGED <<file, edits, before, mixes>>

\* writeFile() truncates the file when it opens it ...
OpenOscrc(c) ==
  /\ adder[c].pc = "open"
  /\ file' = Nothing
  /\ adder' = [adder EXCEPT ![c].pc = "write"]
  /\ UNCHANGED <<edits, before, overlap, mixes>>

\* A text that is written from the start of the file leaves the last sections that
\* are there by now, when it is shorter than what stands before them (the sections
\* of which it has all and more are shorter than it).  The remains of a section that
\* is cut have no header and are left out.
Rests(text) ==
  LET there == file.sections
      Covers(k) == /\ k <= Len(text.sections)
                   /\ SubSeq(there, 1, k - 1) = SubSeq(text.sections, 1, k - 1)
  IN
  {<<>>} \cup {SubSeq(there, k, Len(there)) : k \in {i \in DOMAIN there : ~Covers(i)}}

\* The text, with what it leaves of the file after it.
Over(text, rest) ==
  IF rest = <<>> THEN text ELSE Contents(text.sections \o rest, file.newline)

\* ... and then writes it, over what others may have written since.
WriteOscrc(c) ==
  /\ adder[c].pc = "write"
  /\ \E rest \in Rests(adder[c].text) : file' = Over(adder[c].text, rest)
  /\ \/ file.sections = <<>> /\ UNCHANGED mixes
     \/ file.sections # <<>> /\ mixes < MaxMixes /\ mixes' = mixes + 1
  /\ adder' = [adder EXCEPT ![c] = [Idle EXCEPT !.pc = "added"]]
  /\ before' = [before EXCEPT ![c] = Nothing]
  /\ overlap' = overlap \ {c}
  /\ UNCHANGED edits

\* Others add an account, remove one, or leave out the last newline.
Edit ==
  /\ edits < MaxEdits
  /\ edits' = edits + 1
  /\ \/ \E url \in Urls, slash, newline \in BOOLEAN :
          /\ ~Present(file, url)
          /\ file' = Contents(Append(file.sections, Section(url, slash, {"osc"})), newline)
     \/ /\ file.sections # <<>>
        /\ file' = Contents(Tail(file.sections), TRUE)
  /\ overlap' = overlap \cup Working
  /\ UNCHANGED <<adder, before, mixes>>

CrashOfAdders ==
  /\ Working # {}
  /\ adder' = [c \in Adders |-> Idle]
  /\ before' = [c \in Adders |-> Nothing]
  /\ overlap' = {}
  /\ UNCHANGED <<file, edits, mixes>>

Next ==
  \/ \E c \in Adders :
       \/ \E url \in Urls : AddAccountToOscrc(c, url)
       \/ ReadOsrc(c) \/ OpenOscrc(c) \/ WriteOscrc(c)
  \/ Edit
  \/ CrashOfAdders

Spec == Init /\ [][Next]_vars

-----------------------------------------------------------------------------

\* As long as no call has written over what was written after it had opened the
\* file, readAccountsFromOscrc() never finds two accounts for one URL: in whatever
\* order the calls read, whatever spelling of the URL they meet, and whenever they
\* die.  Without that condition it may: of two texts that are written at once, the
\* shorter one leaves the end of the longer one in the file.
OneAccountPerUrl ==
  mixes = 0 =>
    \A i, j \in DOMAIN file.sections :
      file.sections[i].url = file.sections[j].url => i = j

\* A call that is alone, can read the file and finds a newline at its end keeps
\* every account and adds its own.
NoAccountIsLost ==
  [][\A c \in Adders \ overlap :
       adder[c].pc = "write" /\ adder'[c].pc = "added" /\ before[c].newline
         => file'.sections = Append(before[c].sections,
                                    Section(adder[c].url, TRUE, {c}))]_vars
=============================================================================
