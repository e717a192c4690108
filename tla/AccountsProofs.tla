----------------------------- MODULE AccountsProofs -----------------------------
(***************************************************************************)
(* Theorems about Accounts, for any URLs and callers, any number of        *)
(* changes that others make to the configuration file, and of texts that   *)
(* are written over others.                                                *)
(***************************************************************************)
EXTENDS Accounts, TLAPS

-----------------------------------------------------------------------------
(* The inductive invariant, in parts.                                      *)

SectionTypes == [url : Urls, slash : BOOLEAN, users : SUBSET (Adders \cup {"osc"})]
ContentTypes == [sections : Seq(SectionTypes), newline : BOOLEAN]
AdderTypes == [pc : {"idle", "read", "open", "write", "added"},
               url : Urls \cup {"none"}, text : ContentTypes]

TypeInv ==
  /\ file \in ContentTypes
  /\ adder \in [Adders -> AdderTypes]
  /\ \A c \in Working : adder[c].url \in Urls
  /\ before \in [Adders -> ContentTypes]
  /\ overlap \subseteq Adders
  /\ mixes \in Nat

\* No URL heads two sections.
NoneTwice(contents) ==
  \A i, j \in DOMAIN contents.sections :
    contents.sections[i].url = contents.sections[j].url => i = j

\* What is to be written names no URL twice, either.
TextsFit == \A c \in Adders : adder[c].pc \in {"open", "write"} => NoneTwice(adder[c].text)

\* Who works at the same time has met, and who is alone writes what was there
\* when it began, with its account, into a file that it has emptied.
AloneFits ==
  /\ \A c, d \in Working : c # d => c \in overlap
  /\ \A c \in Adders \ overlap :
       /\ adder[c].pc = "read" => file = before[c]
       /\ adder[c].pc \in {"open", "write"} => adder[c].text = With(before[c], c)
       /\ adder[c].pc = "write" => file.sections = <<>>

\* Until texts are mixed, neither the file nor what is to be written names a URL
\* twice.
OnceUnlessMixed == mixes = 0 => NoneTwice(file) /\ TextsFit

IInv == TypeInv /\ OnceUnlessMixed /\ AloneFits

-----------------------------------------------------------------------------
(* Adding a section.                                                       *)

LEMMA SectionFields ==
  \A url, slash, users : /\ Section(url, slash, users).url = url
                         /\ Section(url, slash, users).users = users
                         /\ url \in Urls /\ slash \in BOOLEAN /\ users \in SUBSET (Adders \cup {"osc"})
                              => Section(url, slash, users) \in SectionTypes
BY DEF Section, SectionTypes

LEMMA ContentsFields ==
  \A sections, newline : /\ Contents(sections, newline).sections = sections
                         /\ Contents(sections, newline).newline = newline
                         /\ sections \in Seq(SectionTypes) /\ newline \in BOOLEAN
                              => Contents(sections, newline) \in ContentTypes
BY DEF Contents, ContentTypes

LEMMA NothingFits == Nothing \in ContentTypes /\ Nothing.sections = <<>> /\ NoneTwice(Nothing)
PROOF
  <1>1. <<>> \in Seq(SectionTypes)
    OBVIOUS
  <1>2. Nothing \in ContentTypes /\ Nothing.sections = <<>>
    BY <1>1, ContentsFields DEF Nothing
  <1> QED BY <1>2 DEF NoneTwice

\* A section for a URL that has none yet is no second one.
LEMMA AppendKeeps ==
  ASSUME NEW contents \in ContentTypes, NEW section \in SectionTypes, NEW newline \in BOOLEAN
  PROVE  /\ Contents(Append(contents.sections, section), newline) \in ContentTypes
         /\ NoneTwice(contents) /\ ~Present(contents, section.url)
              => NoneTwice(Contents(Append(contents.sections, section), newline))
PROOF
  <1> DEFINE old == contents.sections
             new == Append(old, section)
  <1>1. old \in Seq(SectionTypes) /\ new \in Seq(SectionTypes)
    BY DEF ContentTypes
  <1>2. Contents(new, newline) \in ContentTypes /\ Contents(new, newline).sections = new
    BY <1>1, ContentsFields
  <1>3. ASSUME NoneTwice(contents), ~Present(contents, section.url)
        PROVE  NoneTwice(Contents(new, newline))
    <2>1. /\ DOMAIN new = 1 .. Len(old) + 1 /\ DOMAIN old = 1 .. Len(old) /\ Len(old) \in Nat
          /\ \A i \in 1 .. Len(old) : new[i] = old[i]
          /\ new[Len(old) + 1] = section
      BY <1>1
    <2>2. \A i \in DOMAIN old : old[i].url # section.url
      BY <1>3 DEF Present
    <2>3. \A i, j \in DOMAIN old : old[i].url = old[j].url => i = j
      BY <1>3 DEF NoneTwice
    <2> HIDE DEF new, old
    <2>4. \A i, j \in DOMAIN new : new[i].url = new[j].url => i = j
      BY <2>1, <2>2, <2>3
    <2> QED BY <1>2, <2>4 DEF new, old, NoneTwice
  <1> QED BY <1>2, <1>3

LEMMA WithKeeps ==
  ASSUME NEW c \in Adders, adder[c].url \in Urls, NEW contents \in ContentTypes
  PROVE  /\ With(contents, c) \in ContentTypes
         /\ NoneTwice(contents) /\ ~Present(contents, adder[c].url)
              => NoneTwice(With(contents, c))
PROOF
  <1> DEFINE old == contents.sections
             section == Section(adder[c].url, TRUE, {c})
             last == old[Len(old)]
             new == [old EXCEPT ![Len(old)] = [last EXCEPT !.users = @ \cup {c}]]
  <1>1. old \in Seq(SectionTypes)
    BY DEF ContentTypes
  <1>2. CASE contents.newline
    <2>1. section \in SectionTypes /\ section.url = adder[c].url
      BY SectionFields
    <2>2. With(contents, c) = Contents(Append(old, section), TRUE)
      BY <1>2 DEF With
    <2> HIDE DEF section
    <2> QED BY <2>1, <2>2, AppendKeeps
  <1>3. CASE ~contents.newline /\ old = <<>>
    <2>1. With(contents, c) = Contents(old, TRUE)
      BY <1>3 DEF With
    <2>2. With(contents, c) = Nothing
      BY <1>3, <2>1 DEF Nothing
    <2> QED BY <2>2, NothingFits
  <1>4. CASE ~contents.newline /\ old # <<>>
    <2>1. With(contents, c) = Contents(new, TRUE)
      BY <1>4 DEF With
    <2>2. Len(old) \in DOMAIN old /\ last \in SectionTypes
      BY <1>1, <1>4
    <2>3. /\ [last EXCEPT !.users = @ \cup {c}] \in SectionTypes
          /\ [last EXCEPT !.users = @ \cup {c}].url = last.url
      BY <2>2 DEF SectionTypes
    <2>4. /\ new \in Seq(SectionTypes) /\ DOMAIN new = DOMAIN old
          /\ \A i \in DOMAIN old : new[i].url = old[i].url
      BY <1>1, <2>2, <2>3
    <2>5. NoneTwice(contents) => \A i, j \in DOMAIN old : old[i].url = old[j].url => i = j
      BY DEF NoneTwice
    <2> HIDE DEF new, old
    <2>6. Contents(new, TRUE) \in ContentTypes /\ Contents(new, TRUE).sections = new
      BY <2>4, ContentsFields
    <2> QED BY <2>1, <2>4, <2>5, <2>6 DEF NoneTwice
  <1> QED BY <1>2, <1>3, <1>4

LEMMA TailKeeps ==
  ASSUME NEW contents \in ContentTypes, contents.sections # <<>>
  PROVE  /\ Contents(Tail(contents.sections), TRUE) \in ContentTypes
         /\ NoneTwice(contents) => NoneTwice(Contents(Tail(contents.sections), TRUE))
PROOF
  <1> DEFINE old == contents.sections
             new == Tail(old)
  <1>1. old \in Seq(SectionTypes) /\ old # <<>>
    BY DEF ContentTypes
  <1>2. /\ new \in Seq(SectionTypes)
        /\ DOMAIN new = 1 .. Len(old) - 1 /\ DOMAIN old = 1 .. Len(old) /\ Len(old) \in Nat
        /\ \A i \in 1 .. Len(old) - 1 : new[i] = old[i + 1]
    BY <1>1
  <1>3. Contents(new, TRUE) \in ContentTypes /\ Contents(new, TRUE).sections = new
    BY <1>2, ContentsFields
  <1>4. NoneTwice(contents) => \A i, j \in DOMAIN old : old[i].url = old[j].url => i = j
    BY DEF NoneTwice
  <1> HIDE DEF new, old
  <1>5. ASSUME NoneTwice(contents), NEW i \in DOMAIN new, NEW j \in DOMAIN new,
               new[i].url = new[j].url
        PROVE  i = j
    <2>1. /\ i + 1 \in DOMAIN old /\ j + 1 \in DOMAIN old /\ i \in Nat /\ j \in Nat
          /\ new[i] = old[i + 1] /\ new[j] = old[j + 1]
      BY <1>2
    <2>2. old[i + 1].url = old[j + 1].url
      BY <1>5, <2>1
    <2>3. i + 1 = j + 1
      BY <1>4, <1>5, <2>1, <2>2
    <2> QED BY <2>1, <2>3
  <1> QED BY <1>3, <1>5 DEF new, old, NoneTwice

\* A text written over the file is one, too, and where there is nothing it is all
\* that is there.
LEMMA OverKeeps ==
  ASSUME file \in ContentTypes, NEW text \in ContentTypes, NEW rest \in Rests(text)
  PROVE  /\ Over(text, rest) \in ContentTypes
         /\ file.sections = <<>> => Over(text, rest) = text
PROOF
  <1>1. file.sections \in Seq(SectionTypes) /\ file.newline \in BOOLEAN
        /\ text.sections \in Seq(SectionTypes)
    BY DEF ContentTypes
  <1>2. rest = <<>> \/ \E k \in DOMAIN file.sections :
                         rest = SubSeq(file.sections, k, Len(file.sections))
    BY DEF Rests
  <1>3. file.sections = <<>> => rest = <<>>
    BY <1>2
  <1>4. CASE rest = <<>>
    BY <1>4 DEF Over
  <1>5. CASE rest # <<>>
    <2>1. PICK k \in DOMAIN file.sections :
            rest = SubSeq(file.sections, k, Len(file.sections))
      BY <1>2, <1>5
    <2>2. rest \in Seq(SectionTypes)
      BY <1>1, <2>1
    <2> DEFINE both == text.sections \o rest
    <2>3. both \in Seq(SectionTypes)
      BY <1>1, <2>2
    <2>4. Over(text, rest) = Contents(both, file.newline)
      BY <1>5 DEF Over
    <2> HIDE DEF both
    <2>5. Over(text, rest) \in ContentTypes
      BY <1>1, <2>3, <2>4, ContentsFields
    <2> QED BY <1>3, <1>5, <2>5
  <1> QED BY <1>4, <1>5

-----------------------------------------------------------------------------
(* The initial states, and each action.                                    *)

LEMMA InitHolds == Init => IInv
PROOF
  <1> SUFFICES ASSUME Init PROVE IInv
    OBVIOUS
  <1>1. Idle \in AdderTypes /\ Idle.pc = "idle"
    BY NothingFits DEF Idle, AdderTypes
  <1>2. \A c \in Adders : adder[c] = Idle
    BY DEF Init
  <1>3. Working = {}
    BY <1>1, <1>2 DEF Working
  <1>4. TypeInv
    BY <1>1, <1>3, NothingFits DEF Init, TypeInv
  <1>5. OnceUnlessMixed /\ AloneFits
    BY <1>1, <1>2, <1>3, NothingFits DEF Init, OnceUnlessMixed, TextsFit, AloneFits
  <1> QED BY <1>4, <1>5 DEF IInv

\* Who is at work in the next state, when one call moves.
LEMMA OneMoves ==
  ASSUME TypeInv, NEW c \in Adders, NEW entry \in AdderTypes,
         adder' = [adder EXCEPT ![c] = entry]
  PROVE  /\ adder' \in [Adders -> AdderTypes] /\ adder'[c] = entry
         /\ \A d \in Adders : d # c => adder'[d] = adder[d]
         /\ \A d \in Adders : d # c => (d \in Working' <=> d \in Working)
         /\ c \in Working' <=> entry.pc \notin {"idle", "added"}
         /\ Working' \subseteq Adders /\ Working \subseteq Adders
PROOF
  <1>1. /\ adder' \in [Adders -> AdderTypes] /\ adder'[c] = entry
        /\ \A d \in Adders : d # c => adder'[d] = adder[d]
    BY DEF TypeInv
  <1>2. /\ Working' = {d \in Adders : adder'[d].pc \notin {"idle", "added"}}
        /\ Working = {d \in Adders : adder[d].pc \notin {"idle", "added"}}
    BY DEF Working
  <1> QED BY <1>1, <1>2

LEMMA AddHolds ==
  ASSUME IInv, NEW c \in Adders, NEW url \in Urls, AddAccountToOscrc(c, url)
  PROVE  IInv'
PROOF
  <1> DEFINE entry == [Idle EXCEPT !.pc = "read", !.url = url]
  <1> USE DEF IInv
  <1>1. /\ entry \in AdderTypes /\ entry.pc = "read" /\ entry.url = url
    BY NothingFits DEF Idle, AdderTypes
  <1>2. /\ adder' = [adder EXCEPT ![c] = entry] /\ file' = file /\ mixes' = mixes
        /\ before' = [before EXCEPT ![c] = file]
        /\ overlap' = IF Working = {} THEN overlap \ {c} ELSE overlap \cup Working \cup {c}
    BY DEF AddAccountToOscrc
  <1> HIDE DEF entry
  <1>3. /\ adder' \in [Adders -> AdderTypes] /\ adder'[c] = entry
        /\ \A d \in Adders : d # c => adder'[d] = adder[d]
        /\ \A d \in Adders : d # c => (d \in Working' <=> d \in Working)
        /\ c \in Working' <=> entry.pc \notin {"idle", "added"}
        /\ Working' \subseteq Adders /\ Working \subseteq Adders
    BY <1>1, <1>2, OneMoves
  <1>4. /\ before' \in [Adders -> ContentTypes] /\ before'[c] = file
        /\ \A d \in Adders : d # c => before'[d] = before[d]
    BY <1>2 DEF TypeInv
  <1>5. TypeInv'
    BY <1>1, <1>2, <1>3, <1>4 DEF TypeInv
  <1>6. OnceUnlessMixed'
    BY <1>1, <1>2, <1>3 DEF OnceUnlessMixed, NoneTwice, TextsFit
  <1>7. \A d, e \in Working' : d # e => d \in overlap'
    BY <1>1, <1>2, <1>3
  <1>8. ASSUME NEW d \in Adders \ overlap'
        PROVE  /\ adder'[d].pc = "read" => file' = before'[d]
               /\ adder'[d].pc \in {"open", "write"} => adder'[d].text = With(before[d], d)'
               /\ adder'[d].pc = "write" => file'.sections = <<>>
    <2>1. CASE d = c
      BY <1>1, <1>2, <1>3, <1>4, <2>1
    <2>2. CASE d # c
      <3>1. d \notin Working
        BY <1>2, <2>2
      <3> QED BY <1>3, <2>2, <3>1 DEF Working
    <2> QED BY <2>1, <2>2
  <1>9. AloneFits'
    BY <1>7, <1>8 DEF AloneFits
  <1> QED BY <1>5, <1>6, <1>9

LEMMA ReadHolds ==
  ASSUME IInv, NEW c \in Adders, ReadOsrc(c)
  PROVE  IInv'
PROOF
  <1> USE DEF IInv
  <1>0. PICK unreadable \in BOOLEAN :
          LET read == IF unreadable THEN Nothing ELSE file IN
          /\ overlap' = IF unreadable THEN overlap \cup {c} ELSE overlap
          /\ adder' = [adder EXCEPT ![c] =
                         IF Present(read, adder[c].url) THEN Idle
                         ELSE [@ EXCEPT !.pc = "open", !.text = With(read, c)]]
    BY DEF ReadOsrc
  <1> DEFINE read == IF unreadable THEN Nothing ELSE file
             opened == [adder[c] EXCEPT !.pc = "open", !.text = With(read, c)]
             entry == IF Present(read, adder[c].url) THEN Idle ELSE opened
  <1>1. adder[c].pc = "read" /\ file' = file /\ before' = before /\ adder[c] \in AdderTypes
        /\ mixes' = mixes /\ c \in Working /\ adder[c].url \in Urls
    BY DEF ReadOsrc, TypeInv, Working
  <1>2. adder' = [adder EXCEPT ![c] = entry]
    BY <1>0, <1>1 DEF TypeInv
  <1>3. overlap' = IF unreadable THEN overlap \cup {c} ELSE overlap
    BY <1>0
  <1>4. read \in ContentTypes /\ (mixes = 0 => NoneTwice(read))
    BY NothingFits DEF TypeInv, OnceUnlessMixed
  <1>5. /\ With(read, c) \in ContentTypes
        /\ ~Present(read, adder[c].url) /\ mixes = 0 => NoneTwice(With(read, c))
    <2> HIDE DEF read
    <2> QED BY <1>1, <1>4, WithKeeps
  <1>6. /\ Idle \in AdderTypes /\ Idle.pc = "idle"
    BY NothingFits DEF Idle, AdderTypes
  <1>7. ASSUME ~Present(read, adder[c].url)
        PROVE  /\ opened \in AdderTypes /\ opened.pc = "open" /\ opened.url = adder[c].url
               /\ opened.text = With(read, c)
    <2> HIDE DEF read
    <2> QED BY <1>1, <1>5, <1>7 DEF AdderTypes
  <1>8. /\ entry \in AdderTypes
        /\ \/ entry = Idle
           \/ entry.pc = "open" /\ entry.url = adder[c].url /\ entry.text = With(read, c)
              /\ (mixes = 0 => NoneTwice(entry.text))
    <2> HIDE DEF read, opened
    <2> QED BY <1>5, <1>6, <1>7
  <1>9. ~unreadable => read = file
    OBVIOUS
  <1> HIDE DEF entry, opened, read
  <1>10. /\ adder' \in [Adders -> AdderTypes] /\ adder'[c] = entry
         /\ \A d \in Adders : d # c => adder'[d] = adder[d]
         /\ \A d \in Adders : d # c => (d \in Working' <=> d \in Working)
         /\ c \in Working' <=> entry.pc \notin {"idle", "added"}
         /\ Working' \subseteq Adders /\ Working \subseteq Adders
    BY <1>2, <1>8, OneMoves
  <1>11. TypeInv'
    BY <1>1, <1>3, <1>6, <1>8, <1>10 DEF TypeInv
  <1>12. OnceUnlessMixed'
    BY <1>1, <1>6, <1>8, <1>10 DEF OnceUnlessMixed, NoneTwice, TextsFit
  <1>13. \A d, e \in Working' : d # e => d \in overlap'
    BY <1>1, <1>3, <1>10 DEF AloneFits
  <1>14. ASSUME NEW d \in Adders \ overlap'
         PROVE  /\ adder'[d].pc = "read" => file' = before'[d]
                /\ adder'[d].pc \in {"open", "write"} => adder'[d].text = With(before[d], d)'
                /\ adder'[d].pc = "write" => file'.sections = <<>>
    <2>0. d \notin overlap
      BY <1>3
    <2>1. CASE d = c
      <3>1. CASE entry = Idle
        BY <1>6, <1>10, <2>1, <3>1
      <3>2. CASE entry # Idle
        <4>1. entry.pc = "open" /\ entry.text = With(before[c], c) /\ entry.url = adder[c].url
          BY <1>1, <1>3, <1>8, <1>9, <2>0, <2>1, <3>2 DEF AloneFits
        <4>2. With(before[c], c)' = With(before[c], c)
          BY <1>1, <1>10, <4>1 DEF With
        <4> QED BY <1>10, <2>1, <4>1, <4>2
      <3> QED BY <3>1, <3>2
    <2>2. CASE d # c
      <3>1. With(before[d], d)' = With(before[d], d)
        BY <1>1, <1>10, <2>2 DEF With
      <3> QED BY <1>1, <1>10, <2>0, <2>2, <3>1 DEF AloneFits
    <2> QED BY <2>1, <2>2
  <1>15. AloneFits'
    BY <1>13, <1>14 DEF AloneFits
  <1> QED BY <1>11, <1>12, <1>15

LEMMA OpenHolds ==
  ASSUME IInv, NEW c \in Adders, OpenOscrc(c)
  PROVE  IInv'
PROOF
  <1> DEFINE entry == [adder[c] EXCEPT !.pc = "write"]
  <1> USE DEF IInv
  <1>1. /\ adder[c].pc = "open" /\ adder[c] \in AdderTypes /\ c \in Working
        /\ adder[c].url \in Urls
    BY DEF OpenOscrc, TypeInv, Working
  <1>2. /\ entry \in AdderTypes /\ entry.pc = "write" /\ entry.url = adder[c].url
        /\ entry.text = adder[c].text
    BY <1>1 DEF AdderTypes
  <1>3. /\ adder' = [adder EXCEPT ![c] = entry] /\ file' = Nothing
        /\ before' = before /\ overlap' = overlap /\ mixes' = mixes
    BY DEF OpenOscrc
  <1> HIDE DEF entry
  <1>4. /\ adder' \in [Adders -> AdderTypes] /\ adder'[c] = entry
        /\ \A d \in Adders : d # c => adder'[d] = adder[d]
        /\ \A d \in Adders : d # c => (d \in Working' <=> d \in Working)
        /\ c \in Working' <=> entry.pc \notin {"idle", "added"}
        /\ Working' \subseteq Adders /\ Working \subseteq Adders
    BY <1>2, <1>3, OneMoves
  <1>5. TypeInv'
    BY <1>1, <1>2, <1>3, <1>4, NothingFits DEF TypeInv
  <1>6. OnceUnlessMixed'
    BY <1>1, <1>2, <1>3, <1>4, NothingFits DEF OnceUnlessMixed, NoneTwice, TextsFit
  <1>8. \A d, e \in Working' : d # e => d \in overlap'
    BY <1>1, <1>3, <1>4 DEF AloneFits
  <1>9. ASSUME NEW d \in Adders \ overlap'
        PROVE  /\ adder'[d].pc = "read" => file' = before'[d]
               /\ adder'[d].pc \in {"open", "write"} => adder'[d].text = With(before[d], d)'
               /\ adder'[d].pc = "write" => file'.sections = <<>>
    <2>1. With(before[d], d)' = With(before[d], d)
      BY <1>2, <1>3, <1>4 DEF With
    <2>2. adder[d].pc \in {"open", "write"} => adder[d].text = With(before[d], d)
      BY <1>3 DEF AloneFits
    <2>3. CASE d = c
      BY <1>1, <1>2, <1>3, <1>4, <2>1, <2>2, <2>3, NothingFits
    <2>4. CASE d # c
      <3>1. d \notin Working
        BY <1>1, <1>3, <2>4 DEF AloneFits
      <3> QED BY <1>4, <2>4, <3>1 DEF Working
    <2> QED BY <2>3, <2>4
  <1>10. AloneFits'
    BY <1>8, <1>9 DEF AloneFits
  <1> QED BY <1>5, <1>6, <1>10

LEMMA WriteHolds ==
  ASSUME IInv, NEW c \in Adders, WriteOscrc(c)
  PROVE  IInv'
PROOF
  <1> DEFINE entry == [Idle EXCEPT !.pc = "added"]
  <1> USE DEF IInv
  <1>1. /\ adder[c].pc = "write" /\ adder[c] \in AdderTypes /\ c \in Working
        /\ adder[c].text \in ContentTypes /\ file \in ContentTypes
    BY DEF WriteOscrc, TypeInv, Working, AdderTypes
  <1>2. entry \in AdderTypes /\ entry.pc = "added"
    BY NothingFits DEF Idle, AdderTypes
  <1>3. /\ adder' = [adder EXCEPT ![c] = entry]
        /\ before' = [before EXCEPT ![c] = Nothing] /\ overlap' = overlap \ {c}
        /\ \/ file.sections = <<>> /\ mixes' = mixes
           \/ mixes' = mixes + 1
    BY DEF WriteOscrc
  <1> HIDE DEF entry
  <1>4. /\ adder' \in [Adders -> AdderTypes] /\ adder'[c] = entry
        /\ \A d \in Adders : d # c => adder'[d] = adder[d]
        /\ \A d \in Adders : d # c => (d \in Working' <=> d \in Working)
        /\ c \in Working' <=> entry.pc \notin {"idle", "added"}
        /\ Working' \subseteq Adders /\ Working \subseteq Adders
    BY <1>2, <1>3, OneMoves
  <1>5. /\ file' \in ContentTypes
        /\ file.sections = <<>> => file' = adder[c].text
    BY <1>1, OverKeeps DEF WriteOscrc
  <1>6. before' \in [Adders -> ContentTypes] /\ mixes' \in Nat
    BY <1>3, NothingFits DEF TypeInv
  <1>7. TypeInv'
    BY <1>2, <1>3, <1>4, <1>5, <1>6 DEF TypeInv
  <1>8. OnceUnlessMixed'
    <2> SUFFICES ASSUME mixes' = 0
                 PROVE  NoneTwice(file)' /\ TextsFit'
      BY DEF OnceUnlessMixed
    <2>1. mixes = 0 /\ file' = adder[c].text
      BY <1>3, <1>5 DEF TypeInv
    <2>2. NoneTwice(adder[c].text)
      BY <1>1, <2>1 DEF OnceUnlessMixed, TextsFit
    <2> QED BY <1>2, <1>4, <2>1, <2>2 DEF OnceUnlessMixed, NoneTwice, TextsFit
  <1>9. \A d, e \in Working' : d # e => d \in overlap'
    BY <1>1, <1>2, <1>3, <1>4 DEF AloneFits
  <1>10. ASSUME NEW d \in Adders \ overlap'
         PROVE  adder'[d].pc \notin {"read", "open", "write"}
    <2>1. CASE d = c
      BY <1>2, <1>4, <2>1
    <2>2. CASE d # c
      <3>1. d \notin Working
        BY <1>1, <1>3, <2>2 DEF AloneFits
      <3> QED BY <1>4, <2>2, <3>1 DEF Working
    <2> QED BY <2>1, <2>2
  <1>11. AloneFits'
    BY <1>9, <1>10 DEF AloneFits
  <1> QED BY <1>7, <1>8, <1>11

\* Others append a section that the file has not, or take the first one away.
LEMMA EditKeeps ==
  ASSUME IInv, Edit
  PROVE  file' \in ContentTypes /\ (NoneTwice(file) => NoneTwice(file'))
PROOF
  <1> USE DEF IInv
  <1>1. file \in ContentTypes
    BY DEF TypeInv
  <1>2. CASE \E url \in Urls, slash, newline \in BOOLEAN :
               /\ ~Present(file, url)
               /\ file' = Contents(Append(file.sections, Section(url, slash, {"osc"})), newline)
    <2>1. PICK url \in Urls, slash \in BOOLEAN, newline \in BOOLEAN :
            /\ ~Present(file, url)
            /\ file' = Contents(Append(file.sections, Section(url, slash, {"osc"})), newline)
      BY <1>2
    <2> DEFINE section == Section(url, slash, {"osc"})
    <2>2. section \in SectionTypes /\ section.url = url
      BY SectionFields
    <2>3. file' = Contents(Append(file.sections, section), newline)
      BY <2>1
    <2> HIDE DEF section
    <2> QED BY <1>1, <2>1, <2>2, <2>3, AppendKeeps
  <1>3. CASE file.sections # <<>> /\ file' = Contents(Tail(file.sections), TRUE)
    BY <1>1, <1>3, TailKeeps
  <1> QED BY <1>2, <1>3 DEF Edit

LEMMA EditHolds ==
  ASSUME IInv, Edit
  PROVE  IInv'
PROOF
  <1> USE DEF IInv
  <1>1. /\ adder' = adder /\ before' = before /\ overlap' = overlap \cup Working
        /\ mixes' = mixes
    BY DEF Edit
  <1>2. /\ Working' = Working /\ Working \subseteq Adders
        /\ \A d \in Adders : d \in Working <=> adder[d].pc \notin {"idle", "added"}
    BY <1>1 DEF Working
  <1>3. TypeInv'
    BY <1>1, <1>2, EditKeeps DEF TypeInv
  <1>4. OnceUnlessMixed'
    BY <1>1, EditKeeps DEF OnceUnlessMixed, TextsFit, NoneTwice
  <1>6. ASSUME NEW d \in Adders \ overlap'
        PROVE  adder'[d].pc \notin {"read", "open", "write"}
    BY <1>1, <1>2
  <1>7. AloneFits'
    BY <1>1, <1>2, <1>6 DEF AloneFits
  <1> QED BY <1>3, <1>4, <1>7

LEMMA CrashHolds ==
  ASSUME IInv, CrashOfAdders
  PROVE  IInv'
PROOF
  <1> USE DEF IInv
  <1>1. Idle \in AdderTypes /\ Idle.pc = "idle"
    BY NothingFits DEF Idle, AdderTypes
  <1>2. /\ \A d \in Adders : adder'[d] = Idle
        /\ adder' \in [Adders -> AdderTypes]
        /\ file' = file /\ before' \in [Adders -> ContentTypes] /\ overlap' = {}
        /\ mixes' = mixes
    BY <1>1, NothingFits DEF CrashOfAdders
  <1>3. Working' = {}
    BY <1>1, <1>2 DEF Working
  <1>4. TypeInv'
    BY <1>2, <1>3 DEF TypeInv
  <1>5. OnceUnlessMixed' /\ AloneFits'
    BY <1>1, <1>2, <1>3 DEF OnceUnlessMixed, NoneTwice, TextsFit, AloneFits
  <1> QED BY <1>4, <1>5

LEMMA NextHolds == IInv /\ [Next]_vars => IInv'
PROOF
  <1> SUFFICES ASSUME IInv, [Next]_vars PROVE IInv'
    OBVIOUS
  <1>1. ASSUME NEW c \in Adders, NEW url \in Urls, AddAccountToOscrc(c, url) PROVE IInv'
    BY <1>1, AddHolds
  <1>2. ASSUME NEW c \in Adders, ReadOsrc(c) PROVE IInv'
    BY <1>2, ReadHolds
  <1>3. ASSUME NEW c \in Adders, OpenOscrc(c) PROVE IInv'
    BY <1>3, OpenHolds
  <1>4. ASSUME NEW c \in Adders, WriteOscrc(c) PROVE IInv'
    BY <1>4, WriteHolds
  <1>5. CASE Edit
    BY <1>5, EditHolds
  <1>6. CASE CrashOfAdders
    BY <1>6, CrashHolds
  <1>7. CASE UNCHANGED vars
    BY <1>7 DEF vars, IInv, TypeInv, OnceUnlessMixed, NoneTwice, TextsFit, AloneFits, Working, With
  <1> QED BY <1>1, <1>2, <1>3, <1>4, <1>5, <1>6, <1>7 DEF Next

\* The invariant holds in every reachable state: until a call has written over what
\* others wrote, the file and what the calls are about to write name no URL twice;
\* the text of a call that has met nobody is the file it began with and its
\* account, and it writes that into a file that it has emptied itself.
THEOREM Invariance == Spec => []IInv
PROOF
  <1> QED BY InitHolds, NextHolds, PTL DEF Spec

-----------------------------------------------------------------------------

\* However many calls of addAccountToOscrc() overlap with each other and with osc,
\* readAccountsFromOscrc() finds no two accounts for one URL, unless a call has
\* written over what was written after it had opened the file.
THEOREM OneAccount == Spec => []OneAccountPerUrl
PROOF
  <1>1. IInv => OneAccountPerUrl
    BY DEF IInv, OnceUnlessMixed, NoneTwice, OneAccountPerUrl
  <1> QED BY <1>1, Invariance, PTL

\* addAccountToOscrc() on its own keeps every account that was in the file and
\* appends its own.
THEOREM AccountsAreKept == Spec => NoAccountIsLost
PROOF
  <1> DEFINE Kept ==
        \A c \in Adders \ overlap :
          adder[c].pc = "write" /\ adder'[c].pc = "added" /\ before[c].newline
            => file'.sections = Append(before[c].sections, Section(adder[c].url, TRUE, {c}))
  <1>1. IInv /\ [Next]_vars => [Kept]_vars
    <2> SUFFICES ASSUME IInv, Next,
                        NEW c \in Adders \ overlap,
                        adder[c].pc = "write", adder'[c].pc = "added", before[c].newline
                 PROVE  file'.sections = Append(before[c].sections, Section(adder[c].url, TRUE, {c}))
      BY DEF Kept
    <2>1. /\ adder \in [Adders -> AdderTypes] /\ adder[c].text = With(before[c], c)
          /\ Idle.pc = "idle" /\ file.sections = <<>>
      BY DEF IInv, TypeInv, AloneFits, Idle
    <2>2. ASSUME NEW d \in Adders, NEW url \in Urls, AddAccountToOscrc(d, url) PROVE FALSE
      <3>1. d # c
        BY <2>2 DEF AddAccountToOscrc
      <3> QED BY <2>1, <2>2, <3>1 DEF AddAccountToOscrc
    <2>3. ASSUME NEW d \in Adders, ReadOsrc(d) PROVE FALSE
      <3>1. d # c
        BY <2>3 DEF ReadOsrc
      <3> QED BY <2>1, <2>3, <3>1 DEF ReadOsrc
    <2>4. ASSUME NEW d \in Adders, OpenOscrc(d) PROVE FALSE
      <3>1. d # c
        BY <2>4 DEF OpenOscrc
      <3> QED BY <2>1, <2>4, <3>1 DEF OpenOscrc
    <2>5. ~Edit /\ ~CrashOfAdders
      BY <2>1 DEF Edit, CrashOfAdders
    <2>6. PICK d \in Adders : WriteOscrc(d)
      BY <2>2, <2>3, <2>4, <2>5 DEF Next
    <2>7. d = c
      BY <2>1, <2>6 DEF WriteOscrc
    <2>8. file' = With(before[c], c)
      <3>1. adder[c].text \in ContentTypes /\ file \in ContentTypes
        BY <2>1 DEF IInv, TypeInv, AdderTypes
      <3> QED BY <2>1, <2>6, <2>7, <3>1, OverKeeps DEF WriteOscrc
    <2>9. With(before[c], c)
            = Contents(Append(before[c].sections, Section(adder[c].url, TRUE, {c})), TRUE)
      BY DEF With
    <2> QED BY <2>8, <2>9, ContentsFields
  <1>2. Spec => [][Kept]_vars
    BY <1>1, Invariance, PTL DEF Spec
  <1> QED BY <1>2 DEF NoAccountIsLost

=============================================================================
