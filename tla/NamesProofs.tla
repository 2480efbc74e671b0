---------------------------- MODULE NamesProofs ----------------------------
(***************************************************************************)
(* The properties of Names for texts of any length.                        *)
(***************************************************************************)
EXTENDS NamesLaws, FiniteSetTheorems

IsText == text \in Texts

LEMMA TextsStay == Spec => []IsText
<1>1. Init => IsText
  BY NamesAssumption DEF Init, IsText
<1>2. IsText /\ [Next]_vars => IsText'
  <2>1. SUFFICES ASSUME text \in Texts, [Next]_vars PROVE text' \in Texts
    BY DEF IsText
  <2>2. ASSUME NEW c \in Chars, Type(c) PROVE text' \in Texts
    BY <2>1, <2>2, AppendProperties DEF Type, Texts, Letters
  <2>3. CASE StartOver
    BY <2>3, NamesAssumption DEF StartOver
  <2>4. CASE UNCHANGED vars
    BY <2>1, <2>4 DEF vars
  <2>5. QED BY <2>1, <2>2, <2>3, <2>4 DEF Next
<1>3. QED BY <1>1, <1>2, PTL DEF Spec

-----------------------------------------------------------------------------
(* The allowlist.                                                          *)

ContentLines(lines) == {i \in DOMAIN lines : Content(lines[i])}

OneToOne(devices) ==
    \A i, j \in DOMAIN devices :
        \/ devices[i].host = devices[j].host
        \/ devices[i].serial = devices[j].serial
        => i = j

Canonical(devices) ==
    \A i \in DOMAIN devices :
        /\ NormalizeSerial(devices[i].host) = devices[i].host
        /\ NormalizeSerial(devices[i].serial) = devices[i].serial

ListInv(lines) ==
    ReadLines(lines) # Error =>
        /\ IsFiniteSet(ContentLines(lines))
        /\ Len(ReadLines(lines)) = Cardinality(ContentLines(lines))
        /\ OneToOne(ReadLines(lines))
        /\ Canonical(ReadLines(lines))

LEMMA ContentAppend ==
    ASSUME NEW lines \in Seq(Texts), NEW line \in Texts
    PROVE  ContentLines(Append(lines, line)) =
             IF Content(line) THEN ContentLines(lines) \cup {Len(lines) + 1}
             ELSE ContentLines(lines)
<1> DEFINE n == Len(lines)
           more == Append(lines, line)
<1>1. n \in Nat /\ DOMAIN lines = 1..n
  BY LenProperties
<1>2. /\ DOMAIN more = 1..n + 1 /\ more[n + 1] = line
      /\ \A i \in 1..n : more[i] = lines[i]
  <2>1. more \in Seq(Texts) /\ Len(more) = n + 1 /\ more[n + 1] = line
    BY AppendProperties
  <2>2. \A i \in 1..n : more[i] = lines[i]
    BY AppendProperties
  <2> HIDE DEF more
  <2>3. QED BY <2>1, <2>2, LenProperties
<1> HIDE DEF n, more
<1>3. \A i \in 1..n + 1 : i = n + 1 \/ i \in 1..n
  BY <1>1
<1>4. \A i \in 1..n : i \in 1..n + 1 /\ i # n + 1
  BY <1>1
<1>5. n + 1 \in 1..n + 1
  BY <1>1
<1>6. ContentLines(more) = IF Content(line) THEN ContentLines(lines) \cup {n + 1}
                           ELSE ContentLines(lines)
  BY <1>1, <1>2, <1>3, <1>4, <1>5 DEF ContentLines
<1>7. QED BY <1>6 DEF n, more

LEMMA AppendOneToOne ==
    ASSUME NEW devices \in Seq(Devices), OneToOne(devices), Canonical(devices),
           NEW d \in Devices, ~ Listed(devices, d.host, d.serial),
           NormalizeSerial(d.host) = d.host, NormalizeSerial(d.serial) = d.serial
    PROVE  OneToOne(Append(devices, d)) /\ Canonical(Append(devices, d))
<1> DEFINE n == Len(devices)
           more == Append(devices, d)
<1>1. n \in Nat /\ DOMAIN devices = 1..n
  BY LenProperties
<1>2. /\ DOMAIN more = 1..n + 1 /\ more[n + 1] = d
      /\ \A i \in 1..n : more[i] = devices[i]
  <2>1. more \in Seq(Devices) /\ Len(more) = n + 1 /\ more[n + 1] = d
    BY AppendProperties
  <2>2. \A i \in 1..n : more[i] = devices[i]
    BY AppendProperties
  <2> HIDE DEF more
  <2>3. QED BY <2>1, <2>2, LenProperties
<1> HIDE DEF n, more
<1>3. \A i \in 1..n + 1 : i = n + 1 \/ i \in 1..n
  BY <1>1
<1>4. \A i \in 1..n : devices[i].host # d.host /\ devices[i].serial # d.serial
  BY <1>1 DEF Listed
<1>5. OneToOne(more)
  <2>1. ASSUME NEW i \in 1..n + 1, NEW j \in 1..n + 1,
               more[i].host = more[j].host \/ more[i].serial = more[j].serial
        PROVE  i = j
    <3>1. CASE i = n + 1 /\ j = n + 1
      BY <3>1
    <3>2. CASE i = n + 1 /\ j \in 1..n
      BY <1>2, <1>4, <2>1, <3>2
    <3>3. CASE i \in 1..n /\ j = n + 1
      BY <1>2, <1>4, <2>1, <3>3
    <3>4. CASE i \in 1..n /\ j \in 1..n
      BY <1>1, <1>2, <2>1, <3>4 DEF OneToOne
    <3>5. QED BY <1>3, <3>1, <3>2, <3>3, <3>4
  <2>2. QED BY <1>2, <2>1 DEF OneToOne
<1>6. Canonical(more)
  BY <1>1, <1>2, <1>3 DEF Canonical
<1>7. QED BY <1>5, <1>6 DEF more

LEMMA ListStep ==
    ASSUME NEW lines \in Seq(Texts), NEW line \in Texts, ListInv(lines)
    PROVE  ListInv(Append(lines, line))
<1> DEFINE old == ReadLines(lines)
           new == ReadLines(Append(lines, line))
           host == NormalizeSerial(Columns(line)[1])
           serial == NormalizeSerial(Columns(line)[2])
           d == [host |-> host, serial |-> serial]
<1>1. old \in Seq(Devices) \cup {Error} /\ new = AddLine(old, line)
  BY ReadLinesType, ReadLinesAppend
<1>2. SUFFICES ASSUME new # Error
               PROVE  /\ IsFiniteSet(ContentLines(Append(lines, line)))
                      /\ Len(new) = Cardinality(ContentLines(Append(lines, line)))
                      /\ OneToOne(new) /\ Canonical(new)
  BY DEF ListInv
<1>3. old # Error
  BY <1>1, <1>2 DEF AddLine
<1>4. /\ IsFiniteSet(ContentLines(lines)) /\ Len(old) = Cardinality(ContentLines(lines))
      /\ OneToOne(old) /\ Canonical(old) /\ old \in Seq(Devices)
  BY <1>1, <1>3 DEF ListInv
<1>5. CASE ~ Content(line) /\ new = old
  BY <1>4, <1>5, ContentAppend
<1>6. CASE /\ Content(line) /\ Len(Columns(line)) >= 2
           /\ host # Error /\ serial # Error /\ ~ Listed(old, host, serial)
           /\ new = Append(old, d)
  <2>1. Columns(line)[1] \in Texts /\ Columns(line)[2] \in Texts
    BY <1>6, ColumnsType
  <2>2. /\ host \in Texts /\ NormalizeSerial(host) = host
        /\ serial \in Texts /\ NormalizeSerial(serial) = serial
    BY <1>6, <2>1, NormalizeSerialLaws
  <2> HIDE DEF host, serial
  <2>3. d \in Devices /\ d.host = host /\ d.serial = serial
    BY <2>2 DEF Devices
  <2> HIDE DEF d, old, new
  <2>4. OneToOne(new) /\ Canonical(new)
    BY <1>4, <1>6, <2>2, <2>3, AppendOneToOne
  <2>5. Len(new) = Len(old) + 1
    BY <1>4, <1>6, <2>3, AppendProperties
  <2> DEFINE S == ContentLines(lines)
             x == Len(lines) + 1
  <2>6. x \notin S
    <3>1. Len(lines) \in Nat /\ DOMAIN lines = 1..Len(lines)
      BY LenProperties
    <3>2. QED BY <3>1 DEF ContentLines
  <2>7. ContentLines(Append(lines, line)) = S \cup {x}
    BY <1>6, ContentAppend
  <2> HIDE DEF S, x
  <2>8. IsFiniteSet(S \cup {x}) /\ Cardinality(S \cup {x}) = Cardinality(S) + 1
    BY <1>4, <2>6, FS_AddElement DEF S
  <2>9. QED BY <1>4, <2>4, <2>5, <2>7, <2>8 DEF S
<1>7. QED BY <1>1, <1>2, <1>3, <1>5, <1>6, AddLineCases

LEMMA ListAlways == \A lines \in Seq(Texts) : ListInv(lines)
<1> DEFINE S == {lines \in Seq(Texts) : ListInv(lines)}
<1>1. <<>> \in S
  <2>1. ReadLines(<<>>) = <<>> /\ <<>> \in Seq(Texts) /\ Len(<<>>) = 0
    BY ReadLinesEmpty, EmptySeq
  <2>2. DOMAIN <<>> = {}
    BY <2>1, LenProperties
  <2>3. ContentLines(<<>>) = {}
    BY <2>2 DEF ContentLines
  <2>4. QED BY <2>1, <2>2, <2>3, FS_EmptySet DEF ListInv, OneToOne, Canonical
<1>2. ASSUME NEW s \in Seq(Texts), NEW c \in Texts, s \in S
      PROVE  Append(s, c) \in S
  BY <1>2, ListStep, AppendProperties
<1> HIDE DEF S
<1>3. \A s \in Seq(Texts) : s \in S
  BY <1>1, <1>2, TextInduction
<1>4. QED BY <1>3 DEF S

(* An allowlist that is accepted, of any length, has one device per line,  *)
(* none of whose names comes twice.                                        *)
THEOREM ListOneToOne == Spec => []ListIsOneToOne
<1>1. IsText => ListIsOneToOne
  <2>1. SUFFICES ASSUME text \in Texts PROVE ListIsOneToOne
    BY DEF IsText
  <2>2. Lines(text) \in Seq(Texts) /\ ListInv(Lines(text))
    BY <2>1, SplitType, ListAlways DEF Lines, Texts
  <2>3. ParseList(text) = ReadLines(Lines(text))
    BY DEF ParseList, ReadLines
  <2>4. QED BY <2>2, <2>3 DEF ListInv, ListIsOneToOne, ContentLines, OneToOne, Canonical
<1>2. QED BY <1>1, TextsStay, PTL
-----------------------------------------------------------------------------
(* Phrases.                                                                *)

LEMMA ValidPhraseIs ==
    ASSUME NEW p \in Texts, ValidPhrase(p)
    PROVE  Len(p) \in 1..MaxPhraseLen /\ None(p, Space)
<1>1. DOMAIN p = 1..Len(p)
  BY LenProperties
<1>2. \A i \in 1..Len(p) : p[i] \notin Space
  BY <1>1 DEF ValidPhrase, ToSet
<1>3. QED BY <1>2 DEF ValidPhrase, None

(* Where there is no character of the set, nothing is cut off. *)
LEMMA NoneTight ==
    ASSUME NEW X, NEW s \in Seq(X), NEW T, s # <<>>, None(s, T)
    PROVE  Tight(s, T)
<1>1. Len(s) \in Nat /\ Len(s) # 0
  BY LenProperties, EmptySeq
<1>2. 1 \in 1..Len(s) /\ Len(s) \in 1..Len(s)
  BY <1>1
<1>3. QED BY <1>2 DEF None, Tight

LEMMA OneCharacter ==
    ASSUME NEW c \in Letters
    PROVE  <<c>> \in Texts /\ Len(<<c>>) = 1 /\ <<c>>[1] = c
BY DEF Texts

LEMMA PhraseIsReadBack ==
    ASSUME NEW p \in Texts, ValidPhrase(p), NEW a \in Texts, NEW b \in Texts,
           All(a, Space), All(b, Space)
    PROVE  ReadSecret(a \o p \o b) = p
<1>1. Len(p) \in 1..MaxPhraseLen /\ None(p, Space)
  BY ValidPhraseIs
<1>2. p # <<>>
  BY <1>1, EmptySeq
<1>3. Tight(p, Space)
  BY <1>1, <1>2, NoneTight DEF Texts
<1>4. QED BY <1>3, TrimIs DEF ReadSecret, Texts

LEMMA PhraseIsOneWord ==
    ASSUME NEW p \in Texts, ValidPhrase(p)
    PROVE  Fields(p) = <<p>>
<1>1. Len(p) \in 1..MaxPhraseLen /\ None(p, Space)
  BY ValidPhraseIs
<1>2. p # <<>>
  BY <1>1, EmptySeq
<1>3. Split(p, Space) = <<p>>
  BY <1>1, SplitNone DEF Texts
<1>4. <<>> \in Seq(Texts) /\ <<p>> = Append(<<>>, p)
  BY EmptySeq
<1>5. Without(Append(<<>>, p), {<<>>}) = WithoutStep(Without(<<>>, {<<>>}), p, {<<>>})
  BY <1>4, WithoutAppend
<1>6. Without(<<>>, {<<>>}) = <<>>
  BY WithoutEmpty
<1>7. Without(<<p>>, {<<>>}) = <<p>>
  BY <1>2, <1>4, <1>5, <1>6 DEF WithoutStep
<1>8. QED BY <1>3, <1>7 DEF Fields

(* A phrase that may be added, of any length, is read back as it is from a *)
(* file with blanks around it, and stays one word.                         *)
THEOREM PhraseAlwaysSurvives == Spec => []PhraseSurvives
<1>1. IsText => PhraseSurvives
  <2>1. SUFFICES ASSUME text \in Texts, ValidPhrase(text) PROVE PhraseSurvives
    BY DEF IsText, PhraseSurvives
  <2>2. <<" ">> \in Texts /\ All(<<" ">>, Space)
    <3>1. " " \in Space /\ " " \in Letters
      BY DEF Letters, Space, Blank
    <3> DEFINE q == <<" ">>
    <3>2. Len(q) = 1 /\ q[1] = " " /\ q \in Texts
      BY <3>1, OneCharacter
    <3>3. \A i \in 1..1 : i = 1
      OBVIOUS
    <3> HIDE DEF q
    <3>4. All(q, Space)
      BY <3>1, <3>2, <3>3 DEF All
    <3>5. QED BY <3>2, <3>4 DEF q
  <2>3. <<"cr", "nl">> \in Texts /\ All(<<"cr", "nl">>, Space)
    <3>1. /\ "cr" \in Space /\ "cr" \in Letters
          /\ "nl" \in Space /\ "nl" \in Letters
      BY DEF Letters, Space, Blank
    <3> DEFINE q == <<"cr", "nl">>
    <3>2. Len(q) = 2 /\ q[1] = "cr" /\ q[2] = "nl" /\ q \in Texts
      BY <3>1 DEF Texts
    <3>3. \A i \in 1..2 : i = 1 \/ i = 2
      OBVIOUS
    <3> HIDE DEF q
    <3>4. All(q, Space)
      BY <3>1, <3>2, <3>3 DEF All
    <3>5. QED BY <3>2, <3>4 DEF q
  <2>4. ReadSecret(<<" ">> \o text \o <<"cr", "nl">>) = text
    BY <2>1, <2>2, <2>3, PhraseIsReadBack
  <2>5. Fields(text) = <<text>>
    BY <2>1, PhraseIsOneWord
  <2>6. QED BY <2>4, <2>5 DEF PhraseSurvives
<1>2. QED BY <1>1, TextsStay, PTL
-----------------------------------------------------------------------------
(* The names in a request.                                                 *)

Labels(name) == Split(name, {"."})

LEMMA BelongsByLabel ==
    ASSUME NEW name \in Texts, NEW host \in Texts, Belongs(name, host)
    PROVE  IsPrefix(Labels(host), Labels(name))
<1>1. Labels(host) \in Seq(Texts) /\ Labels(name) \in Seq(Texts)
  BY SplitType DEF Labels, Texts
<1>2. CASE name = host
  <2>1. <<>> \in Seq(Texts) /\ Labels(host) \o <<>> = Labels(host)
    BY <1>1, EmptySeq, ConcatEmptySeq
  <2>2. IsPrefix(Labels(host), Labels(host) \o <<>>)
    BY <1>1, <2>1, ConcatIsPrefix
  <2>3. QED BY <1>2, <2>1, <2>2
<1>3. CASE IsPrefix(Append(host, "."), name)
  <2>1. "." \in Letters /\ host \in Seq(Letters) /\ name \in Seq(Letters)
    BY DEF Texts, Letters
  <2>2. Append(host, ".") \in Seq(Letters)
    BY <2>1, AppendProperties
  <2>3. PICK u \in Seq(Letters) : name = Append(host, ".") \o u
    BY <1>3, <2>1, <2>2, PrefixIsConcat
  <2>4. QED BY <2>1, <2>3, SplitKeepsPrefix DEF Labels
<1>4. QED BY <1>2, <1>3 DEF Belongs

(* Without foreign characters Unicode's upper case is ASCII's. *)
LEMMA ToUpperIs ==
    ASSUME NEW s \in Texts, ToSet(s) \cap Foreign = {}
    PROVE  ToUpper(s) = Upper(s)
<1>1. \A i \in DOMAIN s : s[i] \notin Foreign
  BY LenProperties DEF ToSet, Texts
<1>2. Upper(s) = [i \in DOMAIN s |-> Upper(s)[i]]
  BY DEF Upper
<1> DEFINE u == Upper(s)
<1> HIDE DEF u
<1>3. [i \in DOMAIN s |-> IF s[i] \in Foreign THEN "A" ELSE u[i]] = [i \in DOMAIN s |-> u[i]]
  BY <1>1
<1>4. QED BY <1>2, <1>3 DEF ToUpper, u

(* What is in a request with one SAN extension that has a host.            *)
LEMMA IdentifyOne ==
    ASSUME NEW cn, NEW san, Identify(cn, <<san>>) # Error
    PROVE  LET dns == DnsNames(san)
               host == Identify(cn, <<san>>)
           IN  /\ dns # Error
               /\ host = NormalizeSerial(ClaimedName(cn, dns))
               /\ \A i \in DOMAIN dns : Belongs(ToUpper(dns[i]), host)
<1>1. <<san>> # <<>> /\ Len(<<san>>) = 1 /\ <<san>>[1] = san
  OBVIOUS
<1> DEFINE dns == DnsNames(san)
           host == NormalizeSerial(ClaimedName(cn, dns))
<1>2. Identify(cn, <<san>>) =
        IF 1 > 1 \/ dns = Error \/ host = Error THEN Error
        ELSE IF \A i \in DOMAIN dns : Belongs(ToUpper(dns[i]), host) THEN host ELSE Error
  BY <1>1 DEF Identify
<1> HIDE DEF dns, host
<1>3. /\ dns # Error /\ Identify(cn, <<san>>) = host
      /\ \A i \in DOMAIN dns : Belongs(ToUpper(dns[i]), host)
  BY <1>2
<1>4. QED BY <1>3 DEF dns, host

LEMMA IdentifyTwo ==
    ASSUME NEW cn, NEW san, NEW more
    PROVE  Identify(cn, <<san, more>>) = Error
<1>1. Len(<<san, more>>) > 1
  OBVIOUS
<1>2. QED BY <1>1 DEF Identify

LEMMA IdentifyOther ==
    ASSUME NEW cn, NEW san, NEW i \in DOMAIN san, san[i].tag # "dNSName"
    PROVE  Identify(cn, <<san>>) = Error
<1>1. <<san>> # <<>> /\ Len(<<san>>) = 1 /\ <<san>>[1] = san
  OBVIOUS
<1>2. DnsNames(san) = Error
  BY DEF DnsNames
<1>3. QED BY <1>1, <1>2 DEF Identify

(* The DNS names of the text that stands for a request. *)
SanOf(lines) ==
    [i \in 1..Len(lines) - 1 |-> [tag |-> "dNSName", name |-> lines[i + 1]]]

LEMMA SanIs ==
    ASSUME NEW lines \in Seq(Texts), lines # <<>>
    PROVE  LET san == SanOf(lines)
           IN  /\ DOMAIN san = 1..Len(lines) - 1
               /\ DnsNames(san) = [i \in 1..Len(lines) - 1 |-> san[i].name]
               /\ \A i \in 1..Len(lines) - 1 : san[i].name \in Texts /\ DnsNames(san)[i] = san[i].name
               /\ DnsNames(san) # <<>> => DnsNames(san)[1] \in Texts
               /\ lines[1] \in Texts
<1> DEFINE n == Len(lines) - 1
           san == SanOf(lines)
           dns == DnsNames(san)
<1>1. n \in Nat /\ Len(lines) = n + 1 /\ lines[1] \in Texts
  <2>1. Len(lines) \in Nat /\ Len(lines) # 0
    BY EmptySeq, LenProperties
  <2>2. 1 \in 1..Len(lines)
    BY <2>1
  <2>3. QED BY <2>1, <2>2, ElementOfSeq
<1>2. /\ DOMAIN san = 1..n
      /\ \A i \in 1..n : san[i].tag = "dNSName" /\ san[i].name = lines[i + 1]
  BY DEF SanOf
<1>3. ASSUME NEW i \in 1..n PROVE lines[i + 1] \in Texts
  <2>1. i + 1 \in 1..Len(lines)
    BY <1>1
  <2>2. QED BY <2>1, ElementOfSeq
<1> HIDE DEF n, san
<1>4. dns = [i \in 1..n |-> san[i].name]
  BY <1>2 DEF DnsNames
<1>5. \A i \in 1..n : san[i].name \in Texts /\ dns[i] = san[i].name
  BY <1>2, <1>3, <1>4
<1>6. dns # <<>> => dns[1] \in Texts
  <2>1. n = 0 => 1..n = {}
    BY <1>1
  <2>2. n = 0 => dns = <<>>
    BY <1>4, <2>1
  <2>3. n # 0 => 1 \in 1..n
    BY <1>1
  <2>4. QED BY <1>5, <2>2, <2>3
<1>7. QED BY <1>1, <1>2, <1>4, <1>5, <1>6 DEF n, san

(* Whatever is asked for, the host of a request is the one all its names   *)
(* name, label by label, and no SAN extension or name of another kind is   *)
(* looked past.                                                            *)
THEOREM NamesAlwaysStay == Spec => []NamesStayWithHost
<1>1. IsText => NamesStayWithHost
  <2> DEFINE lines == Lines(text)
             cn == lines[1]
             san == SanOf(lines)
             host == Identify(cn, <<san>>)
             dns == DnsNames(san)
             n == Len(lines) - 1
  <2>1. SUFFICES ASSUME text \in Texts PROVE NamesStayWithHost
    BY DEF IsText
  <2>2. lines \in Seq(Texts) /\ lines # <<>>
    BY <2>1, SplitType DEF Lines, Texts
  <2>3. /\ DOMAIN san = 1..n /\ dns = [i \in 1..n |-> san[i].name]
        /\ \A i \in 1..n : san[i].name \in Texts /\ dns[i] = san[i].name
        /\ dns # <<>> => dns[1] \in Texts
        /\ cn \in Texts
    <3> HIDE DEF lines
    <3>1. QED BY <2>2, SanIs
  <2>4. ASSUME host # Error
        PROVE  /\ Usable(host)
               /\ \A i \in DOMAIN san :
                      ToSet(san[i].name) \cap Foreign = {} =>
                          IsPrefix(Labels(host), Labels(Upper(san[i].name)))
               /\ Trim(cn, Space) # <<>> => host = NormalizeSerial(cn)
    <3> HIDE DEF lines, cn, san
    <3>1. /\ host = NormalizeSerial(ClaimedName(cn, dns))
          /\ \A i \in DOMAIN dns : Belongs(ToUpper(dns[i]), host)
      BY <2>4, IdentifyOne
    <3> HIDE DEF host, dns
    <3>2. ClaimedName(cn, dns) \in Texts
      BY <2>3 DEF ClaimedName
    <3>3. host \in Texts /\ Usable(host)
      BY <2>4, <3>1, <3>2, NormalizeSerialLaws
    <3>4. ASSUME NEW i \in 1..n, ToSet(san[i].name) \cap Foreign = {}
          PROVE  IsPrefix(Labels(host), Labels(Upper(san[i].name)))
      <4>1. Belongs(Upper(san[i].name), host)
        BY <2>3, <3>1, <3>4, ToUpperIs
      <4>2. Upper(san[i].name) \in Texts
        BY <2>3, UpperLaws
      <4>3. QED BY <3>3, <4>1, <4>2, BelongsByLabel
    <3>5. Trim(cn, Space) # <<>> => ClaimedName(cn, dns) = cn
      BY DEF ClaimedName
    <3>6. QED BY <2>3, <3>1, <3>3, <3>4, <3>5
  <2>5. Identify(cn, <<san, <<>>>>) = Error
    BY IdentifyTwo
  <2>6. ASSUME NEW i \in DOMAIN san
        PROVE  Identify(cn, <<[san EXCEPT ![i].tag = "iPAddress"]>>) = Error
    <3> DEFINE other == [san EXCEPT ![i].tag = "iPAddress"]
    <3>1. other[i].tag = "iPAddress" /\ i \in DOMAIN other
      <4>1. san[i] = [tag |-> "dNSName", name |-> lines[i + 1]]
        BY <2>3 DEF SanOf
      <4> HIDE DEF san
      <4>2. other[i] = [san[i] EXCEPT !.tag = "iPAddress"] /\ DOMAIN other = DOMAIN san
        BY <2>6
      <4>3. other[i].tag = "iPAddress"
        BY <4>1, <4>2
      <4>4. QED BY <2>6, <4>2, <4>3
    <3> HIDE DEF other
    <3>2. other[i].tag # "dNSName"
      BY <3>1
    <3>3. QED BY <3>1, <3>2, IdentifyOther DEF other
  <2>7. QED BY <2>4, <2>5, <2>6 DEF NamesStayWithHost, SanOf, Labels
<1>2. QED BY <1>1, TextsStay, PTL
-----------------------------------------------------------------------------
(* The same serial number in the allowlist and on the device.              *)

LEMMA AppendToOne ==
    ASSUME NEW X, NEW o \in Seq(X), Len(o) = 1, NEW d \in X
    PROVE  /\ Append(o, d) \in Seq(X) /\ Len(Append(o, d)) = 2
           /\ Append(o, d)[1] = o[1] /\ Append(o, d)[2] = d
<1>1. Append(o, d)[Len(o) + 1] = d
  BY AppendProperties
<1>2. Append(o, d) \in Seq(X) /\ Len(Append(o, d)) = Len(o) + 1
  BY AppendProperties
<1>3. Append(o, d)[1] = o[1]
  OBVIOUS
<1>4. Len(o) + 1 = 2
  OBVIOUS
<1> DEFINE p == Append(o, d)
<1> HIDE DEF p
<1>5. p[2] = d /\ Len(p) = 2
  BY <1>1, <1>2, <1>4, Zenon DEF p
<1>6. QED BY <1>2, <1>3, <1>5 DEF p

(* A text of two characters. *)
LEMMA TwoCharacters ==
    ASSUME NEW c \in Letters, NEW d \in Letters
    PROVE  /\ <<c, d>> \in Texts /\ <<c, d>> = Append(<<c>>, d)
           /\ Len(<<c, d>>) = 2 /\ <<c, d>>[1] = c /\ <<c, d>>[2] = d
           /\ \A T : None(<<c, d>>, T) <=> c \notin T /\ d \notin T
           /\ \A T : All(<<c, d>>, T) <=> c \in T /\ d \in T
<1> DEFINE q == <<c, d>>
           r == Append(<<c>>, d)
<1>1. q \in Texts /\ Len(q) = 2 /\ q[1] = c /\ q[2] = d
  BY DEF Texts
<1>2. <<c>> \in Texts /\ Len(<<c>>) = 1 /\ <<c>>[1] = c
  BY OneCharacter
<1>3. r \in Texts /\ Len(r) = 2 /\ r[1] = c /\ r[2] = d
  BY <1>2, AppendToOne DEF Texts
<1>4. \A i \in 1..2 : i = 1 \/ i = 2
  OBVIOUS
<1>5. 1 \in 1..2 /\ 2 \in 1..2
  OBVIOUS
<1> HIDE DEF q, r
<1>6. q = r
  <2>1. \A i \in 1..2 : q[i] = r[i]
    BY <1>1, <1>3, <1>4
  <2>2. QED BY <1>1, <1>3, <2>1, SeqEqual DEF Texts
<1>7. ASSUME NEW T PROVE /\ None(q, T) <=> c \notin T /\ d \notin T
                         /\ All(q, T) <=> c \in T /\ d \in T
  BY <1>1, <1>4, <1>5 DEF None, All
<1>8. QED BY <1>1, <1>6, <1>7 DEF q, r

Start == <<"b", ",">>

LEMMA StartIs ==
    /\ Start \in Texts /\ Start # <<>> /\ Start[1] \notin Space
    /\ Tight(Start, Space) /\ None(Start, {"nl"})
    /\ Split(Start, {","}) = Append(<<<<"b">>>>, <<>>)
<1>1. "b" \in Letters /\ "," \in Letters
  BY DEF Letters
<1>2. <<"b">> \in Seq(Letters) /\ Len(<<"b">>) = 1 /\ <<"b">>[1] = "b"
  BY <1>1, OneCharacter DEF Texts
<1>3. "b" \notin Space /\ "," \notin Space /\ "b" \notin {"nl"} /\ "," \notin {"nl"}
      /\ "b" \notin {","} /\ "," \in {","}
  BY DEF Space, Blank
<1>4. /\ Start \in Texts /\ Start = Append(<<"b">>, ",")
      /\ Len(Start) = 2 /\ Start[1] = "b" /\ Start[2] = ","
      /\ None(Start, {"nl"})
  <2>1. /\ Start \in Texts /\ Start = Append(<<"b">>, ",")
        /\ Len(Start) = 2 /\ Start[1] = "b" /\ Start[2] = ","
    BY <1>1, TwoCharacters DEF Start
  <2>2. None(Start, {"nl"}) <=> "b" \notin {"nl"} /\ "," \notin {"nl"}
    BY <1>1, TwoCharacters, Zenon DEF Start
  <2>3. QED BY <1>3, <2>1, <2>2
<1>5. \A i \in 1..1 : i = 1
  OBVIOUS
<1>6. Split(<<"b">>, {","}) = <<<<"b">>>>
  <2> DEFINE q == <<"b">>
  <2>1. q \in Seq(Letters) /\ Len(q) = 1 /\ q[1] = "b"
    BY <1>2
  <2> HIDE DEF q
  <2>2. None(q, {","})
    BY <1>3, <1>5, <2>1 DEF None
  <2>3. Split(q, {","}) = <<q>>
    BY <2>1, <2>2, SplitNone
  <2>4. QED BY <2>3 DEF q
<1>7. Split(Append(<<"b">>, ","), {","}) = SplitStep(Split(<<"b">>, {","}), ",", {","})
  BY <1>1, <1>2, SplitAppend
<1>8. Split(Start, {","}) = Append(<<<<"b">>>>, <<>>)
  BY <1>3, <1>4, <1>6, <1>7 DEF SplitStep
<1>9. Start # <<>>
  <2>1. Len(<<>>) = 0 /\ Len(Start) = 2
    BY <1>4, EmptySeq
  <2>2. QED BY <2>1
<1>10. Tight(Start, Space)
  BY <1>3, <1>4 DEF Tight
<1>11. QED BY <1>3, <1>4, <1>8, <1>9, <1>10

(* The column after the hostname. *)
LEMMA SecondColumn ==
    ASSUME NEW u \in Texts
    PROVE  Append(<<<<"b">>>>, u)[2] = u /\ <<<<"b">>>> \in Seq(Texts)
<1> DEFINE b == <<"b">>
           o == <<b>>
<1>1. b \in Texts
  BY OneCharacter DEF Letters
<1> HIDE DEF b
<1>2. o \in Seq(Texts) /\ Len(o) = 1 /\ 1 + 1 = 2
  BY <1>1
<1> HIDE DEF o
<1>3. Append(o, u)[Len(o) + 1] = u
  BY <1>2, AppendProperties
<1>4. Append(o, u)[2] = u /\ o \in Seq(Texts)
  BY <1>2, <1>3
<1>5. QED BY <1>4 DEF o, b
LEMMA EmptyText ==
    /\ <<>> \in Texts /\ Len(<<>>) = 0 /\ DOMAIN <<>> = {} /\ ToSet(<<>>) = {}
    /\ All(<<>>, Space) /\ Trim(<<>>, Space) = <<>>
<1>1. <<>> \in Seq(Letters) /\ Len(<<>>) = 0
  BY EmptySeq
<1>2. 1..0 = {}
  OBVIOUS
<1>3. DOMAIN <<>> = {}
  BY <1>1, <1>2, LenProperties
<1>4. ToSet(<<>>) = {} /\ All(<<>>, Space) /\ Tight(<<>>, Space)
  BY <1>1, <1>2, <1>3 DEF ToSet, All, Tight
<1>5. Trim(<<>>, Space) = <<>>
  BY <1>1, <1>4, TrimTight
<1>6. QED BY <1>1, <1>3, <1>4, <1>5 DEF Texts

LEMMA OneMember ==
    ASSUME NEW X, NEW x \in X
    PROVE  <<x>> = Append(<<>>, x) /\ <<>> \in Seq(X) /\ ToSet(<<x>>) = {x}
<1>1. <<x>> = Append(<<>>, x) /\ <<>> \in Seq(X)
  BY EmptySeq
<1>2. DOMAIN <<x>> = 1..1 /\ <<x>>[1] = x
  OBVIOUS
<1>3. \A i \in 1..1 : i = 1
  OBVIOUS
<1>4. 1 \in 1..1
  OBVIOUS
<1> DEFINE q == <<x>>
<1> HIDE DEF q
<1>5. ToSet(q) = {x}
  BY <1>2, <1>3, <1>4 DEF ToSet, q
<1>6. QED BY <1>1, <1>5 DEF q

(* A line that begins a host's entry, when its serial number has no comma. *)
LEMMA ColumnsOfLine ==
    ASSUME NEW t \in Texts, None(t, {","})
    PROVE  \/ Trim(t, Space) = <<>> /\ Columns(Start \o t)[2] = <<>>
           \/ /\ Trim(t, Space) # <<>>
              /\ Columns(Start \o t)[2] \in Texts
              /\ Trim(Columns(Start \o t)[2], Space) = Trim(t, Space)
<1> DEFINE m == Trim(t, Space)
           line == Start \o t
<1>1. PICK a \in Texts, b \in Texts :
             /\ t = a \o m \o b
             /\ All(a, Space) /\ All(b, Space)
             /\ m \in Texts /\ Tight(m, Space)
  BY TrimParts DEF Texts
<1>2. <<>> \in Texts /\ All(<<>>, Space)
  BY EmptyText
<1>3. line \in Texts
  BY StartIs, ConcatParts DEF Texts
<1> HIDE DEF m, line
<1>4. CASE m = <<>>
  <2>1. a \o m = a
    BY <1>1, <1>4, ConcatEmptySeq DEF Texts
  <2>2. All(t, Space)
    BY <1>1, <2>1, AllConcat DEF Texts
  <2>3. <<>> \o Start = Start
    BY StartIs, ConcatEmptySeq DEF Texts
  <2>4. Trim(<<>> \o Start \o t, Space) = Start
    BY <1>2, <2>2, StartIs, TrimIs DEF Texts
  <2>5. Columns(line) = Append(<<<<"b">>>>, <<>>)
    BY <2>3, <2>4, StartIs DEF Columns, line
  <2>6. Append(<<<<"b">>>>, <<>>)[2] = <<>>
    BY <1>2, SecondColumn
  <2>7. QED BY <1>4, <2>5, <2>6 DEF m, line
<1>5. CASE m # <<>>
  <2> DEFINE u == a \o m
             front == Start \o u
  <2>1. u \in Texts /\ front \in Texts
    BY <1>1, StartIs, ConcatParts DEF Texts
  <2>2. Trim(u, Space) = m
    <3>1. u \o <<>> = u
      BY <2>1, ConcatEmptySeq DEF Texts
    <3>2. Trim(a \o m \o <<>>, Space) = m
      BY <1>1, <1>2, TrimIs DEF Texts
    <3>3. QED BY <3>1, <3>2
  <2>3. u # <<>> /\ u[Len(u)] = m[Len(m)]
    BY <1>1, <1>5, LastOfConcat DEF Texts
  <2>4. line = front \o b
    <3>1. t = u \o b
      BY <1>1
    <3> HIDE DEF u, front
    <3>2. Start \in Seq(Letters) /\ u \in Seq(Letters) /\ b \in Seq(Letters)
      BY <1>1, <2>1, StartIs DEF Texts
    <3>3. Regroups(Start, u, b)
      BY <3>2, ConcatRegroups
    <3>4. QED BY <3>1, <3>3 DEF Regroups, line, front
  <2>5. None(u, {","})
    <3>1. None(u \o b, {","})
      BY <1>1
    <3> HIDE DEF u
    <3>2. QED BY <1>1, <2>1, <3>1, NoneFront DEF Texts
  <2> HIDE DEF u
  <2>6. Tight(front, Space)
    <3>1. u[Len(u)] \notin Space
      BY <1>1, <1>5, <2>3 DEF Tight
    <3>2. QED BY <2>1, <2>3, <3>1, StartIs, TightConcat DEF Texts
  <2>7. Split(front, {","}) = Append(<<<<"b">>>>, u)
    <3> DEFINE o == <<<<"b">>>>
               T == {","}
    <3>1. o \in Seq(Seq(Letters)) /\ Split(Start, T) = Append(o, <<>>) /\ None(u, T)
      BY <2>1, <2>5, StartIs, SecondColumn DEF Texts
    <3> HIDE DEF o, T, front
    <3>2. Start \in Seq(Letters) /\ u \in Seq(Letters)
      BY <2>1, StartIs DEF Texts
    <3>3. Split(Start \o u, T) = Append(o, u)
      BY <3>1, <3>2, SplitTail
    <3>4. QED BY <3>3 DEF o, T, front
  <2> HIDE DEF front
  <2>8. Trim(line, Space) = front
    <3>1. <<>> \o front = front
      BY <2>1, ConcatEmptySeq DEF Texts
    <3>2. Trim(<<>> \o front \o b, Space) = front
      BY <1>1, <1>2, <2>1, <2>6, TrimIs DEF Texts
    <3>3. QED BY <2>4, <3>1, <3>2
  <2>9. Columns(line)[2] = u
    BY <2>1, <2>7, <2>8, SecondColumn DEF Columns
  <2>10. QED BY <1>5, <2>1, <2>2, <2>9 DEF m, line
<1>6. QED BY <1>4, <1>5

(* The one device of a list with one line. *)
LEMMA DeviceOfLine ==
    ASSUME NEW t \in Texts, None(t, {","}), None(t, {"nl"}),
           ParseList(Start \o t) # Error, NEW d \in ToSet(ParseList(Start \o t))
    PROVE  /\ d.serial = Upper(Trim(t, Space)) /\ Usable(Trim(t, Space))
           /\ d.serial \in Texts /\ d.serial # <<>>
           /\ NormalizeSerial(d.serial) = d.serial
<1> DEFINE line == Start \o t
           new == AddLine(<<>>, line)
           host == NormalizeSerial(Columns(line)[1])
           serial == NormalizeSerial(Columns(line)[2])
           device == [host |-> host, serial |-> serial]
<1>1. line \in Texts /\ None(line, {"nl"})
  BY StartIs, ConcatParts, NoneConcat DEF Texts
<1>2. ParseList(line) = new
  <2>1. Lines(line) = <<line>>
    BY <1>1, SplitNone DEF Lines, Texts
  <2> HIDE DEF line
  <2>2. <<>> \in Seq(Texts) /\ <<line>> = Append(<<>>, line)
    BY <1>1, OneMember
  <2>3. ReadLines(Append(<<>>, line)) = AddLine(ReadLines(<<>>), line)
    BY <1>1, <2>2, ReadLinesAppend
  <2>4. QED BY <2>1, <2>2, <2>3, ReadLinesEmpty DEF ParseList, ReadLines
<1>3. new # Error /\ d \in ToSet(new)
  BY <1>2
<1>4. new = <<>> \/ (host # Error /\ serial # Error /\ new = Append(<<>>, device))
  <2>1. <<>> \in Seq(Devices) \cup {Error}
    BY EmptySeq
  <2> HIDE DEF line
  <2>2. QED BY <1>1, <1>3, <2>1, AddLineCases
<1> HIDE DEF host, serial
<1>5. serial # Error /\ d.serial = serial
  <2> HIDE DEF device, new
  <2>1. new # <<>>
    BY <1>3, EmptyText
  <2>2. serial # Error /\ new = <<device>>
    BY <1>4, <2>1, OneMember
  <2>3. ToSet(<<device>>) = {device}
    BY OneMember
  <2>4. d = device
    BY <1>3, <2>2, <2>3
  <2>5. QED BY <2>2, <2>4 DEF device
<1> DEFINE u == Columns(line)[2]
<1>6. u \in Texts /\ Trim(u, Space) = Trim(t, Space)
  <2>1. <<>> \in Texts /\ Trim(<<>>, Space) = <<>>
    <3>1. <<>> \in Seq(Letters) /\ Tight(<<>>, Space)
      BY EmptySeq DEF Tight
    <3>2. QED BY <3>1, TrimTight DEF Texts
  <2>2. QED BY <2>1, ColumnsOfLine
<1>7. serial = NormalizeSerial(u)
  BY DEF serial
<1> HIDE DEF u, line
<1>8. /\ serial = Upper(Trim(t, Space)) /\ Usable(Trim(t, Space))
  BY <1>5, <1>6, <1>7, SerialIs
<1>9. serial \in Texts /\ serial # <<>> /\ NormalizeSerial(serial) = serial
  BY <1>5, <1>6, <1>7, NormalizeSerialLaws
<1>10. QED BY <1>5, <1>8, <1>9

(* The shell script drops line ends inside the serial number too. *)
LEMMA MacSerialIs ==
    ASSUME NEW t \in Texts, Usable(Trim(t, Space))
    PROVE  MacSerial(t) = Upper(Trim(t, Space))
<1> DEFINE m == Trim(t, Space)
           T == {"cr", "nl"}
<1>1. PICK a \in Texts, b \in Texts :
             /\ t = a \o m \o b
             /\ All(a, Space) /\ All(b, Space)
             /\ m \in Texts /\ Tight(m, Space)
  BY TrimParts DEF Texts
<1>2. Usable(m)
  OBVIOUS
<1> HIDE DEF m
<1>3. None(m, T)
  <2>1. \A c \in T : c \in Unprintable
    BY DEF Unprintable, Space, Blank
  <2>2. \A i \in 1..Len(m) : m[i] \notin Unprintable
    BY <1>1, <1>2, UsableIs
  <2>3. QED BY <2>1, <2>2 DEF None
<1> HIDE DEF T
<1>4. a \o m \in Seq(Letters)
  BY <1>1, ConcatParts DEF Texts
<1>5. Without(a \o m \o b, T) = Without(a, T) \o Without(m, T) \o Without(b, T)
  <2> DEFINE u == a \o m
  <2>1. Without(u, T) = Without(a, T) \o Without(m, T)
    BY <1>1, WithoutConcat DEF Texts
  <2>2. u \in Seq(Letters) /\ b \in Seq(Letters)
    BY <1>1, <1>4 DEF Texts
  <2> HIDE DEF u
  <2>3. Without(u \o b, T) = Without(u, T) \o Without(b, T)
    BY <2>2, WithoutConcat
  <2>4. QED BY <2>1, <2>3 DEF u
<1>6. Without(m, T) = m
  BY <1>1, <1>3, WithoutNone DEF Texts
<1>7. /\ Without(a, T) \in Seq(Letters) /\ All(Without(a, T), Space)
      /\ Without(b, T) \in Seq(Letters) /\ All(Without(b, T), Space)
  BY <1>1, WithoutType, WithoutAll DEF Texts
<1>8. Trim(Without(a, T) \o m \o Without(b, T), Space) = m
  BY <1>1, <1>7, TrimIs DEF Texts
<1>9. QED BY <1>1, <1>5, <1>6, <1>8 DEF MacSerial, m, T
(* What the challenge command makes of the phrase "a" from a file. *)
LEMMA CommandIs ==
    ASSUME NEW t \in Texts
    PROVE  CmdChallenge(Append(<<"a">>, "nl"), t) \in {Compute(<<"a">>, t), Error}
<1>1. "a" \in Letters /\ "nl" \in Letters /\ "a" \notin Space /\ "nl" \in Space
  BY DEF Letters, Space, Blank
<1> DEFINE p == <<"a">>
           b == <<"nl">>
<1>2. p \in Seq(Letters) /\ Len(p) = 1 /\ p[1] = "a" /\ b \in Seq(Letters)
  BY <1>1, OneCharacter DEF Texts
<1>3. All(b, Space)
  <2>1. Len(b) = 1 /\ b[1] = "nl"
    BY <1>1, OneCharacter
  <2>2. \A i \in 1..1 : i = 1
    OBVIOUS
  <2> HIDE DEF b
  <2>3. QED BY <1>1, <2>1, <2>2 DEF All
<1>4. Append(p, "nl") = p \o b
  BY <1>1, <1>2, AppendIsConcat
<1> HIDE DEF p, b
<1>5. Tight(p, Space)
  BY <1>1, <1>2 DEF Tight
<1>6. <<>> \o p = p
  BY <1>2, ConcatEmptySeq
<1>7. <<>> \in Seq(Letters) /\ All(<<>>, Space)
  BY EmptyText DEF Texts
<1>8. Trim(<<>> \o p \o b, Space) = p
  BY <1>2, <1>3, <1>5, <1>7, TrimIs
<1>9. ReadSecret(Append(p, "nl")) = p
  BY <1>4, <1>6, <1>8 DEF ReadSecret
<1>10. QED BY <1>9 DEF CmdChallenge, p

LEMMA ComputeIs ==
    ASSUME NEW s \in Texts
    PROVE  /\ Compute(<<"a">>, s) = IF NormalizeSerial(s) = Error THEN Error
                                    ELSE <<<<"a">>, NormalizeSerial(s)>>
           /\ <<<<"a">>, s>> # Error
<1>1. <<"a">> \in Texts /\ Len(<<"a">>) = 1
  BY OneCharacter DEF Letters
<1> DEFINE p == <<"a">>
<1>2. Len(<<>>) = 0
  BY EmptyText
<1>3. p \in Texts /\ Len(p) = 1
  BY <1>1
<1> HIDE DEF p
<1>4. p # <<>>
  BY <1>2, <1>3
<1>5. <<p, s>> \in Seq(Texts)
  BY <1>3
<1>6. <<p, s>> # Error
  BY <1>5, NamesAssumption
<1>7. QED BY <1>4, <1>6 DEF Compute, p

(* A serial number of any length and spelling, once the allowlist accepts  *)
(* it, gives one challenge wherever it is computed.                        *)
THEOREM ChallengesAlwaysAgree == Spec => []ChallengesAgree
<1>1. IsText => ChallengesAgree
  <2> DEFINE phrase == <<"a">>
             m == Trim(text, Space)
  <2>1. SUFFICES ASSUME text \in Texts, ToSet(text) \cap {",", "nl"} = {},
                        ParseList(Start \o text) # Error,
                        NEW d \in ToSet(ParseList(Start \o text))
                 PROVE  LET expected == Compute(phrase, d.serial)
                        IN  /\ expected # Error
                            /\ ClientChallenge(phrase, MacSerial(text)) = expected
                            /\ ClientChallenge(phrase, WindowsSerial(text)) = expected
                            /\ CmdChallenge(Append(phrase, "nl"), text) \in {expected, Error}
    BY DEF IsText, ChallengesAgree, Start
  <2>2. None(text, {","}) /\ None(text, {"nl"})
    <3>1. DOMAIN text = 1..Len(text)
      BY <2>1, LenProperties DEF Texts
    <3>2. \A i \in 1..Len(text) : text[i] # "," /\ text[i] # "nl"
      BY <2>1, <3>1 DEF ToSet
    <3>3. QED BY <3>2 DEF None
  <2>3. /\ d.serial = Upper(m) /\ d.serial \in Texts /\ d.serial # <<>>
        /\ Usable(m) /\ NormalizeSerial(d.serial) = d.serial
    BY <2>1, <2>2, DeviceOfLine
  <2>4. d.serial # Error
    BY <2>3, NamesAssumption
  <2>5. Compute(phrase, d.serial) = <<phrase, d.serial>> /\ <<phrase, d.serial>> # Error
    BY <2>3, <2>4, ComputeIs
  <2>6. MacSerial(text) = d.serial
    BY <2>1, <2>3, MacSerialIs
  <2>7. WindowsSerial(text) = d.serial
    BY <2>3 DEF WindowsSerial
  <2>8. CmdChallenge(Append(phrase, "nl"), text) \in {<<phrase, d.serial>>, Error}
    <3>1. Compute(phrase, text) \in {<<phrase, d.serial>>, Error}
      <4>1. CASE NormalizeSerial(text) = Error
        BY <2>1, <4>1, ComputeIs
      <4>2. CASE NormalizeSerial(text) # Error
        <5>1. NormalizeSerial(text) = d.serial
          BY <2>1, <2>3, <4>2, SerialIs
        <5>2. QED BY <2>1, <4>2, <5>1, ComputeIs
      <4>3. QED BY <4>1, <4>2
    <3>2. CmdChallenge(Append(phrase, "nl"), text) \in {Compute(phrase, text), Error}
      BY <2>1, CommandIs
    <3> HIDE DEF phrase
    <3>3. QED BY <3>1, <3>2
  <2> HIDE DEF phrase
  <2>9. QED BY <2>3, <2>5, <2>6, <2>7, <2>8 DEF ClientChallenge
<1>2. QED BY <1>1, TextsStay, PTL
-----------------------------------------------------------------------------
(* Word lists.                                                             *)

(* A list of different words has as many members as it is long. *)
EachOnce(words) ==
    IsFiniteSet(ToSet(words)) /\ Cardinality(ToSet(words)) = Len(words)

LEMMA DistinctOnce ==
    ASSUME NEW words \in Seq(Texts)
    PROVE  EachOnce(Distinct(words))
<1> DEFINE S == {v \in Seq(Texts) : EachOnce(Distinct(v))}
<1>1. <<>> \in S
  BY EmptySeq, EmptyText, DistinctEmpty, FS_EmptySet DEF EachOnce
<1>2. ASSUME NEW v \in Seq(Texts), NEW c \in Texts, v \in S PROVE Append(v, c) \in S
  <2> DEFINE b == Distinct(v)
  <2>1. Distinct(Append(v, c)) = DistinctStep(b, c)
    BY DistinctAppend
  <2>2. b \in Seq(Texts) /\ EachOnce(b)
    BY <1>2, DistinctType
  <2> HIDE DEF b
  <2>3. CASE Contains(b, c)
    BY <2>1, <2>2, <2>3, AppendProperties DEF DistinctStep
  <2>4. CASE ~ Contains(b, c)
    <3>1. DOMAIN b = 1..Len(b)
      BY <2>2, LenProperties
    <3>2. c \notin ToSet(b)
      BY <2>4, <3>1 DEF Contains, ToSet
    <3>3. ToSet(Append(b, c)) = ToSet(b) \cup {c} /\ Len(Append(b, c)) = Len(b) + 1
      BY <2>2, ToSetAppend, AppendProperties
    <3> DEFINE B == ToSet(b)
    <3>4. IsFiniteSet(B) /\ Cardinality(B) = Len(b)
      BY <2>2 DEF EachOnce
    <3>5. c \notin B
      BY <3>2
    <3> HIDE DEF B
    <3>6. IsFiniteSet(B \cup {c}) /\ Cardinality(B \cup {c}) = Cardinality(B) + 1
      BY <3>4, <3>5, FS_AddElement
    <3>7. EachOnce(Append(b, c))
      BY <3>3, <3>4, <3>6 DEF EachOnce, B
    <3>8. QED BY <2>1, <2>4, <3>7, AppendProperties DEF DistinctStep
  <2>5. QED BY <2>3, <2>4
<1> HIDE DEF S
<1>3. words \in S
  BY <1>1, <1>2, TextInduction
<1>4. QED BY <1>3 DEF S

Phrases == {p \in Texts : ValidPhrase(p)}

(* What is read from a word list. *)
LEMMA WordlistIs ==
    ASSUME NEW s \in Texts, ParseWordlist(s) # Error
    PROVE  /\ ParseWordlist(s) \in Seq(Texts) /\ EachOnce(ParseWordlist(s))
           /\ ToSet(ParseWordlist(s)) \subseteq Phrases
<1> DEFINE rows == [i \in DOMAIN Lines(s) |-> Uncommented(Fields(Lines(s)[i]))]
           lines == Without(rows, {<<>>})
           words == [i \in DOMAIN lines |-> Last(lines[i])]
<1>1. (\A i \in DOMAIN words : ValidPhrase(words[i])) /\ ParseWordlist(s) = Distinct(words)
  BY DEF ParseWordlist
<1>2. rows \in Seq(Seq(Texts))
  <2>1. Lines(s) \in Seq(Texts)
    BY SplitType DEF Lines, Texts
  <2>2. ASSUME NEW l \in Texts PROVE Uncommented(Fields(l)) \in Seq(Texts)
    <3>1. Split(l, Space) \in Seq(Texts)
      BY SplitType DEF Texts
    <3>2. Fields(l) \in Seq(Texts) /\ <<>> \in Seq(Texts)
      BY <3>1, WithoutType, EmptySeq DEF Fields
    <3>3. QED BY <3>2 DEF Uncommented
  <2>3. Len(Lines(s)) \in Nat /\ DOMAIN Lines(s) = 1..Len(Lines(s))
    BY <2>1, LenProperties
  <2>4. ASSUME NEW i \in 1..Len(Lines(s)) PROVE Lines(s)[i] \in Texts
    BY <2>1, ElementOfSeq
  <2>5. QED BY <2>2, <2>3, <2>4
<1> HIDE DEF rows
<1>3. lines \in Seq(Seq(Texts)) /\ None(lines, {<<>>})
  BY <1>2, WithoutType, WithoutLeavesNone
<1> HIDE DEF lines
<1>4. words \in Seq(Texts) /\ DOMAIN words = 1..Len(words)
  <2>1. Len(lines) \in Nat /\ DOMAIN lines = 1..Len(lines)
    BY <1>3, LenProperties
  <2>2. ASSUME NEW i \in 1..Len(lines) PROVE Last(lines[i]) \in Texts
    <3> DEFINE l == lines[i]
    <3>1. l \in Seq(Texts) /\ l # <<>>
      BY <1>3, ElementOfSeq DEF None
    <3> HIDE DEF l
    <3>2. Len(l) \in 1..Len(l)
      BY <3>1, EmptySeq, LenProperties
    <3>3. l[Len(l)] \in Texts
      BY <3>1, <3>2, ElementOfSeq
    <3>4. QED BY <3>3 DEF Last, l
  <2>3. words \in Seq(Texts)
    BY <2>1, <2>2
  <2> HIDE DEF words
  <2>4. QED BY <2>3, LenProperties
<1> HIDE DEF words
<1>5. All(words, Phrases)
  <2>1. ASSUME NEW i \in 1..Len(words) PROVE words[i] \in Phrases
    BY <1>1, <1>4, ElementOfSeq DEF Phrases
  <2>2. QED BY <2>1 DEF All
<1>6. Distinct(words) \in Seq(Texts) /\ All(Distinct(words), Phrases)
  BY <1>4, <1>5, DistinctType, DistinctAll
<1>7. ToSet(Distinct(words)) \subseteq Phrases
  <2>1. DOMAIN Distinct(words) = 1..Len(Distinct(words))
    BY <1>6, LenProperties
  <2>2. QED BY <1>6, <2>1 DEF All, ToSet
<1>8. QED BY <1>1, <1>4, <1>6, <1>7, DistinctOnce

(* What is drawn is a text, and one word drawn is that word. *)
LEMMA JoinIs ==
    ASSUME NEW picked \in Seq(Texts), picked # <<>>
    PROVE  /\ Join(picked) \in Texts
           /\ Len(picked) = 1 => Join(picked) = picked[1]
<1>1. Head(picked) \in Texts /\ Tail(picked) \in Seq(Texts) /\ Len(Tail(picked)) = Len(picked) - 1
  BY HeadTailProperties
<1>2. Join(picked) = JoinTo(Head(picked), Tail(picked))
  BY DEF Join, JoinTo, JoinStep
<1>3. Head(picked) = picked[1]
  OBVIOUS
<1> DEFINE h == Head(picked)
           t == Tail(picked)
<1> HIDE DEF h, t
<1>4. JoinTo(h, t) \in Texts
  BY <1>1, JoinToType DEF h, t
<1>5. ASSUME Len(picked) = 1 PROVE JoinTo(h, t) = h
  <2>1. t \in Seq(Texts) /\ Len(t) = 0
    BY <1>1, <1>5 DEF t
  <2>2. t = <<>>
    BY <2>1, EmptySeq
  <2>3. h \in Texts
    BY <1>1 DEF h
  <2>4. QED BY <2>2, <2>3, JoinToEmpty
<1>6. QED BY <1>2, <1>3, <1>4, <1>5 DEF h, t

LEMMA DrawnIs ==
    ASSUME NEW words \in Seq(Texts), NEW n \in Nat \ {0}, NEW picked \in [1..n -> ToSet(words)]
    PROVE  picked \in Seq(Texts) /\ Len(picked) = n /\ picked # <<>>
<1>1. ToSet(words) \subseteq Texts
  <2>1. DOMAIN words = 1..Len(words)
    BY LenProperties
  <2>2. \A i \in 1..Len(words) : words[i] \in Texts
    BY ElementOfSeq
  <2>3. QED BY <2>1, <2>2 DEF ToSet
<1> DEFINE W == ToSet(words)
<1>2. W \subseteq Texts /\ picked \in [1..n -> W]
  BY <1>1
<1> HIDE DEF W
<1>3. picked \in Seq(Texts) /\ Len(picked) = n
  BY <1>2
<1>4. Len(<<>>) = 0
  BY EmptyText
<1>5. QED BY <1>3, <1>4

(* A word list of any length: what it gives is drawn from MinWordlist      *)
(* different words, and is read back as it is.                             *)
THEOREM PhrasesAlwaysWide == Spec => []PhrasesAreDrawnWidely
<1>1. IsText => PhrasesAreDrawnWidely
  <2> DEFINE words == ParseWordlist(text)
  <2>1. SUFFICES ASSUME text \in Texts, words # Error, Generate(words, 1) # {Error}
                 PROVE  /\ Cardinality(Generate(words, 1)) >= MinWordlist
                        /\ \A p \in Generate(words, 2) \ {Error} : ReadSecret(p) = p
    BY DEF IsText, PhrasesAreDrawnWidely
  <2>2. words \in Seq(Texts) /\ EachOnce(words) /\ ToSet(words) \subseteq Phrases
    BY <2>1, WordlistIs
  <2> HIDE DEF words
  <2>3. Len(words) \in Nat /\ MinWordlist \in Nat
    BY <2>2, LenProperties, NamesAssumption
  <2>4. /\ Len(words) >= MinWordlist
        /\ Generate(words, 1) = {IF ValidPhrase(Join(picked)) THEN Join(picked) ELSE Error :
                                   picked \in [1..1 -> ToSet(words)]}
    BY <2>1, <2>3 DEF Generate
  <2>5. ASSUME NEW picked \in [1..1 -> ToSet(words)]
        PROVE  Join(picked) = picked[1] /\ ValidPhrase(Join(picked))
    <3>1. picked \in Seq(Texts) /\ Len(picked) = 1 /\ picked # <<>>
      <4>1. 1 \in Nat \ {0}
        OBVIOUS
      <4>2. QED BY <2>2, <4>1, DrawnIs, Zenon
    <3>2. Join(picked) = picked[1]
      BY <3>1, JoinIs
    <3>3. picked[1] \in ToSet(words)
      OBVIOUS
    <3>4. QED BY <2>2, <3>2, <3>3 DEF Phrases
  <2>6. Generate(words, 1) = ToSet(words)
    <3>1. ASSUME NEW w \in ToSet(words) PROVE w \in Generate(words, 1)
      <4> DEFINE picked == [i \in 1..1 |-> w]
      <4>1. picked \in [1..1 -> ToSet(words)] /\ picked[1] = w
        OBVIOUS
      <4> HIDE DEF picked
      <4>2. QED BY <2>4, <2>5, <4>1
    <3>2. ASSUME NEW p \in Generate(words, 1) PROVE p \in ToSet(words)
      <4>1. PICK picked \in [1..1 -> ToSet(words)] :
                   p = IF ValidPhrase(Join(picked)) THEN Join(picked) ELSE Error
        BY <2>4
      <4>2. picked[1] \in ToSet(words)
        OBVIOUS
      <4>3. QED BY <2>5, <4>1, <4>2
    <3>3. QED BY <3>1, <3>2
  <2>7. Cardinality(Generate(words, 1)) >= MinWordlist
    BY <2>2, <2>4, <2>6 DEF EachOnce
  <2>8. ASSUME NEW p \in Generate(words, 2) \ {Error} PROVE ReadSecret(p) = p
    <3>1. PICK picked \in [1..2 -> ToSet(words)] :
                 p = IF ValidPhrase(Join(picked)) THEN Join(picked) ELSE Error
      BY <2>8 DEF Generate
    <3>2. p = Join(picked) /\ ValidPhrase(p)
      BY <2>8, <3>1
    <3>3. picked \in Seq(Texts) /\ picked # <<>>
      <4>1. 2 \in Nat \ {0}
        OBVIOUS
      <4>2. QED BY <2>2, <4>1, DrawnIs, Zenon
    <3>4. p \in Texts
      BY <3>2, <3>3, JoinIs
    <3>5. None(p, Space) /\ Len(p) \in 1..MaxPhraseLen
      BY <3>2, <3>4, ValidPhraseIs
    <3>6. Len(<<>>) = 0
      BY EmptyText
    <3>7. p # <<>>
      BY <3>5, <3>6
    <3>8. Tight(p, Space)
      BY <3>4, <3>5, <3>7, NoneTight DEF Texts
    <3>9. QED BY <3>4, <3>8, TrimTight DEF ReadSecret, Texts
  <2>9. QED BY <2>7, <2>8
<1>2. QED BY <1>1, TextsStay, PTL
=============================================================================
