------------------------------- MODULE Names -------------------------------
(***************************************************************************)
(* The texts people and devices write, and what the program makes of them: *)
(* serial numbers, hostnames and phrases (webhook/internal/challenge), the *)
(* names in a certificate request (identify in server.go), the lines of    *)
(* the allowlist, and the same serial as the clients' scripts read it.     *)
(*                                                                         *)
(* A text is a sequence of characters.  The module has one variable, a     *)
(* text somebody is writing, so that TLC can go through the texts.         *)
(***************************************************************************)
EXTENDS Naturals, Sequences, FiniteSets, SequencesExt, FiniteSetsExt

CONSTANTS
    Chars,          \* characters texts are written with
    Beginnings,     \* texts to start from
    MaxTyped,       \* bound: characters written after one of them
    MaxIDLen,
    MaxPhraseLen,
    MinWordlist,
    Error           \* what a function returns instead of a text

(* Characters.  "vt" stands for the white space that strings.TrimSpace      *)
(* knows and NormalizeSerial does not, "dotless" for the characters outside *)
(* ASCII that Unicode raises to an ASCII letter: U+0131, the dotless i, and *)
(* U+017F, the long s; here that letter is "A".                            *)
Blank == {" ", "tab", "cr", "nl"}
Space == Blank \cup {"vt"}
Foreign == {"dotless"}
Unprintable == (Space \ {" "}) \cup Foreign
Letters == Chars \cup Space \cup Foreign \cup {"a", "A", "b", "B", ".", ",", "-", "#"}

Texts == Seq(Letters)
Devices == [host : Texts, serial : Texts]

ASSUME NamesAssumption ==
    /\ Beginnings \subseteq Texts
    /\ {MaxTyped, MaxIDLen, MaxPhraseLen, MinWordlist} \subseteq Nat
    /\ Error \notin Texts
    /\ Error \notin Seq(Texts)
    /\ Error \notin Seq(Devices)

VARIABLES text, typed

vars == <<text, typed>>

Init == text \in Beginnings /\ typed = 0

Type(c) ==
    /\ typed < MaxTyped
    /\ text' = Append(text, c)
    /\ typed' = typed + 1

StartOver == typed = MaxTyped /\ text' \in Beginnings /\ typed' = 0

Next == (\E c \in Chars : Type(c)) \/ StartOver

Spec == Init /\ [][Next]_vars

-----------------------------------------------------------------------------
(* Texts.                                                                  *)

Upper(s) ==
    [i \in DOMAIN s |-> CASE s[i] = "a" -> "A" [] s[i] = "b" -> "B" [] OTHER -> s[i]]

(* Go's strings.ToUpper goes by Unicode.  Where only ASCII is left, and in *)
(* the clients' scripts, that is Upper.                                    *)
ToUpper(s) ==
    [i \in DOMAIN s |-> IF s[i] \in Foreign THEN "A" ELSE Upper(s)[i]]

Trim(s, cutset) ==
    LET kept == {i \in DOMAIN s : s[i] \notin cutset}
    IN  IF kept = {} THEN <<>> ELSE SubSeq(s, Min(kept), Max(kept))

(* The parts of a text between the characters of a set. *)
Split(s, seps) ==
    FoldLeft(LAMBDA parts, c : IF c \in seps THEN Append(parts, <<>>)
                               ELSE Append(Front(parts), Append(Last(parts), c)),
             <<<<>>>>, s)

Lines(s) == Split(s, {"nl"})

(* The members of a sequence that are not in a set. *)
Without(s, T) ==
    FoldLeft(LAMBDA kept, c : IF c \in T THEN kept ELSE Append(kept, c), <<>>, s)

Fields(s) == Without(Split(s, Space), {<<>>})

-----------------------------------------------------------------------------
(* challenge.go.                                                           *)

Usable(s) == Len(s) \in 1..MaxIDLen /\ ToSet(s) \cap Unprintable = {}

(* Slip: the case stays as it is written. *)
NormalizeKeepsCase(raw) ==
    IF Usable(Trim(raw, Blank)) THEN Trim(raw, Blank) ELSE Error

NormalizeSerial(raw) ==
    IF Usable(Trim(raw, Blank)) THEN Upper(Trim(raw, Blank)) ELSE Error

(* Slip: a phrase may hold spaces. *)
ValidPhraseSpaced(p) ==
    Len(p) \in 1..MaxPhraseLen /\ ToSet(p) \cap Unprintable = {}

ValidPhrase(p) ==
    Len(p) \in 1..MaxPhraseLen /\ ToSet(p) \cap (Space \cup Foreign) = {}

(* HMAC and base64 keep apart what goes into them.                         *)
Compute(phrase, id) ==
    IF phrase = <<>> \/ NormalizeSerial(id) = Error THEN Error
    ELSE <<phrase, NormalizeSerial(id)>>

(* Slip: a word that comes twice counts twice. *)
DistinctNot(words) == words

Distinct(words) ==
    FoldLeft(LAMBDA seen, w : IF Contains(seen, w) THEN seen ELSE Append(seen, w),
             <<>>, words)

Uncommented(fields) ==
    IF fields # <<>> /\ fields[1][1] = "#" THEN <<>> ELSE fields

(* One word a line, the last field of it; '#' starts a comment.            *)
ParseWordlist(s) ==
    LET lines == Without([i \in DOMAIN Lines(s) |-> Uncommented(Fields(Lines(s)[i]))],
                         {<<>>})
        words == [i \in DOMAIN lines |-> Last(lines[i])]
    IN  IF \A i \in DOMAIN words : ValidPhrase(words[i]) THEN Distinct(words) ELSE Error

Join(words) ==
    FoldLeft(LAMBDA p, w : p \o <<"-">> \o w, Head(words), Tail(words))

(* What n draws may give: a phrase, or Error when it cannot be used.       *)
Generate(words, n) ==
    IF Len(words) < MinWordlist \/ n < 1 THEN {Error}
    ELSE {IF ValidPhrase(Join(picked)) THEN Join(picked) ELSE Error :
             picked \in [1..n -> ToSet(words)]}

-----------------------------------------------------------------------------
(* admin.go: a phrase is read from a file, standard input or the           *)
(* environment; challenge prints what a device would send.                 *)

ReadSecret(s) == Trim(s, Space)

CmdChallenge(secret, id) ==
    IF ValidPhrase(ReadSecret(secret)) THEN Compute(ReadSecret(secret), id) ELSE Error

-----------------------------------------------------------------------------
(* The clients.  The shell drops what ends a line and trims and raises     *)
(* what is left; PowerShell trims and raises.                              *)

MacSerial(raw) == Upper(Trim(Without(raw, {"cr", "nl"}), Space))

WindowsSerial(raw) == Upper(Trim(raw, Space))

ClientChallenge(phrase, serial) ==
    IF serial = <<>> THEN Error ELSE <<phrase, serial>>

-----------------------------------------------------------------------------
(* allowlist.go: HOSTNAME,SERIAL[,note] on each line.                      *)

(* Slip: two hosts may have one serial. *)
ListedByHost(devices, host, serial) ==
    \E i \in DOMAIN devices : devices[i].host = host

Listed(devices, host, serial) ==
    \E i \in DOMAIN devices : devices[i].host = host \/ devices[i].serial = serial

Content(line) == LET l == Trim(line, Space) IN l # <<>> /\ l[1] # "#"

AddLine(devices, line) ==
    LET cols == Split(Trim(line, Space), {","})
        host == NormalizeSerial(cols[1])
        serial == NormalizeSerial(cols[2])
    IN  IF devices = Error \/ ~Content(line) THEN devices
        ELSE IF Len(cols) < 2 \/ host = Error \/ serial = Error THEN Error
        ELSE IF Listed(devices, host, serial) THEN Error
        ELSE Append(devices, [host |-> host, serial |-> serial])

ParseList(s) == FoldLeft(AddLine, <<>>, Lines(s))

-----------------------------------------------------------------------------
(* server.go: whom a certificate request is for.  sans holds the general   *)
(* names of each SAN extension in it.                                      *)

DnsNames(san) ==
    IF \A i \in DOMAIN san : san[i].tag = "dNSName"
    THEN [i \in DOMAIN san |-> san[i].name] ELSE Error

(* Slip: the dot after the hostname is forgotten. *)
BelongsByPrefix(name, host) == IsPrefix(host, name)

Belongs(name, host) == name = host \/ IsPrefix(Append(host, "."), name)

ClaimedName(cn, dns) ==
    IF Trim(cn, Space) = <<>> /\ dns # <<>> THEN dns[1] ELSE cn

Identify(cn, sans) ==
    LET dns == IF sans = <<>> THEN <<>> ELSE DnsNames(sans[1])
        host == NormalizeSerial(ClaimedName(cn, dns))
    IN  IF Len(sans) > 1 \/ dns = Error \/ host = Error THEN Error
        ELSE IF \A i \in DOMAIN dns : Belongs(ToUpper(dns[i]), host) THEN host
        ELSE Error

-----------------------------------------------------------------------------
(* Properties.  Each reads the text in one of its roles.                   *)

(* The text as a serial number, in the allowlist and in the device: a      *)
(* device whose line the list accepts has one challenge, the one the       *)
(* server expects, whether the shell script, the PowerShell script or the  *)
(* challenge command computes it.  The command may refuse the text, never  *)
(* print another challenge (challenge.go:43-46).                           *)
ChallengesAgree ==
    LET phrase == <<"a">>
        line == <<"b", ",">> \o text
    IN  ToSet(text) \cap {",", "nl"} = {} /\ ParseList(line) # Error =>
            \A d \in ToSet(ParseList(line)) :
                LET expected == Compute(phrase, d.serial)
                IN  /\ expected # Error
                    /\ ClientChallenge(phrase, MacSerial(text)) = expected
                    /\ ClientChallenge(phrase, WindowsSerial(text)) = expected
                    /\ CmdChallenge(Append(phrase, "nl"), text) \in {expected, Error}

(* The text as an allowlist: what load accepts has each line that is not a *)
(* comment as one device, no hostname and no serial number twice in any    *)
(* spelling, and every name in the form the handler looks up               *)
(* (allowlist.go:119-123).                                                 *)
ListIsOneToOne ==
    LET devices == ParseList(text)
    IN  devices # Error =>
            /\ Len(devices) = Cardinality({i \in DOMAIN Lines(text) : Content(Lines(text)[i])})
            /\ \A i, j \in DOMAIN devices :
                   \/ devices[i].host = devices[j].host
                   \/ devices[i].serial = devices[j].serial
                   => i = j
            /\ \A i \in DOMAIN devices :
                   /\ NormalizeSerial(devices[i].host) = devices[i].host
                   /\ NormalizeSerial(devices[i].serial) = devices[i].serial

(* The text as a phrase: one that may be added is read back as it is from  *)
(* a file with a line end and blanks around it, and stays one word on a    *)
(* command line (challenge.go:64-66).                                      *)
PhraseSurvives ==
    ValidPhrase(text) =>
        /\ ReadSecret(<<" ">> \o text \o <<"cr", "nl">>) = text
        /\ Fields(text) = <<text>>

(* The text as a word list: a phrase is drawn from MinWordlist different   *)
(* words or not at all, and what is drawn may be added and read back       *)
(* (challenge.go:39-40, 123-124).                                          *)
PhrasesAreDrawnWidely ==
    ParseWordlist(text) # Error /\ Generate(ParseWordlist(text), 1) # {Error} =>
        /\ Cardinality(Generate(ParseWordlist(text), 1)) >= MinWordlist
        /\ \A p \in Generate(ParseWordlist(text), 2) \ {Error} : ReadSecret(p) = p

(* The text as a request, its first line the common name and the others    *)
(* the DNS names: the host it is taken to be for is the one all its names  *)
(* in ASCII name, label by label, and neither a second SAN extension nor a *)
(* name of another kind is ever looked past (server.go:212-216).  A name   *)
(* with a foreign character may pass for the host's and name another one:  *)
(* server.go:248 compares it raised by Unicode's rules.                    *)
NamesStayWithHost ==
    LET cn == Lines(text)[1]
        san == [i \in 1..Len(Lines(text)) - 1 |->
                  [tag |-> "dNSName", name |-> Lines(text)[i + 1]]]
        host == Identify(cn, <<san>>)
        Labels(name) == Split(name, {"."})
    IN  /\ host # Error =>
               /\ Usable(host)
               /\ \A i \in DOMAIN san :
                      ToSet(san[i].name) \cap Foreign = {} =>
                          IsPrefix(Labels(host), Labels(Upper(san[i].name)))
               /\ Trim(cn, Space) # <<>> => host = NormalizeSerial(cn)
        /\ Identify(cn, <<san, <<>>>>) = Error
        /\ \A i \in DOMAIN san : Identify(cn, <<[san EXCEPT ![i].tag = "iPAddress"]>>) = Error
=============================================================================
