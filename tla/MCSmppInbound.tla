------------------------------ MODULE MCSmppInbound ------------------------------
(* Alice sends a text with an escaped character next to a cut (1) and one whose *)
(* cut falls in an escaped character, and whose second part reads as a report (2). *)
(* Carol sends a short one that begins like a part and has the escape character  *)
(* (3), one that cannot be encoded (4) and one that is too long (5).  Bob sends  *)
(* one with the longer header, whose coding is overridden and whose cut falls in *)
(* a shifted mode (6), and one whose coding has no codec (7).                    *)
EXTENDS SmppInbound, TLC

CONSTANTS alice, bob, carol

\* A codec of one mode, which reads what it writes.
Plain(words) ==
  LET reads == {<<"only", words[c]>> : c \in DOMAIN words}
  IN  [start |-> "only", mode |-> [c \in DOMAIN words |-> "only"], word |-> words, shift |-> << >>,
       reads |-> [r \in reads |-> [text |-> << CHOOSE c \in DOMAIN words : words[c] = r[2] >>,
                                   mode |-> "only"]]]

\* The escape character, and what escapes the letter b, are one octet each.
gsm0338 ==
  LET read == Plain("a" :> <<97>> @@ "b" :> <<98>> @@ "euro" :> <<27, 101>> @@ "at" :> <<0>>
                    @@ "pound" :> <<1>> @@ "dollar" :> <<2>> @@ "yen" :> <<3>> @@ "e acute" :> <<5>>)
  IN  [read EXCEPT
        !.word = @ @@ "escape" :> <<27>>,
        !.mode = @ @@ "escape" :> "only",
        !.reads = @ @@ <<"only", <<27, 98>>>> :> [text |-> << "grave" >>, mode |-> "only"]]

\* ESC ( B shifts to ASCII and ESC $ B to JIS X 0208, where $" is a kana.
iso2022_jp ==
  LET As(text, mode) == [text |-> text, mode |-> mode]
  IN  [start |-> "ascii",
       mode |-> "a" :> "ascii" @@ "dollar" :> "ascii" @@ "quote" :> "ascii" @@ "kana" :> "jis",
       word |-> "a" :> <<97>> @@ "dollar" :> <<36>> @@ "quote" :> <<34>> @@ "kana" :> <<36, 34>>,
       shift |-> "ascii" :> <<27, 40, 66>> @@ "jis" :> <<27, 36, 66>>,
       reads |-> <<"ascii", <<97>>>> :> As(<< "a" >>, "ascii")
                 @@ <<"ascii", <<36>>>> :> As(<< "dollar" >>, "ascii")
                 @@ <<"ascii", <<34>>>> :> As(<< "quote" >>, "ascii")
                 @@ <<"jis", <<36, 34>>>> :> As(<< "kana" >>, "jis")
                 @@ [r \in {"ascii", "jis"} \X {<<27, 40, 66>>} |-> As(<< >>, "ascii")]
                 @@ [r \in {"ascii", "jis"} \X {<<27, 36, 66>>} |-> As(<< >>, "jis")]]

MCDataCodingCodecs == [default |-> gsm0338, octets |-> None, reserved |-> None]
MCOverrides == [octets |-> iso2022_jp]
MCForeignCodecs == [default |-> gsm0338, octets |-> iso2022_jp, reserved |-> gsm0338]
MCReports == {<< 101, 98 >>}
MCWholeLength == [default |-> 5, octets |-> 5, reserved |-> 5]
MCPartLength == [default |-> 4, octets |-> 5, reserved |-> 4]

MCOriginals == 1 .. 7
MCSender == << alice, alice, carol, carol, carol, bob, bob >>
MCText ==
  << << "a", "b", "euro", "b", "b" >>,
     << "a", "b", "b", "euro", "b" >>,
     << "e acute", "at", "yen", "b", "pound", "dollar", "escape", "b" >>,
     << "smile" >>,
     [i \in 1 .. 13 |-> "a"],
     << "kana", "kana" >>,
     << "a" >> >>
MCCoding == << "default", "default", "default", "default", "default", "octets", "reserved" >>
MCHandling == << "multipart_udh", "multipart_sar", "short_message", "short_message",
                 "multipart_udh", "csm16", "csm16" >>

\* Two senders whose texts have as many parts, and whose numbers are as far.
SharedOriginals == 1 .. 2
SharedSender == << alice, bob >>
SharedText == << << "a", "b", "euro", "b", "b" >>, << "b", "b", "a", "a", "a", "b" >> >>
SharedCoding == << "default", "default" >>
SharedHandling == << "multipart_udh", "multipart_udh" >>
===============================================================================
