----------------------------- MODULE MCLeadTable -----------------------------
(***************************************************************************)
(* An instance of LeadTable for TLC.  A submission differs from a good one *)
(* in the guards' inputs, or in the fields of its form: in one field, the  *)
(* phone in every spelling, or in the length of everything the mail names. *)
(***************************************************************************)
EXTENDS LeadTable

Good(ip) ==
    [origin |-> "https://own", fetchSite |-> "same-origin",
     realIP |-> Absent, forwarded |-> Absent, remote |-> ip,
     body |-> "ok", website |-> FALSE, valid |-> TRUE]

Number == <<7, 1, 3, 5, 5, 5, 0, 1, 9, 8>>

Base(variant) ==
    [variant |-> variant, name |-> Text(<<4, 3>>), last |-> Text(<<5>>),
     company |-> Text(<<6, 2>>), cargo |-> NoText,
     origin |-> Text(<<7>>), destination |-> Text(<<6, 5>>),
     email |-> [kind |-> "bare", bytes |-> 20, parts |-> <<20>>, dotted |-> TRUE],
     phone |-> Typed(Number, FALSE), service |-> "known",
     weight |-> [kind |-> "number", milli |-> 250000]]

Bases == {Base("compact"), Base("full")}

Controlled(parts, control) == [parts |-> parts, control |-> control, sound |-> TRUE]

(* One control character, alone; and in front, in the first word, at the end. *)
Unprintable == Controlled(<<0, 0>>, {1})
Speckled == Controlled(<<0, 4, 0, 3, 5, 0>>, {1, 2, 3, 5})

(* Empty, one word, two, at a limit and past it, with control characters, and *)
(* not sound.                                                                 *)
Texts == {NoText, Text(<<1>>), Text(<<40, 39>>), Text(<<40, 40>>), Text(<<60, 59>>),
          Text(<<60, 60>>), Text(<<1000, 999>>), Text(<<1000, 1000>>), Unprintable, Speckled,
          [parts |-> <<3, 4>>, control |-> {}, sound |-> FALSE]}

Email(kind, bytes, parts, dotted) == [kind |-> kind, bytes |-> bytes, parts |-> parts, dotted |-> dotted]

(* The last has a blank of two bytes in its first atom. *)
Emails == {Email(k, n, <<n>>, d) : k \in {"bare", "named", "junk"}, n \in {20, 254, 255}, d \in BOOLEAN}
          \cup {Email("bare", 20, <<6, 12>>, TRUE)}

Weights == {[kind |-> k, milli |-> 0] : k \in {"none", "junk", "nan"}}
           \cup [kind : {"number"}, milli : {-1, 0, 1, 4, 5, 1000, 1000000000, 1000000001}]

(* Country codes, area codes, exchanges and lengths the rules tell apart. *)
Digits ==
    {c \o a \o x \o <<0, 1, 9, 8>> :
        c \in {<<>>, <<1>>, <<0>>, <<4, 4>>},
        a \in {<<7, 1, 3>>, <<9, 1, 1>>, <<0, 1, 3>>},
        x \in {<<5, 5, 5>>, <<1, 5, 5>>, <<4, 1, 1>>}}
      \cup {<<>>} \cup {[i \in 1..n |-> 4] : n \in {7, 8, 9, 15, 16}}

Phones ==
    {[Typed(d, plus) EXCEPT !.separators = n, !.ext = x] :
        d \in Digits, plus \in BOOLEAN, n \in {0, 9}, x \in {<<>>, <<4, 2>>}}
      \cup {[Typed(Number, TRUE) EXCEPT !.lead = b, !.other = o, !.ext = x] :
              b \in BOOLEAN, o \in BOOLEAN, x \in {<<1, 2, 3, 4, 5, 6>>, <<1, 2, 3, 4, 5, 6, 7>>}}

(* Long and short names, cities and companies together, and names that do not *)
(* print with every address.                                                  *)
Sizes == {Text(<<1>>), Text(<<40, 39>>), Text(<<60, 59>>), Speckled}

TheForms ==
    UNION {
      {[b EXCEPT !.name = t] : t \in Texts} \cup {[b EXCEPT !.last = t] : t \in Texts}
      \cup {[b EXCEPT !.company = t] : t \in Texts} \cup {[b EXCEPT !.cargo = t] : t \in Texts}
      \cup {[b EXCEPT !.origin = t] : t \in Texts} \cup {[b EXCEPT !.destination = t] : t \in Texts}
      \cup {[b EXCEPT !.email = e] : e \in Emails} \cup {[b EXCEPT !.weight = w] : w \in Weights}
      \cup {[b EXCEPT !.phone = p] : p \in Phones} \cup {[b EXCEPT !.service = "unknown"]}
      \cup {[b EXCEPT !.name = s, !.last = s, !.origin = t, !.destination = t, !.company = u] :
              s \in Sizes, t \in Sizes, u \in Sizes}
      \cup {[b EXCEPT !.name = Unprintable, !.last = t, !.email = e] : t \in Sizes \cup {NoText, Unprintable}, e \in Emails}
      : b \in Bases}

Plain == [bytes |-> 10, runeAcross2000 |-> FALSE]

TheReports == [bytes : {10, 2000, 2001}, runeAcross2000 : BOOLEAN]

Browser == [bytes |-> 100, sound |-> TRUE]

Agents == [bytes : {1, 512, 513}, sound : BOOLEAN]

(* Every combination of the guards' inputs with a plain form, every form with *)
(* good headers, and every User-Agent and error message with a plain form.    *)
TheInputs ==
    [sub : Submission, form : Bases, agent : {Browser}, report : {Plain}]
      \cup [sub : {Good(ip) : ip \in Addrs}, form : TheForms, agent : {Browser}, report : {Plain}]
      \cup [sub : {Good(ip) : ip \in Addrs}, form : Bases, agent : Agents, report : TheReports]
=============================================================================
