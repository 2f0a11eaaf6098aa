-------------------------- MODULE MCPlaygroundServer --------------------------
(***************************************************************************)
(* Certificates, uploads and requests for TLC.  The good chain is a leaf   *)
(* under a root; each other submission differs from a good one in one      *)
(* respect the studio looks at: the key's algorithm, the dates, the key    *)
(* usage, the subject, the number of certificates, the key file.           *)
(***************************************************************************)
EXTENDS PlaygroundServer

\* A key [kind, id, type, x].
KeyOf(id, type) == [kind |-> "ok", id |-> <<id>>, type |-> type, x |-> <<id>>]

Root ==
  [id |-> <<"root">>, subject |-> [CN |-> "root"], issuer |-> [CN |-> "root"], repeats |-> FALSE,
   key |-> KeyOf("kr", "P-256"), signedBy |-> KeyOf("kr", "P-256"),
   bc |-> [ca |-> TRUE, pathLen |-> None], ku |-> {"keyCertSign"}, from |-> 0, to |-> 3,
   san |-> {}, eku |-> {}, fulcio |-> None]

Mid == [Root EXCEPT !.id = <<"mid">>, !.subject = [CN |-> "mid"], !.key = KeyOf("km", "P-256")]

\* A leaf with a key of a type, directly under the root; its id tells it from
\* leaves of other types.
Leaf(type) ==
  [Root EXCEPT !.id = <<type>>, !.key = KeyOf(type, type), !.bc = None, !.ku = {"digitalSignature"},
               !.subject = [C |-> "US", CN |-> "acme", O |-> "org"]]

Under(cert, issuer) == [cert EXCEPT !.issuer = issuer.subject, !.signedBy = issuer.key]

File(key) == [label |-> "PRIVATE KEY", curve |-> TRUE, key |-> key]

Uploaded(chain, attribute) == [chain |-> chain, file |-> File(chain[1].key), attribute |-> attribute]

Direct(leaf) == Uploaded(<<leaf, Root>>, "CN")

Through(leaf) == Uploaded(<<Under(leaf, Mid), Mid, Root>>, "CN")

\* "comma" is an organisation whose name has a comma: read back, it is cut.
MCShown == [root |-> "root", acme |-> "acme", org |-> "org", comma |-> "cut"]

MCScalar == [root |-> "root", acme |-> "acme", org |-> "org", cut |-> "cut"]

MCForeign == [prefix |-> FALSE, path |-> FALSE, query |-> FALSE, fragment |-> FALSE,
              alg |-> None, fp |-> None, policies |-> <<>>]

\* Another certificate for the key of a leaf, from another root.
MCWrapping ==
  LET other == [Root EXCEPT !.id = <<"other root">>, !.key = KeyOf("ko", "P-256"), !.signedBy = KeyOf("ko", "P-256")]
  IN <<Under([Leaf("P-256") EXCEPT !.id = <<"rewrapped">>], other), other>>

Mirrored(key) == [key EXCEPT !.id = <<"mirrored">>]

Good == {Direct(Leaf(type)) : type \in KeyTypes}

\* Refused at the door, or at the report.
Bad ==
  { [Direct(Leaf("P-256")) EXCEPT !.file = File(KeyOf("other", "P-256"))],
    [Direct(Leaf("P-256")) EXCEPT !.file.label = "ENCRYPTED PRIVATE KEY"],
    [Direct(Leaf("P-256")) EXCEPT !.file = [@ EXCEPT !.label = "EC PRIVATE KEY", !.curve = FALSE]],
    [Direct(Leaf("P-256")) EXCEPT !.attribute = "OU"],
    [Direct(Leaf("P-256")) EXCEPT !.chain = <<>>],
    Uploaded(<<[Leaf("RSA-2048") EXCEPT !.subject = [CN |-> "acme", O |-> "comma"]], Root>>, "O"),
    Uploaded(<<Root>>, "CN") }

\* Accepted, each with a verdict of its own.
Odd ==
  { [Direct(Leaf("P-256")) EXCEPT !.file = File(Mirrored(Leaf("P-256").key))],
    [Direct(Leaf("P-256")) EXCEPT !.file = None],
    Direct([Leaf("P-256") EXCEPT !.to = 0]),
    Direct([Leaf("Ed25519") EXCEPT !.to = 0]),
    Direct([Leaf("Ed25519") EXCEPT !.ku = {"keyAgreement"}]),
    Direct([Leaf("P-256") EXCEPT !.subject = [CN |-> "acme"]]),
    Uploaded(<<[Leaf("P-256") EXCEPT !.subject = [C |-> "US", O |-> "org"]], Root>>, "O"),
    Uploaded(<<Leaf("Ed25519"), Root>>, "O"),
    Through(Leaf("Ed25519")),
    Through(Leaf("P-256")) }

MCSubmissions == Good \cup Bad \cup Odd

Order(type, attribute) ==
  [type |-> type, attribute |-> attribute, subject |-> [C |-> "US", CN |-> "acme"], validity |-> 1]

MCOrders == {Order("P-256", "CN"), Order("RSA-2048", "OU")}

Request(format, template) == [format |-> format, template |-> template, withheld |-> {"studentId"}]

MCRequested == {Request(format, "degree") : format \in Formats} \cup {Request("jsonld", "mdl")}

\* For the runs about modules and flows: one identity, one kind of signing.
OneSubmission == {Direct(Leaf("P-256"))}
OneRequest == {Request("mdoc", "degree")}
=============================================================================
