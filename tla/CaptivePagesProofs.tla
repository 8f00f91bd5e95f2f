-------------------------- MODULE CaptivePagesProofs ---------------------------
(***************************************************************************)
(* Theorems about the pages, for any windows, sites and buffer sizes and    *)
(* any number of upsets: what a redirect carries fits the buffers, and the  *)
(* form of every splash page leads to the site its window was asked for.    *)
(***************************************************************************)
EXTENDS CaptivePages, SequenceTheorems, FiniteSetTheorems, NaturalsFacts

Encoded == Seq({"flag", "plain"})

-----------------------------------------------------------------------------
(* The inductive invariant: what each window asks for and shows.            *)

Tokens == {NoToken} \cup 0 .. token
Redirs == {r \in Encoded \cup {NoSite} : Fits(r)}
Kinds == {"site", "root", "splash", "auth", "deny", "file"}
Urls == [to : Kinds \cup {"none"}, args : Seq(Args), tok : Tokens, redir : Redirs]
Pages == [kind : {"blank", "site", "error", "file", "splash", "status"},
          tok : Tokens, redir : Redirs, url : Urls]

\* An address leads to where the window is to be led: a site does so once its
\* query is collected, a page of the gateway by its redir argument.
Leads(w, url) ==
    LET data == Collected(url.args)
    IN  /\ url.to \in Kinds
        /\ url.to = "site" /\ ~data.error => Kept(w, data.query)
        /\ url.to # "site" => Kept(w, url.redir)
        /\ url.to = "deny" => url.redir = NoSite

\* So does a page, by its form and when it is reloaded.
Shown(w, p) ==
    p.kind \in {"splash", "status"} =>
        /\ p.url.to \in Kinds \ {"site", "deny"}
        /\ Kept(w, p.url.redir)
        /\ p.kind = "splash" => Kept(w, p.redir)

PagesInv ==
    /\ redirectURL \in Redirs /\ mark \in {"preauth", "auth"}
    /\ upsets \in 0 .. MaxUpsets /\ token \in 0 .. upsets
    /\ origin \in [Windows -> Sites \cup {NoSite}]
    /\ request \in [Windows -> [url : Urls, captured : BOOLEAN]]
    /\ page \in [Windows -> Pages]
    /\ \A w \in Windows : IF Waits(w) THEN Leads(w, request[w].url) ELSE Shown(w, page[w])

-----------------------------------------------------------------------------
(* The collected query.                                                    *)

Data0 == [error |-> FALSE, size |-> 0, query |-> <<>>]

\* Collected is what the callback makes of one argument after the other.
LEMMA CollectedStepwise ==
    ASSUME NEW q \in Seq(Args)
    PROVE  \E data : /\ data[0] = Data0
                     /\ \A n \in 1 .. Len(q) : data[n] = get_query_callback(data[n - 1], q[n])
                     /\ Collected(q) = data[Len(q)]
<1> DEFINE IsData(d, k) == d = [n \in 0 .. k |-> IF n = 0 THEN Data0
                                                 ELSE get_query_callback(d[n - 1], q[n])]
           P == {k \in Nat : \E f : IsData(f, k)}
<1>1. 0 \in P
    <2>1. IsData([n \in 0 .. 0 |-> Data0], 0)
        OBVIOUS
    <2> QED
        BY <2>1
<1>2. ASSUME NEW k \in Nat, k \in P PROVE k + 1 \in P
    <2>1. PICK d : IsData(d, k)
        BY <1>2
    <2> DEFINE e == [n \in 0 .. k + 1 |-> IF n <= k THEN d[n]
                                          ELSE get_query_callback(d[k], q[k + 1])]
    <2>2. \A n \in 0 .. k + 1 :
              e[n] = IF n = 0 THEN Data0 ELSE get_query_callback(e[n - 1], q[n])
        <3> TAKE n \in 0 .. k + 1
        <3>1. CASE n = 0
            BY <2>1, <3>1
        <3>2. CASE n \in 1 .. k
            BY <2>1, <3>2
        <3>3. CASE n = k + 1
            BY <3>3
        <3> QED
            BY <3>1, <3>2, <3>3
    <2>3. e = [n \in 0 .. k + 1 |-> IF n = 0 THEN Data0 ELSE get_query_callback(e[n - 1], q[n])]
        BY <2>2
    <2> HIDE DEF e
    <2>4. \E f : IsData(f, k + 1)
        BY <2>3
    <2> HIDE DEF IsData
    <2> QED
        BY <2>4
<1> HIDE DEF P
<1>3. Len(q) \in Nat /\ Len(q) \in P
    BY <1>1, <1>2, SetInduction
<1> USE DEF P
<1> DEFINE data == CHOOSE f : IsData(f, Len(q))
<1>4. IsData(data, Len(q))
    BY <1>3
<1>5. Collected(q) = data[Len(q)]
    BY DEF Collected, Data0
<1> HIDE DEF data
<1>6. \A n \in 0 .. Len(q) :
          data[n] = IF n = 0 THEN Data0 ELSE get_query_callback(data[n - 1], q[n])
    BY <1>4
<1> QED
    BY <1>3, <1>5, <1>6

Datas == [error : BOOLEAN, size : Nat, query : Encoded]

\* One argument: a long one is not taken, an escaped one is taken decoded, the
\* others as they are.
LEMMA CallbackTypes ==
    ASSUME NEW data \in Datas, NEW arg \in Args
    PROVE  LET next == get_query_callback(data, arg)
           IN  /\ next \in Datas
               /\ data.error => next.error
               /\ ~next.error /\ arg \in {"flag", "plain"} => next.query = Append(data.query, arg)
<1> DEFINE next == get_query_callback(data, arg)
<1>1. Size(arg) \in Nat /\ (arg = "long" => Size(arg) = QUERYMAXLEN)
    BY PagesAssumption DEF Size, Args
<1>2. CASE data.error
    BY <1>2 DEF get_query_callback
<1>3. CASE ~data.error /\ 1 + Size(arg) >= QUERYMAXLEN - data.size
    BY <1>3 DEF get_query_callback, Datas
<1>4. CASE ~data.error /\ ~(1 + Size(arg) >= QUERYMAXLEN - data.size)
    <2>1. next = [data EXCEPT !.size = @ + 1 + Size(arg), !.query = @ \o Decoded(arg)]
        BY <1>4 DEF get_query_callback
    <2>2. arg \in {"flag", "plain", "escaped"}
        BY <1>1, <1>4, PagesAssumption DEF Args, Datas
    <2>3. Decoded(arg) \in Encoded
        <3>1. CASE arg = "escaped"
            BY <3>1 DEF Decoded, Encoded
        <3>2. CASE arg # "escaped"
            BY <2>2, <3>2 DEF Decoded, Encoded
        <3> QED
            BY <3>1, <3>2
    <2>4. data.query \in Encoded /\ data.size \in Nat
        BY DEF Datas
    <2>5. data.query \o Decoded(arg) \in Encoded
        BY <2>3, <2>4 DEF Encoded
    <2>6. arg # "escaped" => data.query \o Decoded(arg) = Append(data.query, arg)
        <3>1. arg # "escaped" => Decoded(arg) = <<arg>>
            BY DEF Decoded
        <3> QED
            BY <2>2, <2>4, <3>1, AppendIsConcat DEF Encoded
    <2>7. next = [error |-> FALSE, size |-> data.size + 1 + Size(arg),
                  query |-> data.query \o Decoded(arg)]
        BY <1>4, <2>1 DEF Datas
    <2>8. data.size + 1 + Size(arg) \in Nat
        BY <1>1, <2>4
    <2> HIDE DEF next
    <2>9. next \in Datas
        BY <2>5, <2>7, <2>8 DEF Datas
    <2> QED
        BY <1>4, <2>6, <2>7, <2>9 DEF next
<1> QED
    BY <1>2, <1>3, <1>4

\* A query is collected into flags and plain arguments; one that consists of those
\* stays as it is.
LEMMA CollectedKept ==
    ASSUME NEW q \in Seq(Args)
    PROVE  /\ Collected(q).query \in Encoded
           /\ q \in Encoded /\ ~Collected(q).error => Collected(q).query = q
<1>1. PICK data : /\ data[0] = Data0
                  /\ \A n \in 1 .. Len(q) : data[n] = get_query_callback(data[n - 1], q[n])
                  /\ Collected(q) = data[Len(q)]
    BY CollectedStepwise, Zenon
<1> DEFINE Good(n) == /\ data[n] \in Datas
                      /\ q \in Encoded /\ ~data[n].error => data[n].query = SubSeq(q, 1, n)
           P == {n \in Nat : n <= Len(q) => Good(n)}
<1>2. 0 \in P
    <2>1. <<>> \in Encoded /\ SubSeq(q, 1, 0) = <<>>
        BY DEF Encoded
    <2>2. Good(0)
        BY <1>1, <2>1 DEF Data0, Datas
    <2> HIDE DEF Good
    <2> QED
        BY <2>2
<1>3. ASSUME NEW n \in Nat, n \in P PROVE n + 1 \in P
    <2> SUFFICES ASSUME n + 1 <= Len(q) PROVE Good(n + 1)
        OBVIOUS
    <2>1. Good(n) /\ n + 1 \in 1 .. Len(q) /\ q[n + 1] \in Args
        BY <1>3
    <2>2. data[n + 1] = get_query_callback(data[n], q[n + 1])
        BY <1>1, <2>1
    <2>3. /\ data[n + 1] \in Datas
          /\ data[n].error => data[n + 1].error
          /\ ~data[n + 1].error /\ q[n + 1] \in {"flag", "plain"} =>
                 data[n + 1].query = Append(data[n].query, q[n + 1])
        BY <2>1, <2>2, CallbackTypes
    <2>4. ASSUME q \in Encoded, ~data[n + 1].error
          PROVE  data[n + 1].query = SubSeq(q, 1, n + 1)
        <3>1. q[n + 1] \in {"flag", "plain"}
            BY <2>1, <2>4 DEF Encoded
        <3>2. data[n + 1].query = Append(SubSeq(q, 1, n), q[n + 1])
            BY <2>1, <2>3, <2>4, <3>1
        <3>3. Append(SubSeq(q, 1, n), q[n + 1]) = SubSeq(q, 1, n + 1)
            BY <2>1
        <3> QED
            BY <3>2, <3>3
    <2> QED
        BY <2>3, <2>4
<1> HIDE DEF P
<1>4. Len(q) \in P
    BY <1>2, <1>3, SetInduction
<1>5. Good(Len(q))
    BY <1>4 DEF P
<1>6. SubSeq(q, 1, Len(q)) = q
    OBVIOUS
<1> QED
    BY <1>1, <1>5, <1>6 DEF Datas

-----------------------------------------------------------------------------
(* Every answer keeps the invariant.                                       *)

\* An answer sends the window on to an address, or shows it a page.
Answered(w) ==
    \/ \E url \in Urls : Leads(w, url) /\ GoTo(w, url)
    \/ \E p \in Pages : Shown(w, p) /\ Show(w, p)

\* The empty address and the missing one fit the buffers; so does what is encoded.
LEMMA RedirFacts ==
    /\ NoSite \in Redirs /\ NoToken \in Tokens
    /\ <<>> \in Redirs
    /\ \A r \in Encoded : EncodedSize(r) < QUERYMAXLEN => r \in Redirs
    /\ Redirs \subseteq Encoded \cup {NoSite}
<1>1. \A r \in Encoded : EncodedSize(r) < QUERYMAXLEN => r \in Redirs
    BY DEF Redirs, Fits, Encoded
<1>2. <<>> \in Encoded /\ EncodedSize(<<>>) = 0
    <2>1. {n \in DOMAIN <<>> : <<>>[n] = "flag"} = {}
        OBVIOUS
    <2>2. Cardinality({n \in DOMAIN <<>> : <<>>[n] = "flag"}) = 0
        BY <2>1, FS_EmptySet
    <2> QED
        BY <2>2 DEF EncodedSize, Encoded
<1>3. <<>> \in Redirs
    BY <1>1, <1>2, PagesAssumption
<1> QED
    BY <1>1, <1>3 DEF Redirs, Fits, Tokens

\* The encoded size of a query is a number.
LEMMA EncodedIsNumber == ASSUME NEW r \in Encoded PROVE EncodedSize(r) \in Int
<1>1. IsFiniteSet(DOMAIN r) /\ Len(r) \in Nat
    BY FS_Interval, LenProperties DEF Encoded
<1>2. Cardinality({n \in DOMAIN r : r[n] = "flag"}) \in Nat
    BY <1>1, FS_Subset, FS_CardinalityType
<1> QED
    BY <1>1, <1>2 DEF EncodedSize

\* Pages without an address, and errors.
LEMMA PlainShown ==
    ASSUME NEW w \in Windows, NEW kind \in {"blank", "site", "error", "file"}
    PROVE  Plain(kind) \in Pages /\ Shown(w, Plain(kind)) /\ Nothing.url \in Urls
<1>1. <<>> \in Seq(Args)
    OBVIOUS
<1>2. Nothing.url \in Urls
    BY <1>1, RedirFacts DEF Nothing, Ours, Urls
<1> QED
    BY <1>2, RedirFacts DEF Plain, Page, Pages, Shown

\* A page of the gateway with a redir argument that fits.
LEMMA OursLeads ==
    ASSUME NEW w \in Windows, NEW to \in Kinds \ {"site", "deny"}, NEW tok \in Tokens,
           NEW redir \in Redirs, Kept(w, redir)
    PROVE  Ours(to, tok, redir) \in Urls /\ Leads(w, Ours(to, tok, redir))
<1>1. <<>> \in Seq(Args)
    OBVIOUS
<1> QED
    BY <1>1 DEF Ours, Urls, Leads

\* The splash page gets the address, unless it does not fit.
LEMMA EncodeAnswers ==
    ASSUME NEW w \in Windows, NEW redir \in Encoded \cup {NoSite}, Kept(w, redir),
           encode_and_redirect_to_splashpage(w, redir)
    PROVE  Answered(w)
<1>1. CASE redir # NoSite /\ EncodedSize(redir) >= QUERYMAXLEN
    BY <1>1, PlainShown DEF encode_and_redirect_to_splashpage, send_error, Answered
<1>2. CASE ~(redir # NoSite /\ EncodedSize(redir) >= QUERYMAXLEN)
    <2>1. redir \in Redirs
        <3>1. CASE redir = NoSite
            BY <3>1, RedirFacts
        <3>2. CASE redir # NoSite
            <4>1. EncodedSize(redir) \in Int
                BY <3>2, EncodedIsNumber
            <4> QED
                BY <1>2, <3>2, <4>1, RedirFacts, PagesAssumption
        <3> QED
            BY <3>1, <3>2
    <2>2. GoTo(w, Ours("splash", NoToken, redir))
        BY <1>2 DEF encode_and_redirect_to_splashpage, send_redirect_temp
    <2>3. "splash" \in Kinds \ {"site", "deny"} /\ NoToken \in Tokens
        BY RedirFacts DEF Kinds
    <2> QED
        BY <2>1, <2>2, <2>3, OursLeads DEF Answered
<1> QED
    BY <1>1, <1>2

\* What a window that may ask for url is answered while the client is behind the
\* portal.
LEMMA PreauthenticatedAnswers ==
    ASSUME NEW w \in Windows, NEW url \in Urls, Leads(w, url), redirectURL \in Redirs,
           token \in Nat, preauthenticated(w, url)
    PROVE  Answered(w)
<1> DEFINE redir == IF redirectURL # NoSite THEN redirectURL ELSE url.redir
<1>1. CASE url.to = "site"
    <2>1. url.args \in Seq(Args)
        BY DEF Urls
    <2>2. redirect_to_splashpage(w, url)
        BY <1>1 DEF preauthenticated, is_foreign_hosts
    <2>3. CASE Collected(url.args).error
        BY <2>2, <2>3, PlainShown DEF redirect_to_splashpage, send_error, Answered
    <2>4. CASE ~Collected(url.args).error
        <3>1. Kept(w, Collected(url.args).query) /\ Collected(url.args).query \in Encoded
            BY <1>1, <2>1, <2>4, CollectedKept DEF Leads
        <3>2. encode_and_redirect_to_splashpage(w, Collected(url.args).query)
            BY <2>2, <2>4 DEF redirect_to_splashpage
        <3> QED
            BY <3>1, <3>2, EncodeAnswers
    <2> QED
        BY <2>3, <2>4
<1>2. CASE url.to = "auth"
    <2>1. redir \in Redirs /\ Kept(w, redir)
        BY <1>2 DEF Leads, Urls, Kept
    <2>2. redir \in Encoded \cup {NoSite}
        BY <2>1, RedirFacts
    <2>3. \/ encode_and_redirect_to_splashpage(w, redir)
          \/ redir = NoSite /\ GoTo(w, url)
          \/ redir # NoSite /\ GoTo(w, Site(redir))
        BY <1>2 DEF preauthenticated, is_foreign_hosts, authenticate_client, send_redirect_temp
    <2>4. redir # NoSite => Site(redir) \in Urls /\ Leads(w, Site(redir))
        <3> SUFFICES ASSUME redir # NoSite PROVE Site(redir) \in Urls /\ Leads(w, Site(redir))
            OBVIOUS
        <3>1. redir \in Encoded /\ redir \in Seq(Args)
            <4>1. redir \in Encoded
                BY <2>2
            <4>2. {"flag", "plain"} \subseteq Args
                BY DEF Args
            <4> QED
                BY <4>1, <4>2, SeqMonotonic DEF Encoded
        <3>2. ~Collected(redir).error => Collected(redir).query = redir
            BY <3>1, CollectedKept
        <3> HIDE DEF redir
        <3>3. Leads(w, Site(redir))
            BY <2>1, <3>2 DEF Leads, Site, Kinds
        <3>4. Site(redir) \in Urls
            BY <3>1, RedirFacts DEF Site, Urls, Kinds
        <3> QED
            BY <3>3, <3>4
    <2> HIDE DEF redir
    <2> QED
        BY <2>1, <2>2, <2>3, <2>4, EncodeAnswers DEF Answered
<1>3. CASE url.to \in {"root", "splash"}
    <2> DEFINE p == [kind |-> "splash", tok |-> token, redir |-> url.redir, url |-> url]
    <2>1. Show(w, p)
        BY <1>3 DEF preauthenticated, is_foreign_hosts, show_splashpage
    <2>2. token \in Tokens
        BY DEF Tokens
    <2>3. p \in Pages
        BY <2>2 DEF Pages, Urls
    <2>4. Shown(w, p)
        BY <1>3 DEF Shown, Leads
    <2> QED
        BY <2>1, <2>3, <2>4 DEF Answered
<1>4. CASE url.to \notin {"site", "auth", "root", "splash"}
    BY <1>4, PlainShown
    DEF preauthenticated, is_foreign_hosts, serve_file, send_error, Answered
<1> QED
    BY <1>1, <1>2, <1>3, <1>4

\* And while it is authenticated.
LEMMA AuthenticatedAnswers ==
    ASSUME NEW w \in Windows, NEW url \in Urls, Leads(w, url), authenticated(w, url)
    PROVE  Answered(w)
<1>1. CASE url.to = "site"
    BY <1>1 DEF authenticated, is_foreign_hosts, send_refresh, Answered
<1>2. CASE url.to = "deny"
    <2>1. GoTo(w, Ours("root", NoToken, NoSite))
        BY <1>2 DEF authenticated, is_foreign_hosts, send_redirect_temp
    <2>2. Kept(w, NoSite)
        BY <1>2 DEF Leads
    <2>3. "root" \in Kinds \ {"site", "deny"} /\ NoToken \in Tokens /\ NoSite \in Redirs
        BY RedirFacts DEF Kinds
    <2> QED
        BY <2>1, <2>2, <2>3, OursLeads DEF Answered
<1>3. CASE url.to = "auth"
    <2>1. Show(w, Page("status", url))
        BY <1>3 DEF authenticated, is_foreign_hosts, show_statuspage
    <2>2. Page("status", url) \in Pages
        BY RedirFacts DEF Page, Pages
    <2>3. Shown(w, Page("status", url))
        BY <1>3 DEF Page, Shown, Leads
    <2> QED
        BY <2>1, <2>2, <2>3 DEF Answered
<1>4. CASE url.to \notin {"site", "deny", "auth"}
    BY <1>4, PlainShown DEF authenticated, is_foreign_hosts, serve_file, send_error, Answered
<1> QED
    BY <1>1, <1>2, <1>3, <1>4

\* A step that asks for an address that leads on, or shows a page that does, keeps
\* the invariant.
LEMMA WindowStep ==
    ASSUME PagesInv, NEW w \in Windows,
           UNCHANGED <<redirectURL, token>>, mark' \in {"preauth", "auth"},
           upsets' \in 0 .. MaxUpsets, upsets <= upsets',
           origin' \in [Windows -> Sites \cup {NoSite}],
           \A v \in Windows \ {w} : origin'[v] = origin[v],
           \/ \E url \in Urls : Leads(w, url)' /\ GoTo(w, url)
           \/ \E p \in Pages : Shown(w, p)' /\ Show(w, p)
    PROVE  PagesInv'
<1> USE DEF PagesInv
<1>1. Redirs' = Redirs /\ Tokens' = Tokens
    BY DEF Redirs, Tokens
<1>2. Urls' = Urls /\ Pages' = Pages
    BY <1>1 DEF Urls, Pages
<1>3. ASSUME NEW v \in Windows \ {w}
      PROVE  /\ \A r : Kept(v, r)' <=> Kept(v, r)
             /\ \A url : Leads(v, url)' <=> Leads(v, url)
             /\ \A p : Shown(v, p)' <=> Shown(v, p)
    <2>1. \A r : Kept(v, r)' <=> Kept(v, r)
        BY <1>3 DEF Kept, Wanted
    <2> QED
        BY <2>1 DEF Leads, Shown
<1>4. CASE \E url \in Urls : Leads(w, url)' /\ GoTo(w, url)
    <2>1. PICK url \in Urls : Leads(w, url)' /\ GoTo(w, url)
        BY <1>4
    <2>2. request' = [request EXCEPT ![w] = Ask(url)] /\ page' = page
        BY <2>1 DEF GoTo
    <2>3. Ask(url) \in [url : Urls, captured : BOOLEAN] /\ Ask(url).url = url
        BY DEF Ask
    <2>4. Waits(w)'
        <3>1. url.to # "none"
            BY <2>1 DEF Leads, Kinds
        <3>2. Nothing.url.to = "none"
            BY DEF Nothing, Ours
        <3> QED
            BY <2>2, <2>3, <3>1, <3>2 DEF Waits
    <2>5. request' \in [Windows -> [url : Urls, captured : BOOLEAN]]
        BY <2>2, <2>3
    <2>6. \A v \in Windows : IF Waits(v)' THEN Leads(v, request[v].url)' ELSE Shown(v, page[v])'
        <3> TAKE v \in Windows
        <3>1. CASE v = w
            BY <2>1, <2>2, <2>3, <2>4, <3>1
        <3>2. CASE v # w
            <4>1. request'[v] = request[v] /\ page'[v] = page[v]
                BY <2>2, <3>2
            <4> QED
                BY <1>3, <3>2, <4>1 DEF Waits
        <3> QED
            BY <3>1, <3>2
    <2> QED
        BY <1>1, <1>2, <2>2, <2>5, <2>6
<1>5. CASE \E p \in Pages : Shown(w, p)' /\ Show(w, p)
    <2>1. PICK p \in Pages : Shown(w, p)' /\ Show(w, p)
        BY <1>5
    <2>2. request' = [request EXCEPT ![w] = Nothing] /\ page' = [page EXCEPT ![w] = p]
        BY <2>1 DEF Show
    <2>3. Nothing \in [url : Urls, captured : BOOLEAN]
        BY PlainShown DEF Nothing
    <2>4. /\ request' \in [Windows -> [url : Urls, captured : BOOLEAN]]
          /\ page' \in [Windows -> Pages]
        BY <2>2, <2>3
    <2>5. \A v \in Windows : IF Waits(v)' THEN Leads(v, request[v].url)' ELSE Shown(v, page[v])'
        <3> TAKE v \in Windows
        <3>1. CASE v = w
            BY <2>1, <2>2, <3>1 DEF Waits
        <3>2. CASE v # w
            <4>1. request'[v] = request[v] /\ page'[v] = page[v]
                BY <2>2, <3>2
            <4> QED
                BY <1>3, <3>2, <4>1 DEF Waits
        <3> QED
            BY <3>1, <3>2
    <2> QED
        BY <1>1, <1>2, <2>4, <2>5
<1> QED
    BY <1>4, <1>5

\* The daemon begins with windows that ask for nothing and show nothing.
LEMMA PagesInit == Init => PagesInv
<1> SUFFICES ASSUME Init PROVE PagesInv
    OBVIOUS
<1>1. redirectURL \in Redirs
    BY RedirFacts DEF Init
<1>2. upsets \in 0 .. MaxUpsets /\ token \in 0 .. upsets
    BY PagesAssumption DEF Init
<1>3. ASSUME NEW w \in Windows
      PROVE  /\ Nothing \in [url : Urls, captured : BOOLEAN] /\ Plain("blank") \in Pages
             /\ ~Waits(w) /\ Shown(w, page[w])
    BY <1>3, PlainShown DEF Init, Nothing, Waits
<1>4. /\ request \in [Windows -> [url : Urls, captured : BOOLEAN]]
      /\ page \in [Windows -> Pages]
    BY <1>3 DEF Init
<1> QED
    BY <1>1, <1>2, <1>3, <1>4 DEF Init, PagesInv

\* Every step of a guest, of the daemon or of the clock keeps the invariant.
LEMMA PagesStep == PagesInv /\ [Next]_vars => PagesInv'
<1> SUFFICES ASSUME PagesInv, [Next]_vars PROVE PagesInv'
    OBVIOUS
<1>1. ASSUME NEW w \in Windows, Handle(w) PROVE PagesInv'
    <2> DEFINE url == request[w].url
    <2>1. url \in Urls /\ Leads(w, url) /\ redirectURL \in Redirs /\ token \in Nat
        BY <1>1 DEF Handle, PagesInv
    <2>2. Answered(w) /\ mark' \in {"preauth", "auth"}
        <3>1. CASE ~request[w].captured
            BY <1>1, <3>1, PlainShown DEF Handle, Answered, PagesInv
        <3>2. CASE request[w].captured /\ mark = "auth"
            <4>1. authenticated(w, url)
                BY <1>1, <3>2 DEF Handle
            <4>2. mark' \in {"preauth", "auth"}
                BY <3>2, <4>1 DEF authenticated
            <4> QED
                BY <2>1, <4>1, <4>2, AuthenticatedAnswers
        <3>3. CASE request[w].captured /\ mark # "auth"
            <4>1. preauthenticated(w, url)
                BY <1>1, <3>3 DEF Handle
            <4>2. mark' \in {"preauth", "auth"}
                BY <4>1 DEF preauthenticated, authenticate_client, PagesInv
            <4> QED
                BY <2>1, <4>1, <4>2, PreauthenticatedAnswers
        <3> QED
            BY <3>1, <3>2, <3>3
    <2>3. UNCHANGED <<redirectURL, token, origin, upsets>>
        BY <1>1 DEF Handle
    <2>4. /\ \A u : Leads(w, u)' <=> Leads(w, u)
          /\ \A p : Shown(w, p)' <=> Shown(w, p)
        BY <2>3 DEF Leads, Shown, Kept, Wanted
    <2> QED
        BY <2>2, <2>3, <2>4, WindowStep DEF Answered, PagesInv
<1>2. ASSUME NEW w \in Windows, Submit(w) PROVE PagesInv'
    <2>1. /\ page[w] \in Pages /\ page[w].kind = "splash" /\ ~Waits(w)
          /\ GoTo(w, Ours("auth", page[w].tok, page[w].redir))
          /\ UNCHANGED <<redirectURL, mark, token, origin, upsets>>
        BY <1>2 DEF Submit, PagesInv, daemon
    <2>2. page[w].tok \in Tokens /\ page[w].redir \in Redirs /\ Kept(w, page[w].redir)
        BY <2>1 DEF PagesInv, Shown, Pages
    <2>3. PICK url \in Urls : Leads(w, url) /\ GoTo(w, url)
        <3>1. "auth" \in Kinds \ {"site", "deny"}
            BY DEF Kinds
        <3> QED
            BY <2>1, <2>2, <3>1, OursLeads
    <2>4. Leads(w, url)'
        BY <2>1, <2>3 DEF Leads, Kept, Wanted
    <2> QED
        BY <2>1, <2>3, <2>4, WindowStep DEF PagesInv
<1>3. ASSUME NEW w \in Windows, Reload(w) PROVE PagesInv'
    <2>1. /\ page[w] \in Pages /\ page[w].kind \in {"splash", "status"} /\ ~Waits(w)
          /\ GoTo(w, page[w].url) /\ UNCHANGED <<redirectURL, mark, token, origin, upsets>>
        BY <1>3 DEF Reload, PagesInv, daemon
    <2>2. PICK url \in Urls : Leads(w, url) /\ GoTo(w, url)
        <3>1. page[w].url \in Urls /\ Shown(w, page[w])
            BY <2>1 DEF PagesInv, Pages
        <3>2. Leads(w, page[w].url)
            BY <2>1, <3>1 DEF Shown, Leads
        <3> QED
            BY <2>1, <3>1, <3>2
    <2>3. Leads(w, url)'
        BY <2>1, <2>2 DEF Leads, Kept, Wanted
    <2> QED
        BY <2>1, <2>2, <2>3, WindowStep DEF PagesInv
<1>4. ASSUME NEW w \in Windows, NEW q \in Sites, Visit(w, q) PROVE PagesInv'
    <2>1. /\ GoTo(w, Site(q)) /\ origin' = [origin EXCEPT ![w] = q]
          /\ UNCHANGED <<redirectURL, mark, token, upsets>>
        BY <1>4 DEF Visit, daemon
    <2>2. q \in Seq(Args) /\ q # NoSite
        BY PagesAssumption
    <2>3. Site(q) \in Urls
        BY <2>2, RedirFacts DEF Site, Urls, Kinds
    <2>4. Wanted(w)' = Collected(q).query
        BY <2>1, <2>2 DEF Wanted, PagesInv
    <2>5. Leads(w, Site(q))'
        BY <2>4 DEF Leads, Kept, Site, Kinds
    <2>6. /\ origin' \in [Windows -> Sites \cup {NoSite}]
          /\ \A v \in Windows \ {w} : origin'[v] = origin[v]
        BY <2>1 DEF PagesInv
    <2> QED
        BY <2>1, <2>3, <2>5, <2>6, WindowStep DEF PagesInv
<1>5. ASSUME NEW w \in Windows, NEW to \in Typed, Type(w, to) PROVE PagesInv'
    <2> DEFINE url == Ours(to, NoToken, NoSite)
    <2>1. /\ GoTo(w, url) /\ origin' = [origin EXCEPT ![w] = NoSite]
          /\ upsets < MaxUpsets /\ upsets' = upsets + 1
          /\ UNCHANGED <<redirectURL, mark, token>>
        BY <1>5 DEF Type, daemon
    <2>2. to \in Kinds \ {"site"}
        BY PagesAssumption DEF Kinds
    <2>3. url \in Urls
        <3>1. <<>> \in Seq(Args)
            OBVIOUS
        <3> QED
            BY <2>2, <3>1, RedirFacts DEF Ours, Urls
    <2>4. Wanted(w)' = NoSite
        BY <2>1 DEF Wanted, PagesInv
    <2>5. Leads(w, url)'
        BY <2>2, <2>4 DEF Leads, Kept, Ours
    <2>6. /\ origin' \in [Windows -> Sites \cup {NoSite}]
          /\ \A v \in Windows \ {w} : origin'[v] = origin[v]
        BY <2>1 DEF PagesInv
    <2>7. upsets' \in 0 .. MaxUpsets /\ upsets <= upsets'
        BY <2>1, PagesAssumption DEF PagesInv
    <2> HIDE DEF url
    <2> QED
        BY <2>1, <2>3, <2>5, <2>6, <2>7, WindowStep DEF PagesInv
<1>6. CASE Upset
    <2>1. /\ upsets < MaxUpsets /\ upsets' = upsets + 1 /\ mark' = "preauth"
          /\ token' \in {token, token + 1}
          /\ UNCHANGED <<redirectURL, request, page, origin>>
        BY <1>6 DEF Upset
    <2>2. upsets' \in 0 .. MaxUpsets /\ token' \in 0 .. upsets' /\ Tokens \subseteq Tokens'
        BY <2>1, PagesAssumption DEF PagesInv, Tokens
    <2>3. Redirs' = Redirs /\ Urls \subseteq Urls' /\ Pages \subseteq Pages'
        <3>1. Redirs' = Redirs
            BY DEF Redirs
        <3>2. Urls \subseteq Urls'
            BY <2>2, <3>1 DEF Urls
        <3> QED
            BY <2>2, <3>1, <3>2 DEF Pages
    <2>4. /\ request' \in [Windows -> [url : Urls', captured : BOOLEAN]]
          /\ page' \in [Windows -> Pages']
        BY <2>1, <2>3 DEF PagesInv
    <2>5. \A w \in Windows : /\ Waits(w)' <=> Waits(w)
                             /\ \A u : Leads(w, u)' <=> Leads(w, u)
                             /\ \A p : Shown(w, p)' <=> Shown(w, p)
        BY <2>1 DEF Waits, Leads, Shown, Kept, Wanted
    <2> QED
        BY <2>1, <2>2, <2>3, <2>4, <2>5 DEF PagesInv
<1>7. CASE UNCHANGED vars
    <2>1. UNCHANGED <<redirectURL, mark, token, request, page, origin, upsets>>
        BY <1>7 DEF vars, daemon
    <2>2. Redirs' = Redirs /\ Urls' = Urls /\ Pages' = Pages
        BY <2>1 DEF Redirs, Urls, Pages, Tokens
    <2>3. \A w \in Windows : /\ Waits(w)' <=> Waits(w)
                             /\ \A u : Leads(w, u)' <=> Leads(w, u)
                             /\ \A p : Shown(w, p)' <=> Shown(w, p)
        BY <2>1 DEF Waits, Leads, Shown, Kept, Wanted
    <2> QED
        BY <2>1, <2>2, <2>3 DEF PagesInv
<1> QED
    BY <1>1, <1>2, <1>3, <1>4, <1>5, <1>6, <1>7 DEF Next

\* Together: the invariant of the pages.
LEMMA PagesCorrect == Spec => []PagesInv
BY PagesInit, PagesStep, PTL DEF Spec

\* No address that a redirect or a page carries is longer than the buffers its
\* query was collected and encoded in, and none holds an argument that was not
\* decoded; a page's token is never newer than the client's.
THEOREM PagesTypes == Spec => []TypeOK
<1>1. PagesInv => TypeOK
    <2> SUFFICES ASSUME PagesInv PROVE TypeOK
        OBVIOUS
    <2>1. \A r \in Redirs : Fits(r)
        BY DEF Redirs
    <2>2. token \in 0 .. MaxUpsets
        BY PagesAssumption DEF PagesInv
    <2>3. \A w \in Windows :
              /\ request[w].captured \in BOOLEAN
              /\ request[w].url.redir \in Redirs /\ page[w].redir \in Redirs
              /\ page[w].url.redir \in Redirs
              /\ request[w].url.tok \in Tokens /\ page[w].tok \in Tokens
        BY DEF PagesInv, Urls, Pages
    <2> QED
        BY <2>1, <2>2, <2>3 DEF PagesInv, TypeOK, Tokens
<1> QED
    BY <1>1, PagesCorrect, PTL

\* Through any redirects, wrong tokens, refusals, reloads and upsets, the form of a
\* splash page leads to the site its window was asked for, or to the configured
\* address.
THEOREM FormLeadsToOrigin == Spec => []OriginKept
<1>1. PagesInv => OriginKept
    BY DEF PagesInv, Shown, OriginKept
<1> QED
    BY <1>1, PagesCorrect, PTL
=============================================================================
