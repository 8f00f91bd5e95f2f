------------------------------ MODULE CaptivePages -----------------------------
(***************************************************************************)
(* What http_microhttpd.c answers and what a guest's browser makes of it:   *)
(* the windows of one station ask for sites and for pages of the gateway,   *)
(* follow redirects, show pages and submit the signup form, while the       *)
(* daemon signs the station up, puts it back behind the portal or forgets   *)
(* it.  A site is known by its query, a sequence of arguments.  Requests    *)
(* are handled one at a time here; HttpHandlers has their interleaving.     *)
(***************************************************************************)
EXTENDS Integers, Sequences, FiniteSets

CONSTANTS
    Windows,       \* the windows of the guest
    Sites,         \* the addresses the guest asks for
    Typed,         \* the pages of the gateway the guest types in
    NoSite,        \* no address in a redir argument
    NoToken,       \* no tok argument
    BinAuth,       \* a binauth program is configured
    QUERYMAXLEN,   \* the size of the buffers for a query
    MaxUpsets      \* bound: how often a page is typed in, or a session ends or the
                   \* client is forgotten

Args == {"flag", "plain", "escaped", "long"}

ASSUME PagesAssumption ==
    /\ Sites \subseteq Seq(Args) /\ NoSite \notin Seq(Args)
    /\ Typed \subseteq {"root", "splash", "auth", "deny", "file"}
    /\ NoToken \notin Nat /\ BinAuth \in BOOLEAN
    /\ QUERYMAXLEN \in Nat \ {0} /\ MaxUpsets \in Nat

VARIABLES
    redirectURL,  \* config->redirectURL
    mark,         \* the state of the client
    token,        \* client->token
    request,      \* what each window has asked for and waits for
    page,         \* what it shows
    origin,       \* history: the site the guest wanted there
    upsets        \* bookkeeping for the bound

daemon == <<redirectURL, mark, token>>
vars == <<daemon, request, page, origin, upsets>>

-----------------------------------------------------------------------------
(* Addresses, requests and pages.                                          *)

Site(q) == [to |-> "site", args |-> q, tok |-> NoToken, redir |-> NoSite]
Ours(to, tok, redir) == [to |-> to, args |-> <<>>, tok |-> tok, redir |-> redir]

\* A connection is taken to the daemon if it is made while the client is behind
\* the portal, and whenever it is for the gateway.
Ask(url) == [url |-> url, captured |-> url.to # "site" \/ mark = "preauth"]
Nothing == [url |-> Ours("none", NoToken, NoSite), captured |-> FALSE]
Waits(w) == request[w] # Nothing

\* The url of a page is kept where a reload of it matters.
Page(kind, url) == [kind |-> kind, tok |-> NoToken, redir |-> NoSite, url |-> url]
Plain(kind) == Page(kind, Nothing.url)

Show(w, p) == page' = [page EXCEPT ![w] = p] /\ request' = [request EXCEPT ![w] = Nothing]
GoTo(w, url) == request' = [request EXCEPT ![w] = Ask(url)] /\ UNCHANGED page

-----------------------------------------------------------------------------
(* The query of a foreign address.                                         *)

Size(arg) == CASE arg = "flag" -> 1 [] arg = "plain" -> 3 [] arg = "escaped" -> 5
                  [] arg = "long" -> QUERYMAXLEN

\* libmicrohttpd hands out arguments decoded: an escaped "&" splits one in two.
Decoded(arg) == IF arg = "escaped" THEN <<"plain", "flag">> ELSE <<arg>>

\* The separator and one argument are appended if they fit; if not the rest of
\* the query is not looked at.
get_query_callback(data, arg) ==
    IF data.error THEN data
    ELSE IF 1 + Size(arg) >= QUERYMAXLEN - data.size THEN [data EXCEPT !.error = TRUE]
    ELSE [data EXCEPT !.size = @ + 1 + Size(arg), !.query = @ \o Decoded(arg)]

\* Encoding takes three bytes for a separator or a "=".
EncodedSize(q) == 8 * Len(q) - 4 * Cardinality({n \in DOMAIN q : q[n] = "flag"})

\* MHD_get_connection_values calls it for one argument after the other.
Collected(q) ==
    LET data[n \in 0 .. Len(q)] ==
            IF n = 0 THEN [error |-> FALSE, size |-> 0, query |-> <<>>]
            ELSE get_query_callback(data[n - 1], q[n])
    IN  data[Len(q)]

-----------------------------------------------------------------------------
(* Answers.  Each is for the window w that asked for url.                  *)

\* Mutant of is_foreign_hosts: only the name with the port is taken for ours.
is_foreign_hosts_port(url) == TRUE
is_foreign_hosts(url) == url.to = "site"

send_error(w) == Show(w, Plain("error"))
send_redirect_temp(w, url) == GoTo(w, url)

\* The page asks for itself again after a second.
send_refresh(w, url) == GoTo(w, url)

\* Mutants of encode_and_redirect_to_splashpage: the address is left out; the
\* room for the encoded address is not looked at.
encode_and_redirect_bare(w, redir) ==
    send_redirect_temp(w, Ours("splash", NoToken, NoSite))
encode_and_redirect_unbounded(w, redir) ==
    send_redirect_temp(w, Ours("splash", NoToken, redir))

encode_and_redirect_to_splashpage(w, redir) ==
    IF redir # NoSite /\ EncodedSize(redir) >= QUERYMAXLEN
    THEN send_error(w)
    ELSE send_redirect_temp(w, Ours("splash", NoToken, redir))

redirect_to_splashpage(w, url) ==
    LET data == Collected(url.args)
    IN  IF data.error THEN send_error(w)
        ELSE encode_and_redirect_to_splashpage(w, data.query)

\* Mutant of show_splashpage: the page keeps the token the client began with.
show_splashpage_stale(w, url) ==
    Show(w, [kind |-> "splash", tok |-> 0, redir |-> url.redir, url |-> url])

\* The template's tok and redir are filled in.
show_splashpage(w, url) ==
    Show(w, [kind |-> "splash", tok |-> token, redir |-> url.redir, url |-> url])
show_statuspage(w, url) == Show(w, Page("status", url))

\* A file under the webroot, the splash page with its variables left as they
\* are among them; "/" is a directory.
serve_file(w, url) ==
    IF url.to \in {"splash", "file"} THEN Show(w, Plain("file")) ELSE send_error(w)

authenticate_client(w, url, redir) ==
    \/ /\ mark' = "auth"
       /\ IF redir = NoSite THEN send_redirect_temp(w, url)  \* an empty Location
                            ELSE send_redirect_temp(w, Site(redir))
    \/ BinAuth /\ UNCHANGED mark /\ encode_and_redirect_to_splashpage(w, redir)

try_to_authenticate(url) == url.tok = token

preauthenticated(w, url) ==
    LET redir == IF redirectURL # NoSite THEN redirectURL ELSE url.redir
    IN  CASE is_foreign_hosts(url) -> redirect_to_splashpage(w, url) /\ UNCHANGED mark
          [] ~is_foreign_hosts(url) /\ url.to = "auth" ->
                 IF try_to_authenticate(url)
                 THEN authenticate_client(w, url, redir)
                 ELSE encode_and_redirect_to_splashpage(w, redir) /\ UNCHANGED mark
          [] ~is_foreign_hosts(url) /\ url.to \in {"root", "splash"} ->
                 show_splashpage(w, url) /\ UNCHANGED mark
          [] OTHER -> serve_file(w, url) /\ UNCHANGED mark

authenticated(w, url) ==
    CASE is_foreign_hosts(url) -> send_refresh(w, url) /\ UNCHANGED mark
      [] url.to = "deny" ->
             mark' = "preauth" /\ send_redirect_temp(w, Ours("root", NoToken, NoSite))
      [] url.to = "auth" -> show_statuspage(w, url) /\ UNCHANGED mark
      [] OTHER -> serve_file(w, url) /\ UNCHANGED mark

\* A request reaches its site, or libmicrohttpd_cb.
Handle(w) ==
    LET url == request[w].url
    IN  /\ Waits(w)
        /\ IF ~request[w].captured THEN Show(w, Plain("site")) /\ UNCHANGED mark
           ELSE IF mark = "auth" THEN authenticated(w, url) ELSE preauthenticated(w, url)
        /\ UNCHANGED <<redirectURL, token, origin, upsets>>

-----------------------------------------------------------------------------
(* The guest, and what else happens to the client.                         *)

\* A site is asked for, in any window and at any time.
Visit(w, q) ==
    /\ ~Waits(w)
    /\ origin' = [origin EXCEPT ![w] = q]
    /\ GoTo(w, Site(q))
    /\ UNCHANGED <<daemon, upsets>>

\* A page of the gateway is typed in, without arguments.
Type(w, to) ==
    /\ ~Waits(w)
    /\ upsets < MaxUpsets /\ upsets' = upsets + 1
    /\ origin' = [origin EXCEPT ![w] = NoSite]
    /\ GoTo(w, Ours(to, NoToken, NoSite))
    /\ UNCHANGED daemon

Reload(w) ==
    /\ ~Waits(w) /\ page[w].kind \in {"splash", "status"}
    /\ GoTo(w, page[w].url)
    /\ UNCHANGED <<daemon, origin, upsets>>

\* The form of the splash page.
Submit(w) ==
    /\ ~Waits(w) /\ page[w].kind = "splash"
    /\ GoTo(w, Ours("auth", page[w].tok, page[w].redir))
    /\ UNCHANGED <<daemon, origin, upsets>>

\* The session ends, or the client was idle, is forgotten and gets a new token.
Upset ==
    /\ upsets < MaxUpsets
    /\ upsets' = upsets + 1
    /\ mark' = "preauth"
    /\ token' = IF mark = "preauth" THEN token + 1 ELSE token
    /\ UNCHANGED <<redirectURL, request, page, origin>>

Init ==
    /\ redirectURL \in {NoSite, <<>>}
    /\ mark = "preauth" /\ token = 0
    /\ request = [w \in Windows |-> Nothing]
    /\ page = [w \in Windows |-> Plain("blank")]
    /\ origin = [w \in Windows |-> NoSite]
    /\ upsets = 0

Next ==
    \/ \E w \in Windows :
          \/ Handle(w) \/ Submit(w) \/ Reload(w)
          \/ \E q \in Sites : Visit(w, q)
          \/ \E to \in Typed : Type(w, to)
    \/ Upset

\* Every request is answered; a guest who sees the form submits it at last, and
\* a binauth program that is asked again and again lets the guest in.
Spec ==
    /\ Init /\ [][Next]_vars
    /\ \A w \in Windows : /\ WF_vars(Handle(w))
                          /\ SF_vars(Submit(w))
                          /\ SF_vars(Handle(w) /\ mark' = "auth" /\ mark # "auth")

-----------------------------------------------------------------------------
Fits(redir) == \/ redir = NoSite
               \/ redir \in Seq({"flag", "plain"}) /\ EncodedSize(redir) < QUERYMAXLEN

\* The state of client, windows and requests has its types; no address in a page
\* or a redirect is longer than the buffers its query was collected and encoded in.
TypeOK ==
    /\ Fits(redirectURL)
    /\ mark \in {"preauth", "auth"} /\ token \in 0 .. MaxUpsets
    /\ \A w \in Windows :
          /\ request[w].captured \in BOOLEAN
          /\ \A r \in {request[w].url.redir, page[w].redir, page[w].url.redir} : Fits(r)
          /\ {request[w].url.tok, page[w].tok} \subseteq {NoToken} \cup 0 .. token
          /\ origin[w] \in Sites \cup {NoSite}
    /\ upsets \in 0 .. MaxUpsets

\* The address a window is to be led to, and the ones that may stand for it.
Wanted(w) == IF origin[w] = NoSite THEN NoSite ELSE Collected(origin[w]).query
Kept(w, redir) == redir = Wanted(w) \/ (redirectURL # NoSite /\ redir = redirectURL)

\* "Redirect to splashpage but hold query redir intact" (576): through redirects,
\* wrong tokens and refusals the form leads to the site the guest asked for, its
\* arguments decoded, or to the configured address.
OriginKept ==
    \A w \in Windows : page[w].kind = "splash" /\ ~Waits(w) => Kept(w, page[w].redir)

\* No answers of the daemon keep a browser going from one to the next for ever.
AnswersEnd == \A w \in Windows : Waits(w) ~> ~Waits(w)

\* A guest who keeps submitting the form gets past it, though the token on the
\* page may be an old one, a binauth program refuses and sessions end meanwhile.
FormLeadsOn == \A w \in Windows : page[w].kind = "splash" ~> page[w].kind # "splash"

=============================================================================
