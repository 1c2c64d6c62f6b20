---------------------------- MODULE HandlerTable ----------------------------
(***************************************************************************)
(* The two tables of HttpServer, from paths to handlers.  The application  *)
(* fills them before start(), after which they do not change.  A handler   *)
(* is identified with the path it is registered for.                       *)
(***************************************************************************)
EXTENDS HttpParsedRequest

CONSTANTS
  HTTPHandlers,   \* the paths of setHTTPHandler(), in the order of the map
  WSHandlers      \* the paths of setWSHandler()

ASSUME HTTPHandlersAssumption == IsInjective(HTTPHandlers)

\* The result of a search that is nullptr.
NoHandler == << >>

\* Mutant: find_first_of("/")
GetHTTPHandlerFirstSlash(url) ==
  LET path == SubSeq(url, 1, SelectInSeq(url, LAMBDA ch : ch = "/"))
  IN  IF path \in ToSet(HTTPHandlers) THEN path
      ELSE IF HTTPHandlers = << >> THEN NoHandler ELSE HTTPHandlers[1]

\* getHTTPHandler(): the handler of the path, which is cut as in get_path(),
\* or the first one.
GetHTTPHandler(url) ==
  IF GetPath(url) \in ToSet(HTTPHandlers) THEN GetPath(url)
  ELSE IF HTTPHandlers = << >> THEN NoHandler ELSE HTTPHandlers[1]

\* getWSHandler()
GetWSHandler(url) == IF url \in WSHandlers THEN url ELSE NoHandler
=============================================================================
