-------------------------------- MODULE Errors --------------------------------
(***************************************************************************)
(* What becomes of an error: the driver raises it in a repository, the     *)
(* unit of work turns it into an error of the database layer, a method of  *)
(* a service into one of its own, and a handler into an answer.  An error  *)
(* is its class, or what the database says of it.                          *)
(***************************************************************************)
EXTENDS Integers, FiniteSets

DatabaseErrors ==
  {"DatabaseError", "DBConnectionError", "NotFoundError", "AlreadyExistsError",
   "ForeignKeyViolationError", "OperationRestrictedByRefError", "RelatedResourceNotFoundError"}

ServiceErrors ==
  {"ServiceError", "UnavailableProductError", "ClientError", "ExpiredTokenError",
   "InvalidTokenError", "UserIsNotActivatedError", "InvalidCredentialsError",
   "UserAlreadyActivatedError", "ActionForbiddenError", "ExternalGatewayError",
   "EntityNotFoundError", "EntityAlreadyExistsError", "EntityOperationRestrictedByRefError",
   "EntityRelationshipNotFoundError"}

\* What psycopg raises, the two foreign key violations told apart by their message, and
\* anything else.
DriverErrors == {"NoData", "UniqueViolation", "StillReferenced", "NotPresent", "OtherError"}

\* An except clause for class c catches e.
Catches(c, e) ==
  \/ c = e
  \/ c = "ForeignKeyViolationError"
     /\ e \in {"OperationRestrictedByRefError", "RelatedResourceNotFoundError"}
  \/ c = "DatabaseError" /\ e \in DatabaseErrors

-----------------------------------------------------------------------------
\* PostgresExceptionsMapper.

MapByClass(e) == CASE e = "NoData"          -> "NotFoundError"
                   [] e = "UniqueViolation" -> "AlreadyExistsError"
                   [] OTHER                 -> "DatabaseError"

Map(e) == CASE e = "StillReferenced" -> "OperationRestrictedByRefError"
            [] e = "NotPresent"      -> "RelatedResourceNotFoundError"
            [] OTHER                 -> MapByClass(e)

\* super().map, not self.map.
MapAndInit(e) == MapByClass(e)

\* SqlAlchemyUnitOfWork: an error of the block or of the commit.
LeavesUow(e) == IF e \in DatabaseErrors \cup ServiceErrors THEN e ELSE MapAndInit(e)

-----------------------------------------------------------------------------
\* The except clauses of the services: pairs of what is caught and what is raised instead.

CreateProduct  == {<<"AlreadyExistsError", "EntityAlreadyExistsError">>}
GetProduct     == {<<"NotFoundError", "EntityNotFoundError">>}
UpdateProduct  == {<<"AlreadyExistsError", "EntityAlreadyExistsError">>,
                   <<"NotFoundError", "EntityNotFoundError">>}
DeleteProduct  == {<<"NotFoundError", "EntityNotFoundError">>,
                   <<"OperationRestrictedByRefError", "EntityOperationRestrictedByRefError">>}

CreateNews     == {}
GetNews        == {<<"NotFoundError", "EntityNotFoundError">>}
UpdateNews     == {<<"NotFoundError", "EntityNotFoundError">>}
DeleteNews     == {<<"NotFoundError", "EntityNotFoundError">>}

UpdateOrder    == {<<"NotFoundError", "EntityNotFoundError">>}
DeleteOrder    == {<<"NotFoundError", "EntityNotFoundError">>}
GetOrder       == {<<"NotFoundError", "EntityNotFoundError">>}

Signin         == {<<"NotFoundError", "InvalidCredentialsError">>}
ActivateUser   == {<<"NotFoundError", "InvalidTokenError">>}
UpdatePassword == {<<"NotFoundError", "InvalidTokenError">>}
ResendToken    == {<<"NotFoundError", "EntityNotFoundError">>}
ResetPassword  == {<<"NotFoundError", "EntityNotFoundError">>}
GetUser        == {<<"NotFoundError", "EntityNotFoundError">>}
ConfirmEmail   == {}

RemoveFromCart == {<<"NotFoundError", "EntityNotFoundError">>}

\* log_request, around the calls of a gateway: the errors of httpx become one.
LogRequest(e)  == IF e \in {"RequestError", "HTTPStatusError"} THEN "ExternalGatewayError" ELSE e

\* What leaves a method whose unit of work raises e.
Raised(method, e) ==
  LET left == LeavesUow(e)
      hits == {clause \in method : Catches(clause[1], left)}
  IN IF hits = {} THEN left ELSE (CHOOSE clause \in hits : TRUE)[2]

-----------------------------------------------------------------------------
\* HTTPExceptionsMapper.

StatusOf == [e \in ServiceErrors \ {"ServiceError", "ActionForbiddenError"} |->
  CASE e = "EntityNotFoundError"                                                 -> 404
    [] e = "EntityAlreadyExistsError"                                            -> 409
    [] e \in {"EntityRelationshipNotFoundError", "ClientError"}                  -> 400
    [] e \in {"EntityOperationRestrictedByRefError", "UserIsNotActivatedError",
              "UserAlreadyActivatedError"}                                       -> 403
    [] e = "UnavailableProductError"                                             -> 422
    [] e \in {"InvalidTokenError", "ExpiredTokenError", "InvalidCredentialsError"} -> 401
    [] e = "ExternalGatewayError"                                                -> 500]

\* Handlers are found by class and by the classes above; the status by the class alone.
HasStatus(e) == e \in DOMAIN StatusOf
Status(e)    == IF HasStatus(e) THEN StatusOf[e] ELSE 500

\* An unknown error is logged and told to support; the client is not told what it was.
Handle(e) ==
  [status  |-> Status(e),
   detail  |-> IF Status(e) < 500 THEN e ELSE "Internal server error.",
   support |-> ~HasStatus(e)]

Answer(method, e) == Handle(Raised(method, e))
=============================================================================
