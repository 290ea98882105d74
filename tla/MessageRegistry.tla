-------------------------- MODULE MessageRegistry --------------------------
(***************************************************************************)
(* The Base registry of src/include/registries/base_message_registry.hpp:  *)
(* in the order of the array, the key of each entry and how many arguments *)
(* its text takes.  The text of an entry with n arguments holds the        *)
(* placeholders %1 to %n; its wording, types and severity are left out.    *)
(***************************************************************************)
EXTENDS Integers, Sequences

Registry1 ==
  <<<<"AccessDenied", 1>>, <<"AccountForSessionNoLongerExists", 0>>,
    <<"AccountModified", 0>>, <<"AccountNotModified", 0>>,
    <<"AccountRemoved", 0>>, <<"ActionDeprecated", 1>>,
    <<"ActionNotSupported", 1>>, <<"ActionParameterDuplicate", 2>>,
    <<"ActionParameterMissing", 2>>, <<"ActionParameterNotSupported", 2>>,
    <<"ActionParameterUnknown", 2>>, <<"ActionParameterValueConflict", 2>>>>

Registry2 ==
  <<<<"ActionParameterValueError", 2>>,
    <<"ActionParameterValueFormatError", 3>>,
    <<"ActionParameterValueNotInList", 3>>,
    <<"ActionParameterValueTypeError", 3>>, <<"ArraySizeTooLong", 2>>,
    <<"ArraySizeTooShort", 2>>, <<"AuthenticationTokenRequired", 0>>,
    <<"ChassisPowerStateOffRequired", 1>>,
    <<"ChassisPowerStateOnRequired", 1>>, <<"ConditionInRelatedResource", 0>>,
    <<"CouldNotEstablishConnection", 1>>,
    <<"CreateFailedMissingReqProperties", 1>>>>

Registry3 ==
  <<<<"CreateLimitReachedForResource", 0>>, <<"Created", 0>>,
    <<"EmptyJSON", 0>>, <<"EventBufferExceeded", 0>>,
    <<"EventSubscriptionLimitExceeded", 0>>, <<"GeneralError", 0>>,
    <<"HeaderInvalid", 1>>, <<"HeaderMissing", 1>>,
    <<"InsufficientPrivilege", 0>>, <<"InsufficientStorage", 0>>,
    <<"InternalError", 0>>, <<"InvalidIndex", 1>>, <<"InvalidJSON", 1>>,
    <<"InvalidObject", 1>>>>

Registry4 ==
  <<<<"InvalidURI", 1>>, <<"LicenseRequired", 1>>, <<"MalformedJSON", 0>>,
    <<"MaximumErrorsExceeded", 0>>, <<"MissingOrMalformedPart", 0>>,
    <<"NetworkNameResolutionNotConfigured", 0>>,
    <<"NetworkNameResolutionNotSupported", 0>>, <<"NoOperation", 0>>,
    <<"NoValidSession", 0>>, <<"OperationFailed", 0>>,
    <<"OperationNotAllowed", 0>>, <<"OperationTimeout", 0>>,
    <<"PasswordChangeRequired", 1>>, <<"PayloadTooLarge", 0>>>>

Registry5 ==
  <<<<"PreconditionFailed", 0>>, <<"PreconditionRequired", 0>>,
    <<"PropertyDeprecated", 1>>, <<"PropertyDuplicate", 1>>,
    <<"PropertyMissing", 1>>, <<"PropertyNotUpdated", 1>>,
    <<"PropertyNotWritable", 1>>, <<"PropertyUnknown", 1>>,
    <<"PropertyValueConflict", 2>>, <<"PropertyValueDeprecated", 2>>,
    <<"PropertyValueError", 1>>, <<"PropertyValueExternalConflict", 2>>>>

Registry6 ==
  <<<<"PropertyValueFormatError", 2>>, <<"PropertyValueIncorrect", 2>>,
    <<"PropertyValueModified", 2>>, <<"PropertyValueNotInList", 2>>,
    <<"PropertyValueOutOfRange", 2>>, <<"PropertyValueResourceConflict", 3>>,
    <<"PropertyValueTypeError", 2>>, <<"QueryCombinationInvalid", 0>>,
    <<"QueryNotSupported", 0>>, <<"QueryNotSupportedOnOperation", 0>>,
    <<"QueryNotSupportedOnResource", 0>>, <<"QueryParameterOutOfRange", 3>>>>

Registry7 ==
  <<<<"QueryParameterUnsupported", 1>>, <<"QueryParameterValueError", 1>>,
    <<"QueryParameterValueFormatError", 2>>,
    <<"QueryParameterValueTypeError", 2>>, <<"ResetRecommended", 2>>,
    <<"ResetRequired", 2>>, <<"ResourceAlreadyExists", 3>>,
    <<"ResourceAtUriInUnknownFormat", 1>>, <<"ResourceAtUriUnauthorized", 2>>,
    <<"ResourceCannotBeDeleted", 0>>, <<"ResourceCreationConflict", 1>>,
    <<"ResourceDeprecated", 1>>>>

Registry8 ==
  <<<<"ResourceExhaustion", 1>>, <<"ResourceInStandby", 0>>,
    <<"ResourceInUse", 0>>, <<"ResourceMissingAtURI", 1>>,
    <<"ResourceNotFound", 2>>, <<"ResourceTypeIncompatible", 2>>,
    <<"RestrictedPrivilege", 1>>, <<"RestrictedRole", 1>>,
    <<"ServiceDisabled", 1>>, <<"ServiceInUnknownState", 0>>,
    <<"ServiceShuttingDown", 0>>, <<"ServiceTemporarilyUnavailable", 1>>,
    <<"SessionLimitExceeded", 0>>>>

Registry9 ==
  <<<<"SessionTerminated", 0>>, <<"SourceDoesNotSupportProtocol", 2>>,
    <<"StrictAccountTypes", 1>>, <<"StringValueTooLong", 2>>,
    <<"StringValueTooShort", 2>>, <<"SubscriptionTerminated", 0>>,
    <<"Success", 0>>, <<"UndeterminedFault", 1>>,
    <<"UnrecognizedRequestBody", 0>>>>

registry ==
  Registry1 \o Registry2 \o Registry3 \o Registry4 \o Registry5 \o
  Registry6 \o Registry7 \o Registry8 \o Registry9

Index ==
  <<"accessDenied", "accountForSessionNoLongerExists", "accountModified",
    "accountNotModified", "accountRemoved", "actionDeprecated",
    "actionNotSupported", "actionParameterDuplicate", "actionParameterMissing",
    "actionParameterNotSupported", "actionParameterUnknown",
    "actionParameterValueConflict", "actionParameterValueError",
    "actionParameterValueFormatError", "actionParameterValueNotInList",
    "actionParameterValueTypeError", "arraySizeTooLong", "arraySizeTooShort",
    "authenticationTokenRequired", "chassisPowerStateOffRequired",
    "chassisPowerStateOnRequired", "conditionInRelatedResource",
    "couldNotEstablishConnection", "createFailedMissingReqProperties",
    "createLimitReachedForResource", "created", "emptyJSON",
    "eventBufferExceeded", "eventSubscriptionLimitExceeded", "generalError",
    "headerInvalid", "headerMissing", "insufficientPrivilege",
    "insufficientStorage", "internalError", "invalidIndex", "invalidJSON",
    "invalidObject", "invalidURI", "licenseRequired", "malformedJSON",
    "maximumErrorsExceeded", "missingOrMalformedPart",
    "networkNameResolutionNotConfigured", "networkNameResolutionNotSupported",
    "noOperation", "noValidSession", "operationFailed", "operationNotAllowed",
    "operationTimeout", "passwordChangeRequired", "payloadTooLarge",
    "preconditionFailed", "preconditionRequired", "propertyDeprecated",
    "propertyDuplicate", "propertyMissing", "propertyNotUpdated",
    "propertyNotWritable", "propertyUnknown", "propertyValueConflict",
    "propertyValueDeprecated", "propertyValueError",
    "propertyValueExternalConflict", "propertyValueFormatError",
    "propertyValueIncorrect", "propertyValueModified",
    "propertyValueNotInList", "propertyValueOutOfRange",
    "propertyValueResourceConflict", "propertyValueTypeError",
    "queryCombinationInvalid", "queryNotSupported",
    "queryNotSupportedOnOperation", "queryNotSupportedOnResource",
    "queryParameterOutOfRange", "queryParameterUnsupported",
    "queryParameterValueError", "queryParameterValueFormatError",
    "queryParameterValueTypeError", "resetRecommended", "resetRequired",
    "resourceAlreadyExists", "resourceAtUriInUnknownFormat",
    "resourceAtUriUnauthorized", "resourceCannotBeDeleted",
    "resourceCreationConflict", "resourceDeprecated", "resourceExhaustion",
    "resourceInStandby", "resourceInUse", "resourceMissingAtURI",
    "resourceNotFound", "resourceTypeIncompatible", "restrictedPrivilege",
    "restrictedRole", "serviceDisabled", "serviceInUnknownState",
    "serviceShuttingDown", "serviceTemporarilyUnavailable",
    "sessionLimitExceeded", "sessionTerminated",
    "sourceDoesNotSupportProtocol", "strictAccountTypes", "stringValueTooLong",
    "stringValueTooShort", "subscriptionTerminated", "success",
    "undeterminedFault", "unrecognizedRequestBody">>
=============================================================================
