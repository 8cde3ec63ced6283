\* Welcome mails and task assignments to a user with up to two devices; an operator
\* changes the route of EMAIL or the credentials of FCM.
CONSTANTS
  EnvKeys = {}
  Keyed = {"fcm"}
  EmailProviderOverride = None
  PushProviderOverride = None
  None = None
  Rerouted = {"EMAIL"}
  Fallbacks = {None}
  MaxDevices = 2
  MaxWrites = 1
SPECIFICATION DispatchFairSpec
PROPERTIES HandedOverOrReported SettlesOnTables
