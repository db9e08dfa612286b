CONSTANTS
    ImageVars <- MCImageVars
    NamespaceVar = WATCH_NAMESPACE
    DEVICE_PLUGIN_IMAGE = DEVICE_PLUGIN_IMAGE
    DRIVER_HABANA_IMAGE_BASENAME = DRIVER_HABANA_IMAGE_BASENAME
    NODE_METRICS_IMAGE = NODE_METRICS_IMAGE

SPECIFICATION BSpec

INVARIANT TypeOK
INVARIANT StartsOnlyConfigured

\* Every behaviour ends in a process that has exited.
CHECK_DEADLOCK FALSE
